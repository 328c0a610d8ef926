------------------------------- MODULE LocalAccess -------------------------------
(***************************************************************************)
(* The one operator of a personal server: servers on one database, each    *)
(* configured with an access password or without; logins, which bring an   *)
(* old digest up to date; and the operator's sessions.                     *)
(***************************************************************************)
EXTENDS Naturals, FiniteSets

CONSTANTS Servers, Passwords, Logins, None,
          MaxDigest          \* bound: digests made, each with a salt of its own

VARIABLES stored,      \* password_credentials: the digest stored, NoDigest for none
          configured,  \* per server: down, or the password it was started with
          own,         \* per server: localAccessDigest
          starting,    \* per server: the digest its start has read
          digests,     \* how many were made
          set,         \* the password a start stored last
          live,        \* the passwords sessions not revoked were made with
          login

accessVars == <<stored, configured, own, starting, digests, set, live, login>>

(* The first digest is of the old kind, any other up to date.              *)
NoDigest == [of |-> None, number |-> 0]
Old == 1
Keys == Passwords \cup {None}
Digests == {NoDigest} \cup [of : Passwords, number : 1 .. MaxDigest]
Down == [up |-> FALSE, password |-> None]
Idle == [pc |-> "idle", at |-> None, password |-> None, digest |-> NoDigest]

AccessTypeOK ==
  /\ stored \in Digests /\ configured \in [Servers -> [up : BOOLEAN, password : Keys]]
  /\ own \in [Servers -> Digests]
  /\ starting \in [Servers -> [on : BOOLEAN, password : Keys, seen : Digests]]
  /\ digests \in 1 .. MaxDigest /\ set \in Keys /\ live \subseteq Keys
  /\ login \in [Logins -> [pc : {"idle", "read", "update", "adopt", "create", "refused"},
                           at : Servers \cup {None}, password : Keys, digest : Digests]]

NotStarting == [on |-> FALSE, password |-> None, seen |-> NoDigest]

(* The database of an earlier version: no password, or one digest.         *)
AccessInit ==
  /\ stored \in {NoDigest} \cup [of : Passwords, number : {Old}]
  /\ configured = [p \in Servers |-> Down] /\ own = [p \in Servers |-> NoDigest]
  /\ starting = [p \in Servers |-> NotStarting]
  /\ digests = Old /\ set = stored.of /\ live = {} /\ login = [l \in Logins |-> Idle]

(* A digest of the password, with a new salt.                              *)
Hash(password) == [of |-> password, number |-> digests + 1]

-----------------------------------------------------------------------------
(* configureLocalAccess reads the digest ...                               *)
StartServer(p, password) ==
  /\ ~configured[p].up /\ ~starting[p].on
  /\ starting' = [starting EXCEPT ![p] = [on |-> TRUE, password |-> password, seen |-> stored]]
  /\ UNCHANGED <<stored, configured, own, digests, set, live, login>>

(* Mutant: the sessions made so far stay.                                  *)
SessionsKept == live

SessionsRevoked == {}

(* ... keeps it, if it is of the password, or none for no password; else   *)
(* revokes the sessions and stores another, in one transaction.            *)
Configure(p) ==
  LET password == starting[p].password
      same     == starting[p].seen.of = password
      digest   == IF password = None THEN NoDigest ELSE Hash(password)
  IN /\ starting[p].on /\ starting' = [starting EXCEPT ![p] = NotStarting]
     /\ configured' = [configured EXCEPT ![p] = [up |-> TRUE, password |-> password]]
     /\ own' = [own EXCEPT ![p] = IF same THEN starting[p].seen ELSE digest]
     /\ \/ same /\ UNCHANGED <<stored, digests, set, live>>
        \/ /\ ~same /\ digests < MaxDigest
           /\ digests' = IF password = None THEN digests ELSE digests + 1
           /\ stored' = digest /\ set' = password /\ live' = SessionsRevoked
     /\ UNCHANGED login

Stop(p) ==
  /\ configured[p].up /\ configured' = [configured EXCEPT ![p] = Down]
  /\ own' = [own EXCEPT ![p] = NoDigest]
  /\ login' = [l \in Logins |-> IF login[l].at = p THEN Idle ELSE login[l]]
  /\ UNCHANGED <<stored, starting, digests, set, live>>

-----------------------------------------------------------------------------
Go(l, r) == login' = [login EXCEPT ![l] = r]

(* login, of a server that asks for a password: the digest is read ...     *)
AskLogin(l, p, password) ==
  /\ login[l].pc = "idle" /\ configured[p].up /\ configured[p].password # None
  /\ Go(l, [pc |-> "read", at |-> p, password |-> password, digest |-> stored])
  /\ UNCHANGED <<stored, configured, own, starting, digests, set, live>>

(* ... the password verified against it, and hashed anew if it is old ...  *)
Verify(l) ==
  LET r == login[l]
  IN /\ r.pc = "read"
     /\ Go(l, IF r.digest.of # r.password THEN [r EXCEPT !.pc = "refused"]
              ELSE IF r.digest.number = Old THEN [r EXCEPT !.pc = "update"]
              ELSE [r EXCEPT !.pc = "create"])
     /\ UNCHANGED <<stored, configured, own, starting, digests, set, live>>

(* Mutant: the new digest is stored whatever is there.                     *)
StoredOver(l, digest) == digest

(* The digest read is replaced; one that has changed meanwhile stays.      *)
StoredFor(l, digest) == IF stored = login[l].digest THEN digest ELSE stored

UpdateDigest(l) ==
  LET digest == Hash(login[l].password)
  IN /\ login[l].pc = "update" /\ digests < MaxDigest /\ digests' = digests + 1
     /\ stored' = StoredFor(l, digest)
     /\ Go(l, [login[l] EXCEPT !.pc = "adopt", !.digest = digest])
     /\ UNCHANGED <<configured, own, starting, set, live>>

(* The server takes the new digest for its own, stored or not.             *)
Adopt(l) ==
  /\ login[l].pc = "adopt" /\ own' = [own EXCEPT ![login[l].at] = login[l].digest]
  /\ Go(l, [login[l] EXCEPT !.pc = "create"])
  /\ UNCHANGED <<stored, configured, starting, digests, set, live>>

(* createSession, in a transaction: the digest stored must be the one      *)
(* verified, and the server's own.                                         *)
MayCreate(p, digest) == stored = digest /\ stored = own[p]

CreateSession(l) ==
  LET r == login[l]
  IN /\ r.pc = "create"
     /\ IF MayCreate(r.at, r.digest) THEN live' = live \cup {r.password} /\ Go(l, Idle)
        ELSE Go(l, [r EXCEPT !.pc = "refused"]) /\ UNCHANGED live
     /\ UNCHANGED <<stored, configured, own, starting, digests, set>>

(* A server without a password makes sessions by itself.                   *)
AutomaticSession(p) ==
  /\ configured[p].up /\ configured[p].password = None /\ MayCreate(p, NoDigest)
  /\ live' = live \cup {None}
  /\ UNCHANGED <<stored, configured, own, starting, digests, set, login>>

AskAgain(l) ==
  /\ login[l].pc = "refused" /\ Go(l, Idle)
  /\ UNCHANGED <<stored, configured, own, starting, digests, set, live>>

AccessNext ==
  \/ \E p \in Servers :
       \/ Configure(p) \/ Stop(p) \/ AutomaticSession(p)
       \/ \E k \in Keys : StartServer(p, k)
       \/ \E l \in Logins, k \in Passwords : AskLogin(l, p, k)
  \/ \E l \in Logins : Verify(l) \/ UpdateDigest(l) \/ Adopt(l) \/ CreateSession(l) \/ AskAgain(l)

-----------------------------------------------------------------------------
(* Mutant: a session not revoked is good anywhere.                         *)
AcceptsAny(p, session) == configured[p].up /\ session \in live

(* getSessionRow: a server knows the sessions of its own digest.           *)
Accepts(p, session) == configured[p].up /\ session \in live /\ stored = own[p]

(* Every session left was made with the password now asked for: a login    *)
(* overtaken by a change of the password makes none.                       *)
SessionsKnowPassword == live \subseteq {stored.of}

(* The password stored is the one a server was started with last, not one  *)
(* a login under an earlier password has brought back.                     *)
StoredAsStarted == stored.of = set

(* A server admits nobody with another password, or none, than its own.    *)
OwnPasswordOnly ==
  \A p \in Servers, session \in Keys : Accepts(p, session) => session = configured[p].password
=============================================================================
