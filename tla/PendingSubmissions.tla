-------------------------- MODULE PendingSubmissions --------------------------
(***************************************************************************)
(* Submissions of dry runs and deployments whose answer may be lost: each  *)
(* is written to the browser's storage under its idempotency key before it *)
(* is sent, and taken out only once its job, or that there is none, is     *)
(* known.  The tabs of a user share the storage.                           *)
(***************************************************************************)
EXTENDS Naturals, FiniteSets

CONSTANTS Tabs, None,
          Checkers,              \* bound: the tabs whose list of records is used
          MaxKeys, MaxArriving,  \* bounds: keys made, POSTs on their way at once
          MaxPending             \* listPending(owner).length >= 50

VARIABLES stored,       \* the keys recorded as pending
          author,       \* per key: the tab that made it
          key,          \* per tab: dryRunIdempotencyKeyRef
          call,         \* per tab: its submission, and its check of a record
          arriving,     \* POSTs sent and not yet processed: key and sender
          made,         \* keys the server has a job for
          known,        \* keys whose job a page was told
          crossed       \* keys looked up from the list while another attempt went on

pendingVars == <<stored, author, key, call, arriving, made, known, crossed>>

Keys == 1 .. MaxKeys
Calls == (Tabs \X {"submit"}) \cup (Checkers \X {"check"})
Idle == [pc |-> "idle", key |-> None, fresh |-> FALSE, answer |-> None]
Answers == {"job", "denied", "refused"}

PendingTypeOK ==
  /\ stored \subseteq Keys /\ author \in [Keys -> Tabs \cup {None}]
  /\ key \in [Tabs -> Keys \cup {None}]
  /\ call \in [Calls -> [pc : {"idle", "prepare", "posted", "settle", "lookup"}, key : Keys \cup {None},
                         fresh : BOOLEAN, answer : Answers \cup {None}]]
  /\ arriving \subseteq Keys \X Calls
  /\ made \subseteq Keys /\ known \subseteq Keys /\ crossed \subseteq Keys

PendingInit ==
  /\ stored = {} /\ author = [k \in Keys |-> None] /\ key = [t \in Tabs |-> None]
  /\ call = [c \in Calls |-> Idle] /\ arriving = {} /\ made = {} /\ known = {} /\ crossed = {}

Server == <<arriving, made>>
Set(c, r) == call' = [call EXCEPT ![c] = r]
Submission(t) == <<t, "submit">>

-----------------------------------------------------------------------------
(* Mutant: a submission whose answer is still unknown is in no one's way.  *)
AlwaysStarts(t) == TRUE

(* No new key while another submission of the user is unresolved.          *)
MayStart(t) == stored \subseteq {key[t]}

Start(t) ==
  /\ call[Submission(t)] = Idle /\ key[t] \notin known /\ MayStart(t)
  /\ Set(Submission(t), [Idle EXCEPT !.pc = "prepare"])
  /\ UNCHANGED <<stored, author, key, Server, known, crossed>>

Posted(c, k, fresh) ==
  /\ Cardinality(arriving) < MaxArriving
  /\ Set(c, [pc |-> "posted", key |-> k, fresh |-> fresh, answer |-> None])
  /\ arriving' = arriving \cup {<<k, c>>}

(* prepareActionSources is back: the key kept for this selection or a new  *)
(* one, written down before it is sent.                                    *)
Send(t) ==
  LET unused == {k \in Keys : author[k] = None}
      k == IF key[t] # None THEN key[t] ELSE CHOOSE n \in unused : \A m \in unused : n <= m
  IN /\ call[Submission(t)].pc = "prepare" /\ (key[t] = None => unused # {})
     /\ key' = [key EXCEPT ![t] = k]
     /\ author' = IF key[t] = None THEN [author EXCEPT ![k] = t] ELSE author
     /\ IF k \notin stored /\ Cardinality(stored) >= MaxPending
        THEN Set(Submission(t), Idle) /\ UNCHANGED <<stored, arriving>>
        ELSE stored' = stored \cup {k} /\ Posted(Submission(t), k, k \notin stored)
     /\ UNCHANGED <<made, known, crossed>>

(* A change of the selection aborts the submission, but not one whose      *)
(* answer has come; the key is for the selection before.                   *)
Reselect(t) ==
  /\ key' = [key EXCEPT ![t] = None]
  /\ IF call[Submission(t)].pc = "prepare"
        \/ (call[Submission(t)].pc = "posted" /\ call[Submission(t)].answer = None)
     THEN Set(Submission(t), Idle) ELSE UNCHANGED call
  /\ UNCHANGED <<stored, author, Server, known, crossed>>

(* The tab is loaded anew.                                                 *)
Reload(t) ==
  /\ key' = [key EXCEPT ![t] = None]
  /\ call' = [c \in Calls |-> IF c[1] = t THEN Idle ELSE call[c]]
  /\ UNCHANGED <<stored, author, Server, known, crossed>>

(* The job of the key has ended: the next submission is another.           *)
Ended(t) ==
  /\ key[t] \in known /\ key' = [key EXCEPT ![t] = None]
  /\ UNCHANGED <<stored, author, call, Server, known, crossed>>

-----------------------------------------------------------------------------
(* The server makes one job for a key; a retry of it is answered with that *)
(* job; either may be refused.                                             *)
Process(k, c) ==
  /\ <<k, c>> \in arriving /\ arriving' = arriving \ {<<k, c>>}
  /\ \E answer \in IF k \in made THEN Answers \ {"refused"} ELSE Answers :
       /\ made' = IF answer = "job" THEN made \cup {k} ELSE made
       /\ IF call[c].pc = "posted" /\ call[c].key = k
          THEN Set(c, [call[c] EXCEPT !.answer = answer]) ELSE UNCHANGED call
  /\ UNCHANGED <<stored, author, key, known, crossed>>

(* An error, no answer, or one waited for no longer: the record stays.     *)
GiveUp(c) ==
  /\ call[c].pc = "posted" /\ call[c].answer = None
  /\ Set(c, Idle)
  /\ UNCHANGED <<stored, author, key, Server, known, crossed>>

Complete(c) ==
  /\ stored' = stored \ {call[c].key} /\ known' = known \cup {call[c].key} /\ Set(c, Idle)
  /\ UNCHANGED <<author, key, Server, crossed>>

Job(c) == call[c].pc = "posted" /\ call[c].answer = "job" /\ Complete(c)

(* Mutant: any attempt that is refused was the only one.                   *)
Conclusive(c) == c[2] = "submit"

(* allowClearFreshRequest: the only attempt ever made with this key.       *)
MayClear(c) == c[2] = "submit" /\ call[c].fresh

(* settleRejectedPending: not let in at all, or refused for its input.     *)
Rejected(c) ==
  /\ call[c].pc = "posted" /\ call[c].answer \in {"denied", "refused"}
  /\ stored' = IF call[c].answer = "denied" /\ MayClear(c) THEN stored \ {call[c].key} ELSE stored
  /\ IF call[c].answer = "refused" /\ MayClear(c) /\ call[c].key \in stored
     THEN Set(c, [call[c] EXCEPT !.pc = "settle"]) ELSE Set(c, Idle)
  /\ UNCHANGED <<author, key, Server, known, crossed>>

(* What was refused is looked up once more before it is forgotten.         *)
Settle(c) ==
  /\ call[c].pc = "settle"
  /\ \/ call[c].key \in made /\ Complete(c)
     \/ /\ call[c].key \notin made
        /\ stored' = stored \ {call[c].key} /\ Set(c, Idle)
        /\ UNCHANGED <<author, key, Server, known, crossed>>
     \/ Set(c, Idle) /\ UNCHANGED <<stored, author, key, Server, known, crossed>>

-----------------------------------------------------------------------------
(* PendingSubmissions.check: the user asks for what became of a record ... *)
Check(t, k) ==
  /\ call[<<t, "check">>] = Idle /\ k \in stored
  /\ Set(<<t, "check">>, [Idle EXCEPT !.pc = "lookup", !.key = k])
  /\ crossed' = IF \E d \in Calls : call[d].key = k THEN crossed \cup {k} ELSE crossed
  /\ UNCHANGED <<stored, author, key, Server, known>>

(* ... and, if there is no job, may send it again, key and body as before. *)
LookUp(t) ==
  LET c == <<t, "check">>
      k == call[c].key
  IN /\ call[c].pc = "lookup"
     /\ \/ k \in made /\ Complete(c)
        \/ /\ k \notin made /\ Posted(c, k, FALSE)
           /\ UNCHANGED <<stored, author, key, made, known, crossed>>
        \/ Set(c, Idle) /\ UNCHANGED <<stored, author, key, Server, known, crossed>>

PendingNext ==
  \/ \E t \in Tabs : Start(t) \/ Send(t) \/ Reselect(t) \/ Reload(t) \/ Ended(t)
  \/ \E t \in Checkers : LookUp(t) \/ \E k \in Keys : Check(t, k)
  \/ \E c \in Calls : \/ GiveUp(c) \/ Job(c) \/ Rejected(c) \/ Settle(c)
                      \/ \E k \in Keys : Process(k, c)

-----------------------------------------------------------------------------
(* A job nobody was told of can be found: its submission is still listed.  *)
(* (Unless it was looked up in the list, and sent again, while its first   *)
(* attempt was being refused.)                                             *)
NothingIsForgotten == \A k \in made \ known : k \in stored \/ k \in crossed

(* A tab has at most one submission whose outcome is open.                 *)
OneOpenPerTab == \A t \in Tabs : Cardinality({k \in stored : author[k] = t}) <= 1
=============================================================================
