---------------------------- MODULE ServicesProofs ----------------------------
(***************************************************************************)
(* What MCServices promises of the services around the jobs holds for any  *)
(* number of connections, requests, logins, users and sessions.  Each      *)
(* service has an inductive invariant of its own; no step of one touches   *)
(* the state of another.                                                   *)
(***************************************************************************)
EXTENDS MCServices, FiniteSetTheorems, TLAPS

-----------------------------------------------------------------------------
(* A set that goes into another one by one has no more members.            *)
LEMMA OneByOne ==
  ASSUME NEW S, NEW T, IsFiniteSet(T), NEW f \in [S -> T], \A x, y \in S : f[x] = f[y] => x = y
  PROVE  IsFiniteSet(S) /\ Cardinality(S) \in Nat /\ Cardinality(T) \in Nat /\ Cardinality(S) <= Cardinality(T)
<1>1. f \in Injection(S, T)
  BY DEF Injection, IsInjective
<1>2. IsFiniteSet(S) /\ Cardinality(S) <= Cardinality(T)
  BY <1>1, FS_Injection
<1> QED
  BY <1>2, FS_CardinalityType

(* Of the numbers up to a natural there are finitely many.                 *)
LEMMA FewNumbers ==
  ASSUME NEW n \in Nat, NEW S \in SUBSET (1 .. n)
  PROVE  IsFiniteSet(S) /\ Cardinality(S) \in Nat
<1>1. IsFiniteSet(1 .. n)
  BY FS_Interval
<1> QED
  BY <1>1, FS_Subset, FS_CardinalityType

LEMMA OneMore ==
  ASSUME NEW S, IsFiniteSet(S), Cardinality(S) \in Nat, NEW x, NEW k \in Nat, Cardinality(S) < k
  PROVE  Cardinality(S \cup {x}) <= k
<1>1. Cardinality(S \cup {x}) = IF x \in S THEN Cardinality(S) ELSE Cardinality(S) + 1
  BY FS_AddElement
<1> QED
  BY <1>1

(* The modules count with the Cardinality everybody counts with.           *)
LEMMA SameCount ==
  \A S : OAuth!Cardinality(S) = Cardinality(S) /\ Limits!Cardinality(S) = Cardinality(S)
<1>1. \A S : OAuth!Cardinality(S) = Cardinality(S)
  BY Zenon DEF OAuth!Cardinality, Cardinality
<1>2. \A S : Limits!Cardinality(S) = Cardinality(S)
  BY Zenon DEF Limits!Cardinality, Cardinality
<1> QED
  BY <1>1, <1>2

-----------------------------------------------------------------------------
(* Users.  A request that is past its look-up is about a user, and every   *)
(* session not revoked was made since its user was last disabled.          *)
AccountInv ==
  /\ People!AccountTypeOK
  /\ \A c \in Callers : caller[c].pc # "idle" => caller[c].on \in Users
  /\ People!BootstrapOnce /\ People!AdministratorRemains
  /\ \A u \in Users : before[u] <= made[u]
  /\ \A s \in sessions : s[2] <= made[s[1]] /\ s[2] > before[s[1]]

(* At first there is nobody.                                               *)
LEMMA AccountInvInit == People!AccountInit => AccountInv
<1> SUFFICES ASSUME People!AccountInit PROVE AccountInv
  OBVIOUS
<1> USE NumberAssumption DEF People!AccountInit, People!NoUser, People!Idle
<1>1. People!AccountTypeOK
  BY DEF People!AccountTypeOK
<1>2. \A c \in Callers : caller[c].pc # "idle" => caller[c].on \in Users
  OBVIOUS
<1>3. People!BootstrapOnce /\ People!AdministratorRemains
  BY DEF People!BootstrapOnce, People!AdministratorRemains
<1>4. /\ \A u \in Users : before[u] <= made[u]
      /\ \A s \in sessions : s[2] <= made[s[1]] /\ s[2] > before[s[1]]
  OBVIOUS
<1> QED
  BY <1>1, <1>2, <1>3, <1>4 DEF AccountInv

(* A request's record after Go or Done.                                    *)
LEMMA CallerGoes ==
  ASSUME AccountInv, NEW c \in Callers,
         NEW w \in {"idle", "bootstrap", "create", "update", "login", "session"},
         NEW m \in Users \cup {None}, NEW u \in Users \cup {None}, w # "idle" => u \in Users,
         caller' = [caller EXCEPT ![c] = [pc |-> w, actor |-> m, on |-> u]]
  PROVE  /\ caller' \in [Callers -> [pc : {"idle", "bootstrap", "create", "update", "login", "session"},
                                     actor : Users \cup {None}, on : Users \cup {None}]]
         /\ \A d \in Callers : caller'[d].pc # "idle" => caller'[d].on \in Users
BY DEF AccountInv, People!AccountTypeOK

(* A step that only moves a request.                                       *)
LEMMA CallerOnly ==
  ASSUME AccountInv, NEW c \in Callers,
         NEW w \in {"idle", "bootstrap", "create", "update", "login", "session"},
         NEW m \in Users \cup {None}, NEW u \in Users \cup {None}, w # "idle" => u \in Users,
         caller' = [caller EXCEPT ![c] = [pc |-> w, actor |-> m, on |-> u]],
         UNCHANGED <<user, openToken, sessions, administrators, made, before>>
  PROVE  AccountInv'
<1>1. /\ caller' \in [Callers -> [pc : {"idle", "bootstrap", "create", "update", "login", "session"},
                                  actor : Users \cup {None}, on : Users \cup {None}]]
      /\ \A d \in Callers : caller'[d].pc # "idle" => caller'[d].on \in Users
  BY CallerGoes
<1> QED
  BY <1>1 DEF AccountInv, People!AccountTypeOK, People!BootstrapOnce, People!AdministratorRemains,
     People!ActiveAdmins

LEMMA AccountAsks ==
  ASSUME AccountInv, NEW c \in Callers, NEW u \in Users,
         \/ People!AskBootstrap(c, u) \/ People!AskLogin(c, u)
         \/ \E s \in sessions : People!AskChange(c, s, u)
  PROVE  AccountInv'
<1>1. CASE People!AskBootstrap(c, u)
  BY <1>1, CallerOnly DEF People!AskBootstrap, People!Go, People!History
<1>2. CASE People!AskLogin(c, u)
  BY <1>2, CallerOnly DEF People!AskLogin, People!Go, People!History
<1>3. CASE \E s \in sessions : People!AskChange(c, s, u)
  <2>1. PICK s \in sessions : People!AskChange(c, s, u)
    BY <1>3
  <2>2. s[1] \in Users
    BY DEF AccountInv, People!AccountTypeOK
  <2>3. PICK w \in {"create", "update"} : People!Go(c, w, s[1], u)
    BY <2>1 DEF People!AskChange
  <2>4. UNCHANGED <<user, openToken, sessions, administrators, made, before>>
    BY <2>1 DEF People!AskChange, People!History
  <2> QED
    BY <2>2, <2>3, <2>4, CallerOnly DEF People!Go
<1> QED
  BY <1>1, <1>2, <1>3

LEMMA AccountReadRow ==
  ASSUME AccountInv, NEW c \in Callers, People!ReadRow(c) PROVE AccountInv'
<1>1. caller[c].on \in Users
  BY DEF AccountInv, People!ReadRow
<1>2. \/ caller' = [caller EXCEPT ![c] = [pc |-> "idle", actor |-> None, on |-> None]]
      \/ caller' = [caller EXCEPT ![c] = [pc |-> "session", actor |-> None, on |-> caller[c].on]]
  BY DEF People!ReadRow, People!Go, People!Done, People!Idle
<1>3. UNCHANGED <<user, openToken, sessions, administrators, made, before>>
  BY DEF People!ReadRow, People!History
<1> QED
  BY <1>1, <1>2, <1>3, CallerOnly

(* The first user is an administrator, and stays the only one made so.     *)
LEMMA AccountBootstrap ==
  ASSUME AccountInv, NEW c \in Callers, People!Bootstrap(c) PROVE AccountInv'
<1>1. caller[c].on \in Users
  BY DEF AccountInv, People!Bootstrap
<1>2. CASE People!NoUsers
  <2>1. administrators = 0
    <3>1. People!ActiveAdmins(user) = {}
      BY <1>2 DEF People!ActiveAdmins, People!NoUsers, People!NoUser
    <3> QED
      BY <3>1 DEF AccountInv, People!AdministratorRemains, People!AccountTypeOK
  <2>2. /\ user' = [user EXCEPT ![caller[c].on] = [role |-> "ADMIN", disabled |-> FALSE]]
        /\ administrators' = 1 /\ openToken' = FALSE
        /\ caller' = [caller EXCEPT ![c] = [pc |-> "session", actor |-> None, on |-> caller[c].on]]
        /\ UNCHANGED <<sessions, made, before>>
    BY <1>2, <2>1 DEF People!Bootstrap, People!Go
  <2>3. /\ caller' \in [Callers -> [pc : {"idle", "bootstrap", "create", "update", "login", "session"},
                                    actor : Users \cup {None}, on : Users \cup {None}]]
        /\ \A d \in Callers : caller'[d].pc # "idle" => caller'[d].on \in Users
    BY <1>1, <2>2, CallerGoes
  <2>4. user' \in [Users -> [role : {"none", "ADMIN", "DEPLOYER"}, disabled : BOOLEAN]]
    BY <2>2 DEF AccountInv, People!AccountTypeOK
  <2>5. People!AccountTypeOK'
    <3>1. openToken' \in BOOLEAN
      <4>1. openToken' = FALSE
        BY <2>2
      <4> QED
        BY <4>1, Zenon
    <3>2. administrators' \in 0 .. 2
      <4>1. administrators' = 1
        BY <2>2
      <4> QED
        BY <4>1
    <3>3. /\ sessions' \subseteq Users \X (1 .. MaxSessions)
          /\ made' \in [Users -> 0 .. MaxSessions] /\ before' \in [Users -> 0 .. MaxSessions]
      BY <2>2 DEF AccountInv, People!AccountTypeOK
    <3> QED
      BY <2>3, <2>4, <3>1, <3>2, <3>3 DEF People!AccountTypeOK
  <2>6. user'[caller[c].on] = [role |-> "ADMIN", disabled |-> FALSE]
    BY <1>1, <2>2 DEF AccountInv, People!AccountTypeOK
  <2>7. People!BootstrapOnce' /\ People!AdministratorRemains'
    BY <1>1, <2>2, <2>6 DEF People!BootstrapOnce, People!AdministratorRemains, People!ActiveAdmins
  <2> QED
    BY <2>2, <2>3, <2>5, <2>7 DEF AccountInv
<1>3. CASE ~People!NoUsers
  <2>1. caller' = [caller EXCEPT ![c] = [pc |-> "idle", actor |-> None, on |-> None]]
    BY <1>3 DEF People!Bootstrap, People!Done, People!Idle
  <2>2. UNCHANGED <<user, openToken, sessions, administrators, made, before>>
    BY <1>3 DEF People!Bootstrap
  <2> QED
    BY <2>1, <2>2, CallerOnly
<1> QED
  BY <1>2, <1>3

LEMMA AccountCreate ==
  ASSUME AccountInv, NEW c \in Callers, People!CreateManagedUser(c) PROVE AccountInv'
<1>1. /\ caller[c].on \in Users
      /\ caller' = [caller EXCEPT ![c] = [pc |-> "idle", actor |-> None, on |-> None]]
      /\ UNCHANGED <<openToken, sessions, administrators, made, before>>
  BY DEF AccountInv, People!CreateManagedUser, People!Done, People!Idle, People!History
<1>2. CASE user[caller[c].on] = People!NoUser
  <2>1. PICK role \in {"ADMIN", "DEPLOYER"} :
          user' = [user EXCEPT ![caller[c].on] = [role |-> role, disabled |-> FALSE]]
    BY <1>2 DEF People!CreateManagedUser
  <2>2. /\ caller' \in [Callers -> [pc : {"idle", "bootstrap", "create", "update", "login", "session"},
                                    actor : Users \cup {None}, on : Users \cup {None}]]
        /\ \A d \in Callers : caller'[d].pc # "idle" => caller'[d].on \in Users
    BY <1>1, CallerGoes
  <2>3. user' \in [Users -> [role : {"none", "ADMIN", "DEPLOYER"}, disabled : BOOLEAN]]
    BY <2>1 DEF AccountInv, People!AccountTypeOK
  <2>4. People!AccountTypeOK'
    BY <1>1, <2>2, <2>3 DEF AccountInv, People!AccountTypeOK
  <2>5. \A v \in Users : v # caller[c].on => user'[v] = user[v]
    BY <2>1 DEF AccountInv, People!AccountTypeOK
  <2>6. People!ActiveAdmins(user) \subseteq People!ActiveAdmins(user')
    BY <1>2, <2>5 DEF People!ActiveAdmins, People!NoUser
  <2>7. People!BootstrapOnce' /\ People!AdministratorRemains'
    BY <1>1, <2>6 DEF AccountInv, People!BootstrapOnce, People!AdministratorRemains
  <2> QED
    BY <1>1, <2>2, <2>4, <2>7 DEF AccountInv
<1>3. CASE user[caller[c].on] # People!NoUser
  <2>1. UNCHANGED user
    BY <1>3 DEF People!CreateManagedUser
  <2> QED
    BY <1>1, <2>1, CallerOnly
<1> QED
  BY <1>2, <1>3

(* One user gets a new role or is disabled, and then his sessions end; the *)
(* last active administrator stays one.                                    *)
LEMMA AccountUpdate ==
  ASSUME AccountInv, NEW c \in Callers, People!UpdateManagedUser(c) PROVE AccountInv'
<1>1. /\ caller[c].on \in Users
      /\ caller' = [caller EXCEPT ![c] = [pc |-> "idle", actor |-> None, on |-> None]]
      /\ UNCHANGED <<openToken, administrators, made>>
  BY DEF AccountInv, People!UpdateManagedUser, People!Done, People!Idle
<1>2. CASE UNCHANGED <<user, sessions, before>>
  BY <1>1, <1>2, CallerOnly
<1>3. ASSUME NEW role \in {"ADMIN", "DEPLOYER"}, NEW disabled \in BOOLEAN,
             People!LastAdminAllowed(caller[c].on, [role |-> role, disabled |-> disabled]),
             user' = [user EXCEPT ![caller[c].on] = [role |-> role, disabled |-> disabled]],
             People!SessionsRevoked(caller[c].on, [role |-> role, disabled |-> disabled]),
             before' = IF disabled /\ ~user[caller[c].on].disabled
                       THEN [before EXCEPT ![caller[c].on] = made[caller[c].on]] ELSE before
      PROVE  AccountInv'
  <2>1. PICK u \in Users : u = caller[c].on
    BY <1>1
  <2>2. /\ user' = [user EXCEPT ![u] = [role |-> role, disabled |-> disabled]]
        /\ u \in People!ActiveAdmins(user) /\ (role # "ADMIN" \/ disabled)
             => People!ActiveAdmins(user) \ {u} # {}
        /\ sessions' \subseteq sessions
        /\ \/ before' = before
           \/ /\ before' = [before EXCEPT ![u] = made[u]]
              /\ \A s \in sessions' : s[1] # u
    BY <1>3, <2>1 DEF People!LastAdminAllowed, People!SessionsRevoked
  <2>3. /\ caller' \in [Callers -> [pc : {"idle", "bootstrap", "create", "update", "login", "session"},
                                    actor : Users \cup {None}, on : Users \cup {None}]]
        /\ \A d \in Callers : caller'[d].pc # "idle" => caller'[d].on \in Users
    BY <1>1, CallerGoes
  <2>4. user' \in [Users -> [role : {"none", "ADMIN", "DEPLOYER"}, disabled : BOOLEAN]]
    BY <2>2 DEF AccountInv, People!AccountTypeOK
  <2>5. before' \in [Users -> 0 .. MaxSessions]
    BY <2>2 DEF AccountInv, People!AccountTypeOK
  <2>6. People!AccountTypeOK'
    BY <1>1, <2>2, <2>3, <2>4, <2>5 DEF AccountInv, People!AccountTypeOK
  <2>7. \A v \in Users : v # u => user'[v] = user[v]
    BY <2>2 DEF AccountInv, People!AccountTypeOK
  <2>8. user'[u] = [role |-> role, disabled |-> disabled]
    BY <2>2 DEF AccountInv, People!AccountTypeOK
  <2>9. People!ActiveAdmins(user) # {} => People!ActiveAdmins(user') # {}
    <3>1. CASE role # "ADMIN" \/ disabled
      BY <2>2, <2>7, <3>1 DEF People!ActiveAdmins
    <3>2. CASE role = "ADMIN" /\ ~disabled
      <4>1. disabled = FALSE
        BY <3>2
      <4>2. u \in People!ActiveAdmins(user')
        BY <2>8, <3>2, <4>1 DEF People!ActiveAdmins
      <4> QED
        BY <4>2
    <3> QED
      BY <3>1, <3>2
  <2>10. People!BootstrapOnce' /\ People!AdministratorRemains'
    BY <1>1, <2>9 DEF AccountInv, People!BootstrapOnce, People!AdministratorRemains
  <2>11. \A v \in Users : before'[v] <= made'[v]
    BY <1>1, <2>2 DEF AccountInv, People!AccountTypeOK
  <2>12. \A s \in sessions' : s[1] \in Users /\ before'[s[1]] = before[s[1]]
    BY <2>2 DEF AccountInv, People!AccountTypeOK
  <2>13. \A s \in sessions' : s[2] <= made'[s[1]] /\ s[2] > before'[s[1]]
    BY <1>1, <2>2, <2>12 DEF AccountInv
  <2> QED
    BY <2>3, <2>6, <2>10, <2>11, <2>13 DEF AccountInv
<1> QED
  BY <1>2, <1>3 DEF People!UpdateManagedUser

(* A session is made, whoever its user is by now: its number is new.       *)
LEMMA AccountSession ==
  ASSUME AccountInv, NEW c \in Callers, People!CreateSession(c) PROVE AccountInv'
<1>1. /\ caller[c].on \in Users
      /\ caller' = [caller EXCEPT ![c] = [pc |-> "idle", actor |-> None, on |-> None]]
      /\ UNCHANGED <<user, openToken, administrators, before>>
  BY DEF AccountInv, People!CreateSession, People!Done, People!Idle
<1>2. PICK u \in Users : u = caller[c].on
  BY <1>1
<1>3. CASE made[u] < MaxSessions
  <2>1. made' = [made EXCEPT ![u] = made[u] + 1] /\ sessions' = sessions \cup {<<u, made'[u]>>}
    BY <1>2, <1>3 DEF People!CreateSession, People!SessionMade
  <2>2. made[u] \in 0 .. MaxSessions /\ made[u] + 1 \in 1 .. MaxSessions
    BY <1>3, NumberAssumption DEF AccountInv, People!AccountTypeOK
  <2>3. /\ made' \in [Users -> 0 .. MaxSessions] /\ made'[u] = made[u] + 1
        /\ \A v \in Users : made'[v] >= made[v]
    BY <2>1, <2>2 DEF AccountInv, People!AccountTypeOK
  <2>4. sessions' \subseteq Users \X (1 .. MaxSessions)
    BY <2>1, <2>2, <2>3 DEF AccountInv, People!AccountTypeOK
  <2>5. /\ caller' \in [Callers -> [pc : {"idle", "bootstrap", "create", "update", "login", "session"},
                                    actor : Users \cup {None}, on : Users \cup {None}]]
        /\ \A d \in Callers : caller'[d].pc # "idle" => caller'[d].on \in Users
    BY <1>1, CallerGoes
  <2>6. People!AccountTypeOK'
    BY <1>1, <2>3, <2>4, <2>5 DEF AccountInv, People!AccountTypeOK
  <2>7. People!BootstrapOnce' /\ People!AdministratorRemains'
    BY <1>1 DEF AccountInv, People!BootstrapOnce, People!AdministratorRemains, People!ActiveAdmins
  <2>8. /\ before \in [Users -> 0 .. MaxSessions] /\ made \in [Users -> 0 .. MaxSessions]
        /\ sessions \subseteq Users \X (1 .. MaxSessions)
    BY DEF AccountInv, People!AccountTypeOK
  <2>9. \A v \in Users : before'[v] <= made'[v]
    BY <1>1, <2>3, <2>8 DEF AccountInv
  <2>10. ASSUME NEW s \in sessions' PROVE s[2] <= made'[s[1]] /\ s[2] > before'[s[1]]
    <3>1. CASE s \in sessions
      <4>1. s[1] \in Users /\ s[2] \in Nat
        BY <2>8, <3>1
      <4>2. s[2] <= made[s[1]] /\ s[2] > before[s[1]]
        BY <3>1 DEF AccountInv
      <4> QED
        BY <1>1, <2>3, <2>8, <4>1, <4>2
    <3>2. CASE s = <<u, made'[u]>>
      <4>1. s[1] = u /\ s[2] = made'[u]
        BY <3>2
      <4>2. before[u] <= made[u]
        BY DEF AccountInv
      <4> QED
        BY <1>1, <2>2, <2>3, <2>8, <4>1, <4>2
    <3> QED
      BY <2>1, <3>1, <3>2
  <2> QED
    BY <2>5, <2>6, <2>7, <2>9, <2>10 DEF AccountInv
<1>4. CASE ~(made[u] < MaxSessions)
  <2>1. UNCHANGED <<made, sessions>>
    BY <1>2, <1>4 DEF People!CreateSession, People!SessionMade
  <2> QED
    BY <1>1, <2>1, CallerOnly
<1> QED
  BY <1>3, <1>4

LEMMA AccountRevoke ==
  ASSUME AccountInv, NEW s \in sessions, People!Revoke(s) PROVE AccountInv'
<1>1. /\ sessions' \subseteq sessions
      /\ UNCHANGED <<user, openToken, administrators, made, before, caller>>
  BY DEF People!Revoke, People!History
<1> QED
  BY <1>1 DEF AccountInv, People!AccountTypeOK, People!BootstrapOnce, People!AdministratorRemains,
     People!ActiveAdmins

LEMMA AccountInvNext ==
  ASSUME AccountInv, People!AccountNext PROVE AccountInv'
<1>1. CASE \E c \in Callers, u \in Users :
             \/ People!AskBootstrap(c, u) \/ People!AskLogin(c, u)
             \/ \E s \in sessions : People!AskChange(c, s, u)
  BY <1>1, AccountAsks
<1>2. CASE \E c \in Callers : People!Bootstrap(c)
  BY <1>2, AccountBootstrap
<1>3. CASE \E c \in Callers : People!CreateManagedUser(c)
  BY <1>3, AccountCreate
<1>4. CASE \E c \in Callers : People!UpdateManagedUser(c)
  BY <1>4, AccountUpdate
<1>5. CASE \E c \in Callers : People!ReadRow(c)
  BY <1>5, AccountReadRow
<1>6. CASE \E c \in Callers : People!CreateSession(c)
  BY <1>6, AccountSession
<1>7. CASE \E s \in sessions : People!Revoke(s)
  BY <1>7, AccountRevoke
<1> QED
  BY <1>1, <1>2, <1>3, <1>4, <1>5, <1>6, <1>7 DEF People!AccountNext

LEMMA AccountInvRests ==
  ASSUME AccountInv, UNCHANGED accountVars PROVE AccountInv'
BY DEF AccountInv, accountVars, People!AccountTypeOK, People!BootstrapOnce, People!AdministratorRemains,
   People!ActiveAdmins

LEMMA AccountInvHolds ==
  AccountInv => /\ People!AccountTypeOK /\ People!BootstrapOnce
                /\ People!AdministratorRemains /\ People!DisabledEndsSessions
BY DEF AccountInv, People!DisabledEndsSessions

-----------------------------------------------------------------------------
(* The local password.  The first digest, of the old kind, is never stored *)
(* again once it is replaced: while it is stored every server up has its   *)
(* password, and only such a server brings it up to date.                  *)
DigestFits(r) ==
  /\ r.pc # "idle" => r.at \in Servers /\ configured[r.at].up
  /\ r.pc = "read" /\ r.digest.number = Access!Old => r.digest.of = configured[r.at].password
  /\ r.pc = "update" => r.digest.number = Access!Old
  /\ r.pc \in {"update", "adopt"} => r.password = configured[r.at].password
  /\ r.pc \in {"update", "adopt", "create"} => r.digest.of = r.password

ServerFits(p) ==
  /\ own[p].of = configured[p].password
  /\ starting[p].on => ~configured[p].up
  /\ stored.number = Access!Old =>
       /\ configured[p].up => configured[p].password = stored.of
       /\ starting[p].on => starting[p].seen = stored

PasswordInv ==
  /\ Access!AccessTypeOK
  /\ Access!SessionsKnowPassword /\ Access!StoredAsStarted
  /\ \A p \in Servers : ServerFits(p)
  /\ \A l \in Visits : DigestFits(login[l])

LEMMA PasswordInvInit == Access!AccessInit => PasswordInv
<1> SUFFICES ASSUME Access!AccessInit PROVE PasswordInv
  OBVIOUS
<1> USE NumberAssumption DEF Access!AccessInit, Access!NoDigest, Access!Old, Access!Keys, Access!Digests,
        Access!Down, Access!Idle, Access!NotStarting
<1>1. Access!AccessTypeOK
  <2>1. stored \in Access!Digests /\ stored.of \in Access!Keys
    OBVIOUS
  <2> QED
    BY <2>1 DEF Access!AccessTypeOK
<1>2. Access!SessionsKnowPassword /\ Access!StoredAsStarted
  BY DEF Access!SessionsKnowPassword, Access!StoredAsStarted
<1>3. \A p \in Servers : ServerFits(p)
  BY DEF ServerFits
<1>4. \A l \in Visits : DigestFits(login[l])
  BY DEF DigestFits
<1> QED
  BY <1>1, <1>2, <1>3, <1>4 DEF PasswordInv

(* A login goes on while nothing else changes.                             *)
LEMMA VisitGoes ==
  ASSUME PasswordInv, NEW l \in Visits, NEW r,
         r \in [pc : {"idle", "read", "update", "adopt", "create", "refused"},
                at : Servers \cup {None}, password : Access!Keys, digest : Access!Digests],
         DigestFits(r), login' = [login EXCEPT ![l] = r],
         UNCHANGED <<stored, configured, own, starting, digests, set>>,
         live' \subseteq live \cup {stored.of}
  PROVE  PasswordInv'
<1>1. Access!AccessTypeOK'
  <2>1. login' \in [Visits -> [pc : {"idle", "read", "update", "adopt", "create", "refused"},
                               at : Servers \cup {None}, password : Access!Keys, digest : Access!Digests]]
    BY DEF PasswordInv, Access!AccessTypeOK
  <2>2. stored.of \in Access!Keys
    BY DEF PasswordInv, Access!AccessTypeOK, Access!Digests, Access!Keys, Access!NoDigest
  <2>3. live' \subseteq Access!Keys
    BY <2>2 DEF PasswordInv, Access!AccessTypeOK
  <2> QED
    BY <2>1, <2>3 DEF PasswordInv, Access!AccessTypeOK
<1>2. Access!SessionsKnowPassword' /\ Access!StoredAsStarted'
  BY DEF PasswordInv, Access!SessionsKnowPassword, Access!StoredAsStarted
<1>3. \A p \in Servers : ServerFits(p)'
  BY DEF PasswordInv, ServerFits
<1>4. \A m \in Visits : DigestFits(login'[m])
  BY DEF PasswordInv, Access!AccessTypeOK
<1>5. \A m \in Visits : DigestFits(login[m])'
  BY <1>4 DEF DigestFits
<1> QED
  BY <1>1, <1>2, <1>3, <1>5 DEF PasswordInv

LEMMA VisitType ==
  ASSUME PasswordInv, NEW l \in Visits
  PROVE  /\ login[l] \in [pc : {"idle", "read", "update", "adopt", "create", "refused"},
                          at : Servers \cup {None}, password : Access!Keys, digest : Access!Digests]
         /\ DigestFits(login[l])
         /\ Access!Idle \in [pc : {"idle", "read", "update", "adopt", "create", "refused"},
                             at : Servers \cup {None}, password : Access!Keys, digest : Access!Digests]
         /\ DigestFits(Access!Idle)
BY DEF PasswordInv, Access!AccessTypeOK, Access!Idle, DigestFits, Access!Keys, Access!Digests

LEMMA PasswordAsk ==
  ASSUME PasswordInv, NEW l \in Visits, NEW p \in Servers, NEW k \in Passwords, Access!AskLogin(l, p, k)
  PROVE  PasswordInv'
<1> DEFINE r == [pc |-> "read", at |-> p, password |-> k, digest |-> stored]
<1>1. r \in [pc : {"idle", "read", "update", "adopt", "create", "refused"},
             at : Servers \cup {None}, password : Access!Keys, digest : Access!Digests]
  BY DEF PasswordInv, Access!AccessTypeOK, Access!Keys
<1>2. ServerFits(p) /\ configured[p].up
  BY DEF PasswordInv, Access!AskLogin
<1>3. DigestFits(r)
  BY <1>2 DEF ServerFits, DigestFits
<1>4. /\ login' = [login EXCEPT ![l] = r]
      /\ UNCHANGED <<stored, configured, own, starting, digests, set, live>>
  BY DEF Access!AskLogin, Access!Go
<1> HIDE DEF r
<1> QED
  BY <1>1, <1>3, <1>4, VisitGoes

LEMMA PasswordVerify ==
  ASSUME PasswordInv, NEW l \in Visits, Access!Verify(l)
  PROVE  PasswordInv'
<1>1. PICK m : m = login[l]
  OBVIOUS
<1>2. /\ m \in [pc : {"idle", "read", "update", "adopt", "create", "refused"},
                at : Servers \cup {None}, password : Access!Keys, digest : Access!Digests]
      /\ DigestFits(m)
  BY <1>1, VisitType
<1>3. /\ m.pc = "read" /\ UNCHANGED <<stored, configured, own, starting, digests, set, live>>
      /\ login' = [login EXCEPT ![l] =
                     IF m.digest.of # m.password THEN [m EXCEPT !.pc = "refused"]
                     ELSE IF m.digest.number = Access!Old THEN [m EXCEPT !.pc = "update"]
                     ELSE [m EXCEPT !.pc = "create"]]
  BY <1>1, Zenon DEF Access!Verify, Access!Go
<1>4. CASE m.digest.of # m.password
  <2> DEFINE r == [m EXCEPT !.pc = "refused"]
  <2>1. r \in [pc : {"idle", "read", "update", "adopt", "create", "refused"},
               at : Servers \cup {None}, password : Access!Keys, digest : Access!Digests]
    BY <1>2
  <2>2. DigestFits(r)
    BY <1>2, <1>3 DEF DigestFits
  <2>3. login' = [login EXCEPT ![l] = r]
    BY <1>3, <1>4
  <2> HIDE DEF r
  <2> QED
    BY <1>3, <2>1, <2>2, <2>3, VisitGoes
<1>5. CASE m.digest.of = m.password /\ m.digest.number = Access!Old
  <2> DEFINE r == [m EXCEPT !.pc = "update"]
  <2>1. r \in [pc : {"idle", "read", "update", "adopt", "create", "refused"},
               at : Servers \cup {None}, password : Access!Keys, digest : Access!Digests]
    BY <1>2
  <2>2. DigestFits(r)
    BY <1>2, <1>3, <1>5 DEF DigestFits
  <2>3. login' = [login EXCEPT ![l] = r]
    BY <1>3, <1>5
  <2> HIDE DEF r
  <2> QED
    BY <1>3, <2>1, <2>2, <2>3, VisitGoes
<1>6. CASE m.digest.of = m.password /\ m.digest.number # Access!Old
  <2> DEFINE r == [m EXCEPT !.pc = "create"]
  <2>1. r \in [pc : {"idle", "read", "update", "adopt", "create", "refused"},
               at : Servers \cup {None}, password : Access!Keys, digest : Access!Digests]
    BY <1>2
  <2>2. DigestFits(r)
    BY <1>2, <1>3, <1>6 DEF DigestFits
  <2>3. login' = [login EXCEPT ![l] = r]
    BY <1>3, <1>6
  <2> HIDE DEF r
  <2> QED
    BY <1>3, <2>1, <2>2, <2>3, VisitGoes
<1> QED
  BY <1>4, <1>5, <1>6

(* A digest brought up to date is of the password the old one was of.      *)
LEMMA PasswordUpdate ==
  ASSUME PasswordInv, NEW l \in Visits, Access!UpdateDigest(l)
  PROVE  PasswordInv'
<1>1. PICK m : m = login[l]
  OBVIOUS
<1>2. /\ m \in [pc : {"idle", "read", "update", "adopt", "create", "refused"},
                at : Servers \cup {None}, password : Access!Keys, digest : Access!Digests]
      /\ DigestFits(m)
  BY <1>1, VisitType
<1> DEFINE new == [of |-> m.password, number |-> digests + 1]
           r   == [m EXCEPT !.pc = "adopt", !.digest = new]
<1>3. /\ m.pc = "update" /\ digests < MaxDigest /\ digests' = digests + 1
      /\ stored' = IF stored = m.digest THEN new ELSE stored
      /\ login' = [login EXCEPT ![l] = r]
      /\ UNCHANGED <<configured, own, starting, set, live>>
  BY <1>1 DEF Access!UpdateDigest, Access!Go, Access!Hash, Access!StoredFor
<1>4. /\ m.digest.number = Access!Old /\ m.digest.of = m.password
      /\ m.password = configured[m.at].password /\ m.at \in Servers /\ configured[m.at].up
  BY <1>2, <1>3 DEF DigestFits
<1>5. digests + 1 \in 1 .. MaxDigest /\ digests + 1 # Access!Old
  BY <1>3, NumberAssumption DEF PasswordInv, Access!AccessTypeOK, Access!Old
<1>6. m.password \in Passwords
  BY <1>2, <1>4 DEF Access!Digests, Access!NoDigest, Access!Old
<1>7. new \in Access!Digests
  BY <1>5, <1>6 DEF Access!Digests
<1>8. /\ new.of = m.password /\ new.number # Access!Old
      /\ stored' \in Access!Digests /\ stored'.of = stored.of
      /\ stored'.number = Access!Old => stored' = stored
  BY <1>3, <1>4, <1>5, <1>7 DEF PasswordInv, Access!AccessTypeOK
<1> HIDE DEF new
<1>9. r \in [pc : {"idle", "read", "update", "adopt", "create", "refused"},
             at : Servers \cup {None}, password : Access!Keys, digest : Access!Digests]
  BY <1>2, <1>7
<1>10. DigestFits(r)
  BY <1>2, <1>4, <1>8 DEF DigestFits
<1> HIDE DEF r
<1>11. Access!AccessTypeOK'
  <2>1. login' \in [Visits -> [pc : {"idle", "read", "update", "adopt", "create", "refused"},
                               at : Servers \cup {None}, password : Access!Keys, digest : Access!Digests]]
    BY <1>3, <1>9 DEF PasswordInv, Access!AccessTypeOK
  <2> QED
    BY <1>3, <1>5, <1>8, <2>1 DEF PasswordInv, Access!AccessTypeOK
<1>12. Access!SessionsKnowPassword' /\ Access!StoredAsStarted'
  BY <1>3, <1>8 DEF PasswordInv, Access!SessionsKnowPassword, Access!StoredAsStarted
<1>13. \A p \in Servers : ServerFits(p)'
  BY <1>3, <1>8 DEF PasswordInv, ServerFits
<1>14. \A v \in Visits : DigestFits(login'[v])
  BY <1>3, <1>10 DEF PasswordInv, Access!AccessTypeOK
<1>15. \A v \in Visits : DigestFits(login[v])'
  BY <1>3, <1>14 DEF DigestFits
<1> QED
  BY <1>11, <1>12, <1>13, <1>15 DEF PasswordInv

LEMMA PasswordAdopt ==
  ASSUME PasswordInv, NEW l \in Visits, Access!Adopt(l)
  PROVE  PasswordInv'
<1>1. PICK m : m = login[l]
  OBVIOUS
<1>2. /\ m \in [pc : {"idle", "read", "update", "adopt", "create", "refused"},
                at : Servers \cup {None}, password : Access!Keys, digest : Access!Digests]
      /\ DigestFits(m)
  BY <1>1, VisitType
<1> DEFINE r == [m EXCEPT !.pc = "create"]
<1>3. /\ m.pc = "adopt" /\ own' = [own EXCEPT ![m.at] = m.digest]
      /\ login' = [login EXCEPT ![l] = r]
      /\ UNCHANGED <<stored, configured, starting, digests, set, live>>
  BY <1>1 DEF Access!Adopt, Access!Go
<1>4. /\ m.digest.of = m.password /\ m.at \in Servers
      /\ m.password = configured[m.at].password
  BY <1>2, <1>3 DEF DigestFits
<1>5. r \in [pc : {"idle", "read", "update", "adopt", "create", "refused"},
             at : Servers \cup {None}, password : Access!Keys, digest : Access!Digests]
  BY <1>2
<1>6. DigestFits(r)
  BY <1>2, <1>3, <1>4 DEF DigestFits
<1> HIDE DEF r
<1>7. Access!AccessTypeOK'
  <2>1. login' \in [Visits -> [pc : {"idle", "read", "update", "adopt", "create", "refused"},
                               at : Servers \cup {None}, password : Access!Keys, digest : Access!Digests]]
    BY <1>3, <1>5 DEF PasswordInv, Access!AccessTypeOK
  <2>2. own' \in [Servers -> Access!Digests]
    BY <1>2, <1>3 DEF PasswordInv, Access!AccessTypeOK
  <2> QED
    BY <1>3, <2>1, <2>2 DEF PasswordInv, Access!AccessTypeOK
<1>8. Access!SessionsKnowPassword' /\ Access!StoredAsStarted'
  BY <1>3 DEF PasswordInv, Access!SessionsKnowPassword, Access!StoredAsStarted
<1>9. \A p \in Servers : own'[p].of = configured[p].password
  BY <1>3, <1>4 DEF PasswordInv, ServerFits, Access!AccessTypeOK
<1>10. \A p \in Servers : ServerFits(p)'
  BY <1>3, <1>9 DEF PasswordInv, ServerFits
<1>11. \A v \in Visits : DigestFits(login'[v])
  BY <1>3, <1>6 DEF PasswordInv, Access!AccessTypeOK
<1>12. \A v \in Visits : DigestFits(login[v])'
  BY <1>3, <1>11 DEF DigestFits
<1> QED
  BY <1>7, <1>8, <1>10, <1>12 DEF PasswordInv

LEMMA PasswordCreate ==
  ASSUME PasswordInv, NEW l \in Visits, Access!CreateSession(l)
  PROVE  PasswordInv'
<1>1. PICK m : m = login[l]
  OBVIOUS
<1>2. /\ m \in [pc : {"idle", "read", "update", "adopt", "create", "refused"},
                at : Servers \cup {None}, password : Access!Keys, digest : Access!Digests]
      /\ DigestFits(m)
  BY <1>1, VisitType
<1>3. m.pc = "create" /\ UNCHANGED <<stored, configured, own, starting, digests, set>>
  BY <1>1 DEF Access!CreateSession
<1>4. CASE Access!MayCreate(m.at, m.digest)
  <2>1. stored.of = m.password
    BY <1>2, <1>3, <1>4 DEF DigestFits, Access!MayCreate
  <2>2. live' = live \cup {m.password} /\ login' = [login EXCEPT ![l] = Access!Idle]
    BY <1>1, <1>4 DEF Access!CreateSession, Access!Go
  <2> QED
    BY <1>3, <2>1, <2>2, VisitGoes, VisitType
<1>5. CASE ~Access!MayCreate(m.at, m.digest)
  <2> DEFINE r == [m EXCEPT !.pc = "refused"]
  <2>1. r \in [pc : {"idle", "read", "update", "adopt", "create", "refused"},
               at : Servers \cup {None}, password : Access!Keys, digest : Access!Digests]
    BY <1>2
  <2>2. DigestFits(r)
    BY <1>2, <1>3 DEF DigestFits
  <2>3. login' = [login EXCEPT ![l] = r] /\ live' = live
    BY <1>1, <1>5 DEF Access!CreateSession, Access!Go
  <2> HIDE DEF r
  <2> QED
    BY <1>3, <2>1, <2>2, <2>3, VisitGoes
<1> QED
  BY <1>4, <1>5

LEMMA PasswordAgain ==
  ASSUME PasswordInv, NEW l \in Visits, Access!AskAgain(l)
  PROVE  PasswordInv'
<1>1. /\ login' = [login EXCEPT ![l] = Access!Idle]
      /\ UNCHANGED <<stored, configured, own, starting, digests, set, live>>
  BY DEF Access!AskAgain, Access!Go
<1> QED
  BY <1>1, VisitGoes, VisitType

LEMMA PasswordAutomatic ==
  ASSUME PasswordInv, NEW p \in Servers, Access!AutomaticSession(p)
  PROVE  PasswordInv'
<1>1. stored.of = None /\ live' = live \cup {None}
  BY DEF Access!AutomaticSession, Access!MayCreate, Access!NoDigest
<1>2. UNCHANGED <<stored, configured, own, starting, digests, set, login>>
  BY DEF Access!AutomaticSession
<1>3. Access!AccessTypeOK'
  BY <1>1, <1>2 DEF PasswordInv, Access!AccessTypeOK, Access!Keys
<1>4. Access!SessionsKnowPassword' /\ Access!StoredAsStarted'
  BY <1>1, <1>2 DEF PasswordInv, Access!SessionsKnowPassword, Access!StoredAsStarted
<1>5. /\ \A q \in Servers : ServerFits(q)'
      /\ \A l \in Visits : DigestFits(login[l])'
  BY <1>2 DEF PasswordInv, ServerFits, DigestFits
<1> QED
  BY <1>3, <1>4, <1>5 DEF PasswordInv

LEMMA PasswordStart ==
  ASSUME PasswordInv, NEW p \in Servers, NEW k \in Access!Keys, Access!StartServer(p, k)
  PROVE  PasswordInv'
<1> DEFINE r == [on |-> TRUE, password |-> k, seen |-> stored]
<1>1. /\ ~configured[p].up /\ starting' = [starting EXCEPT ![p] = r]
      /\ UNCHANGED <<stored, configured, own, digests, set, live, login>>
  BY DEF Access!StartServer
<1>2. r \in [on : BOOLEAN, password : Access!Keys, seen : Access!Digests] /\ r.seen = stored
  BY DEF PasswordInv, Access!AccessTypeOK
<1> HIDE DEF r
<1>3. Access!AccessTypeOK'
  BY <1>1, <1>2 DEF PasswordInv, Access!AccessTypeOK
<1>4. Access!SessionsKnowPassword' /\ Access!StoredAsStarted'
  BY <1>1 DEF PasswordInv, Access!SessionsKnowPassword, Access!StoredAsStarted
<1>5. starting'[p] = r /\ \A q \in Servers : q # p => starting'[q] = starting[q]
  BY <1>1 DEF PasswordInv, Access!AccessTypeOK
<1>6. \A q \in Servers : ServerFits(q)'
  BY <1>1, <1>2, <1>5 DEF PasswordInv, ServerFits
<1>7. \A l \in Visits : DigestFits(login[l])'
  BY <1>1 DEF PasswordInv, DigestFits
<1> QED
  BY <1>3, <1>4, <1>6, <1>7 DEF PasswordInv

LEMMA PasswordStop ==
  ASSUME PasswordInv, NEW p \in Servers, Access!Stop(p)
  PROVE  PasswordInv'
<1>1. /\ configured' = [configured EXCEPT ![p] = Access!Down]
      /\ own' = [own EXCEPT ![p] = Access!NoDigest]
      /\ login' = [l \in Visits |-> IF login[l].at = p THEN Access!Idle ELSE login[l]]
      /\ UNCHANGED <<stored, starting, digests, set, live>>
  BY DEF Access!Stop
<1>2. /\ Access!Down \in [up : BOOLEAN, password : Access!Keys] /\ Access!Down.up = FALSE
      /\ Access!NoDigest \in Access!Digests /\ Access!NoDigest.of = Access!Down.password
  BY DEF Access!Down, Access!NoDigest, Access!Digests, Access!Keys
<1>3. /\ configured' \in [Servers -> [up : BOOLEAN, password : Access!Keys]]
      /\ own' \in [Servers -> Access!Digests]
      /\ configured'[p] = Access!Down /\ own'[p] = Access!NoDigest
      /\ \A q \in Servers : q # p => configured'[q] = configured[q] /\ own'[q] = own[q]
  BY <1>1, <1>2 DEF PasswordInv, Access!AccessTypeOK
<1>4. login' \in [Visits -> [pc : {"idle", "read", "update", "adopt", "create", "refused"},
                             at : Servers \cup {None}, password : Access!Keys, digest : Access!Digests]]
  BY <1>1, VisitType
<1>5. Access!AccessTypeOK'
  BY <1>1, <1>3, <1>4 DEF PasswordInv, Access!AccessTypeOK
<1>6. Access!SessionsKnowPassword' /\ Access!StoredAsStarted'
  BY <1>1 DEF PasswordInv, Access!SessionsKnowPassword, Access!StoredAsStarted
<1>7. \A q \in Servers : ServerFits(q)'
  BY <1>1, <1>2, <1>3 DEF PasswordInv, ServerFits
<1>8. ASSUME NEW l \in Visits PROVE DigestFits(login[l])'
  <2>1. CASE login[l].at = p
    BY <1>1, <2>1 DEF DigestFits, Access!Idle
  <2>2. CASE login[l].at # p
    <3>1. login'[l] = login[l]
      BY <1>1, <2>2
    <3> QED
      BY <1>3, <2>2, <3>1 DEF PasswordInv, DigestFits
  <2> QED
    BY <2>1, <2>2
<1> QED
  BY <1>5, <1>6, <1>7, <1>8 DEF PasswordInv

(* Another password is stored with a digest that is not the old one, and   *)
(* no session is left of what was before.                                  *)
LEMMA PasswordConfigure ==
  ASSUME PasswordInv, NEW p \in Servers, Access!Configure(p)
  PROVE  PasswordInv'
<1>1. PICK k, seen : k = starting[p].password /\ seen = starting[p].seen
  OBVIOUS
<1>2. k \in Access!Keys /\ seen \in Access!Digests
  BY <1>1 DEF PasswordInv, Access!AccessTypeOK
<1> DEFINE digest == IF k = None THEN Access!NoDigest ELSE [of |-> k, number |-> digests + 1]
           up == [up |-> TRUE, password |-> k]
<1>3. /\ starting[p].on /\ starting' = [starting EXCEPT ![p] = Access!NotStarting]
      /\ configured' = [configured EXCEPT ![p] = up]
      /\ own' = [own EXCEPT ![p] = IF seen.of = k THEN seen ELSE digest]
      /\ UNCHANGED login
  BY <1>1 DEF Access!Configure, Access!Hash
<1>4. \/ seen.of = k /\ UNCHANGED <<stored, digests, set, live>>
      \/ /\ seen.of # k /\ digests < MaxDigest
         /\ digests' = IF k = None THEN digests ELSE digests + 1
         /\ stored' = digest /\ set' = k /\ live' = {}
  BY <1>1 DEF Access!Configure, Access!Hash, Access!SessionsRevoked
<1>5. /\ digest.of = k /\ digest.number # Access!Old
      /\ digests < MaxDigest => digest \in Access!Digests
  BY <1>2, NumberAssumption
     DEF PasswordInv, Access!AccessTypeOK, Access!NoDigest, Access!Old, Access!Digests, Access!Keys
<1>6. up \in [up : BOOLEAN, password : Access!Keys] /\ up.password = k
  BY <1>2
<1> HIDE DEF digest, up
<1>7. Access!NotStarting \in [on : BOOLEAN, password : Access!Keys, seen : Access!Digests]
      /\ Access!NotStarting.on = FALSE
  BY DEF Access!NotStarting, Access!Keys, Access!Digests
<1>8. /\ configured' \in [Servers -> [up : BOOLEAN, password : Access!Keys]]
      /\ starting' \in [Servers -> [on : BOOLEAN, password : Access!Keys, seen : Access!Digests]]
      /\ configured'[p] = up /\ starting'[p] = Access!NotStarting
      /\ \A q \in Servers : q # p => configured'[q] = configured[q] /\ starting'[q] = starting[q]
  BY <1>3, <1>6, <1>7 DEF PasswordInv, Access!AccessTypeOK
<1>9. own' \in [Servers -> Access!Digests] /\ own'[p].of = k
      /\ \A q \in Servers : q # p => own'[q] = own[q]
  BY <1>2, <1>3, <1>4, <1>5 DEF PasswordInv, Access!AccessTypeOK
<1>10. digests' \in 1 .. MaxDigest /\ set' \in Access!Keys /\ live' \subseteq Access!Keys
  BY <1>2, <1>4, NumberAssumption DEF PasswordInv, Access!AccessTypeOK
<1>11. stored' \in Access!Digests
  BY <1>4, <1>5 DEF PasswordInv, Access!AccessTypeOK
<1>12. Access!AccessTypeOK'
  BY <1>3, <1>8, <1>9, <1>10, <1>11 DEF PasswordInv, Access!AccessTypeOK
<1>13. Access!SessionsKnowPassword' /\ Access!StoredAsStarted'
  BY <1>4, <1>5 DEF PasswordInv, Access!SessionsKnowPassword, Access!StoredAsStarted
<1>14. stored'.number = Access!Old => stored' = stored /\ seen.of = k
  BY <1>4, <1>5
<1>15. ~configured[p].up
  BY <1>3 DEF PasswordInv, ServerFits
<1>16. stored'.number = Access!Old => k = stored'.of
  BY <1>1, <1>3, <1>14 DEF PasswordInv, ServerFits
<1>17. ServerFits(p)'
  BY <1>6, <1>7, <1>8, <1>9, <1>16 DEF ServerFits
<1>18. \A q \in Servers : q # p => ServerFits(q)'
  BY <1>8, <1>9, <1>14 DEF PasswordInv, ServerFits
<1>19. ASSUME NEW l \in Visits PROVE DigestFits(login[l])'
  <2>1. login[l].pc # "idle" => login[l].at # p
    BY <1>15 DEF PasswordInv, DigestFits
  <2> QED
    BY <1>3, <1>8, <2>1 DEF PasswordInv, DigestFits
<1> QED
  BY <1>12, <1>13, <1>17, <1>18, <1>19 DEF PasswordInv

LEMMA PasswordInvNext ==
  ASSUME PasswordInv, Access!AccessNext PROVE PasswordInv'
<1>1. CASE \E p \in Servers : Access!Configure(p)
  BY <1>1, PasswordConfigure
<1>2. CASE \E p \in Servers : Access!Stop(p)
  BY <1>2, PasswordStop
<1>3. CASE \E p \in Servers : Access!AutomaticSession(p)
  BY <1>3, PasswordAutomatic
<1>4. CASE \E p \in Servers, k \in Access!Keys : Access!StartServer(p, k)
  BY <1>4, PasswordStart
<1>5. CASE \E p \in Servers, l \in Visits, k \in Passwords : Access!AskLogin(l, p, k)
  BY <1>5, PasswordAsk
<1>6. CASE \E l \in Visits : Access!Verify(l)
  BY <1>6, PasswordVerify
<1>7. CASE \E l \in Visits : Access!UpdateDigest(l)
  BY <1>7, PasswordUpdate
<1>8. CASE \E l \in Visits : Access!Adopt(l)
  BY <1>8, PasswordAdopt
<1>9. CASE \E l \in Visits : Access!CreateSession(l)
  BY <1>9, PasswordCreate
<1>10. CASE \E l \in Visits : Access!AskAgain(l)
  BY <1>10, PasswordAgain
<1> QED
  BY <1>1, <1>2, <1>3, <1>4, <1>5, <1>6, <1>7, <1>8, <1>9, <1>10 DEF Access!AccessNext

LEMMA PasswordInvRests ==
  ASSUME PasswordInv, UNCHANGED accessVars PROVE PasswordInv'
BY DEF PasswordInv, accessVars, Access!AccessTypeOK, Access!SessionsKnowPassword, Access!StoredAsStarted,
   ServerFits, DigestFits

LEMMA PasswordInvHolds ==
  PasswordInv => /\ Access!AccessTypeOK /\ Access!SessionsKnowPassword
                 /\ Access!StoredAsStarted /\ Access!OwnPasswordOnly
BY DEF PasswordInv, ServerFits, Access!SessionsKnowPassword, Access!OwnPasswordOnly, Access!Accepts

-----------------------------------------------------------------------------
(* The list of orgs.  What is kept, what others may join, and what one     *)
(* waits for who asked in this epoch, is good to keep: it is current, but  *)
(* for a change whose route will drop it, and no older than any answer.    *)
Good(v) ==
  /\ v >= answered
  /\ v >= version \/ \E w \in dropping \cup {foreign} : w > v

AskingRecords ==
  [pc : {"idle", "asked", "lookup", "wait", "over"}, refresh : BOOLEAN,
   since : Orgs!Versions, fingerprint : Orgs!Versions, epoch : Nat,
   joined : Callers \cup {None}, answer : Orgs!Versions \cup {None}]

AskingFits(r) ==
  /\ r.since <= answered /\ r.epoch <= epoch
  /\ r.pc # "over" => r.answer = None
  /\ r.pc = "over" /\ r.answer # None => r.answer >= r.since
  /\ r.pc = "wait" => r.joined \in Callers
  /\ r.pc = "wait" /\ load[r.joined].state = "done" =>
       /\ load[r.joined].value >= r.since
       /\ r.epoch = epoch => Good(load[r.joined].value)

OrgInv ==
  /\ Orgs!OrgTypeOK
  /\ answered <= version /\ foreign <= version /\ \A v \in dropping : v <= version
  /\ cache # None => Good(cache.value)
  /\ pending # None /\ load[pending].state = "done" => Good(load[pending].value)
  /\ \A c \in Callers : AskingFits(asking[c])

LEMMA OrgTypes ==
  ASSUME OrgInv
  PROVE  /\ version \in Nat /\ answered \in Nat /\ foreign \in Nat /\ epoch \in Nat
         /\ version \in Orgs!Versions /\ answered \in Orgs!Versions /\ foreign \in Orgs!Versions
         /\ \A v \in dropping : v \in Nat /\ v \in Orgs!Versions
         /\ cache # None => cache.value \in Nat
         /\ \A c \in Callers : load[c].value \in Nat
         /\ \A c \in Callers : asking[c] \in AskingRecords
         /\ \A v \in Orgs!Versions : v \in Nat
<1>1. \A v \in Orgs!Versions : v \in Nat
  BY DEF Orgs!Versions
<1>2. /\ version \in Orgs!Versions /\ answered \in Orgs!Versions /\ foreign \in Orgs!Versions
      /\ epoch \in Nat /\ \A v \in dropping : v \in Orgs!Versions
      /\ cache # None => cache.value \in Orgs!Versions
      /\ \A c \in Callers : load[c].value \in Orgs!Versions
      /\ \A c \in Callers : asking[c] \in AskingRecords
  BY DEF OrgInv, Orgs!OrgTypeOK, AskingRecords
<1> QED
  BY <1>1, <1>2

LEMMA OrgInvInit == Orgs!OrgInit => OrgInv
<1> SUFFICES ASSUME Orgs!OrgInit PROVE OrgInv
  OBVIOUS
<1> USE DEF Orgs!OrgInit, Orgs!NoLoad, Orgs!Fresh
<1>0. 0 \in Orgs!Versions
  BY NumberAssumption DEF Orgs!Versions
<1>1. Orgs!OrgTypeOK
  BY <1>0 DEF Orgs!OrgTypeOK
<1>2. \A c \in Callers : AskingFits(asking[c])
  BY DEF AskingFits
<1>3. /\ answered <= version /\ foreign <= version /\ \A v \in dropping : v <= version
      /\ cache = None /\ pending = None
  OBVIOUS
<1> QED
  BY ONLY <1>1, <1>2, <1>3 DEF OrgInv

(* A change makes nothing worse: its route will drop what it makes old, or *)
(* nobody will.                                                            *)
LEMMA GoodStays ==
  ASSUME OrgInv, version' = version + 1, answered' = answered, NEW v \in Nat, Good(v),
         \/ dropping' = dropping \cup {version'} /\ foreign' = foreign
         \/ dropping' = dropping /\ foreign' = version'
  PROVE  Good(v)'
<1>1. /\ version \in Nat /\ answered \in Nat /\ foreign \in Nat /\ foreign <= version
      /\ \A w \in dropping : w \in Nat
  BY OrgTypes DEF OrgInv
<1>2. CASE v >= version
  <2>1. version' \in dropping' \cup {foreign'}
    OBVIOUS
  <2> QED
    BY <1>1, <1>2, <2>1 DEF Good
<1>3. CASE \E w \in dropping : w > v
  BY <1>1, <1>3 DEF Good
<1>4. CASE foreign > v
  <2>1. foreign' \in Nat /\ foreign' >= foreign
    BY <1>1
  <2> QED
    BY <1>1, <1>4, <2>1 DEF Good
<1> QED
  BY <1>2, <1>3, <1>4 DEF Good

LEMMA OrgChanges ==
  ASSUME OrgInv, version < MaxVersion, version' = version + 1,
         UNCHANGED <<answered, cache, epoch, pending, load, asking>>,
         \/ dropping' = dropping \cup {version'} /\ foreign' = foreign
         \/ dropping' = dropping /\ foreign' = version'
  PROVE  OrgInv'
<1>1. version' \in Orgs!Versions
  BY OrgTypes, NumberAssumption DEF Orgs!Versions
<1>2. Orgs!OrgTypeOK'
  BY <1>1 DEF OrgInv, Orgs!OrgTypeOK
<1>3. answered' <= version' /\ foreign' <= version' /\ \A v \in dropping' : v <= version'
  BY OrgTypes DEF OrgInv
<1>4. \A v \in Nat : Good(v) => Good(v)'
  BY GoodStays
<1>5. cache' # None => Good(cache.value)'
  <2>1. cache # None => cache.value \in Nat /\ Good(cache.value)
    BY OrgTypes DEF OrgInv
  <2>2. PICK v : v = cache.value
    OBVIOUS
  <2>3. cache' # None => Good(v)'
    BY <1>4, <2>1, <2>2
  <2> QED
    BY <2>2, <2>3 DEF Good
<1>6. pending' # None /\ load'[pending'].state = "done" => Good(load[pending].value)'
  <2>1. pending # None => pending \in Callers
    BY DEF OrgInv, Orgs!OrgTypeOK
  <2>2. PICK v : v = load[pending].value
    OBVIOUS
  <2>3. pending' # None /\ load'[pending'].state = "done" => Good(v)'
    BY <1>4, <2>1, <2>2, OrgTypes DEF OrgInv
  <2> QED
    BY <2>2, <2>3 DEF Good
<1>7. ASSUME NEW c \in Callers PROVE AskingFits(asking[c])'
  <2>1. PICK v : v = load[asking[c].joined].value
    OBVIOUS
  <2>2. AskingFits(asking[c])
    BY DEF OrgInv
  <2>3. asking[c].pc = "wait" => v \in Nat
    BY <2>1, <2>2, OrgTypes DEF AskingFits
  <2>4. asking[c].pc = "wait" /\ load[asking[c].joined].state = "done" /\ asking[c].epoch = epoch => Good(v)'
    BY <1>4, <2>1, <2>2, <2>3 DEF AskingFits
  <2>5. asking[c].pc = "wait" /\ load[asking[c].joined].state = "done" /\ asking[c].epoch = epoch
          => Good(load[asking[c].joined].value)'
    BY <2>1, <2>4 DEF Good
  <2> QED
    BY <2>2, <2>5 DEF AskingFits
<1> QED
  BY <1>2, <1>3, <1>5, <1>6, <1>7 DEF OrgInv

(* After the cache is dropped nobody stores what was asked for before.     *)
LEMMA OrgDrop ==
  ASSUME OrgInv, NEW v \in dropping, Orgs!Drop(v)
  PROVE  OrgInv'
<1>1. /\ dropping' = dropping \ {v} /\ cache' = None /\ epoch' = epoch + 1 /\ pending' = None
      /\ answered' = IF v > answered THEN v ELSE answered
      /\ UNCHANGED <<version, foreign, load, asking>>
  BY DEF Orgs!Drop, Orgs!Cleared
<1>2. answered' \in Orgs!Versions /\ answered' >= answered /\ answered' <= version'
  BY <1>1, OrgTypes DEF OrgInv
<1>3. Orgs!OrgTypeOK'
  BY <1>1, <1>2, OrgTypes DEF OrgInv, Orgs!OrgTypeOK
<1>4. ASSUME NEW c \in Callers PROVE AskingFits(asking[c])'
  <2>1. AskingFits(asking[c]) /\ asking[c] \in AskingRecords
    BY OrgTypes DEF OrgInv
  <2>2. asking[c].since \in Nat /\ asking[c].epoch \in Nat
    BY <2>1, OrgTypes DEF AskingRecords
  <2>3. asking[c].since <= answered' /\ asking[c].epoch < epoch'
    BY <1>1, <1>2, <2>1, <2>2, OrgTypes DEF AskingFits
  <2> QED
    BY <1>1, <2>1, <2>2, <2>3, OrgTypes DEF AskingFits
<1> QED
  BY <1>1, <1>2, <1>3, <1>4 DEF OrgInv

(* A step that moves one caller and, it may be, starts a load of his own.  *)
LEMMA AskingGoes ==
  ASSUME OrgInv, NEW c \in Callers, NEW r \in AskingRecords, AskingFits(r),
         asking' = [asking EXCEPT ![c] = r],
         UNCHANGED <<version, answered, dropping, foreign, cache, epoch, pending, load>>
  PROVE  OrgInv'
<1>1. Orgs!OrgTypeOK'
  BY DEF OrgInv, Orgs!OrgTypeOK, AskingRecords
<1>2. \A d \in Callers : asking'[d] = IF d = c THEN r ELSE asking[d]
  BY DEF OrgInv, Orgs!OrgTypeOK
<1>3. \A d \in Callers : AskingFits(asking[d])'
  BY <1>2 DEF OrgInv, AskingFits, Good
<1> QED
  BY <1>1, <1>3 DEF OrgInv, Good

LEMMA OrgAsk ==
  ASSUME OrgInv, NEW c \in Callers, Orgs!Ask(c)
  PROVE  OrgInv'
<1>1. PICK refresh \in BOOLEAN :
        asking' = [asking EXCEPT ![c] = [asking[c] EXCEPT !.pc = "asked", !.refresh = refresh, !.since = answered]]
  BY DEF Orgs!Ask, Orgs!Set
<1>2. /\ asking[c].pc = "idle"
      /\ UNCHANGED <<version, answered, dropping, foreign, cache, epoch, pending, load>>
  BY DEF Orgs!Ask, Orgs!Connections, Orgs!Cached
<1>3. PICK m \in AskingRecords : m = asking[c]
  BY OrgTypes
<1> DEFINE r == [m EXCEPT !.pc = "asked", !.refresh = refresh, !.since = answered]
<1>4. r \in AskingRecords
  BY OrgTypes DEF AskingRecords
<1>5. AskingFits(m)
  BY <1>3 DEF OrgInv
<1>6. AskingFits(r)
  <2>1. /\ r.pc = "asked" /\ r.since = answered /\ r.epoch = m.epoch /\ r.answer = m.answer
    BY DEF AskingRecords
  <2>2. m.epoch <= epoch /\ m.answer = None
    BY <1>2, <1>3, <1>5 DEF AskingFits
  <2> QED
    BY <2>1, <2>2, OrgTypes DEF AskingFits
<1>7. asking' = [asking EXCEPT ![c] = r]
  BY <1>1, <1>3
<1> HIDE DEF r
<1> QED
  BY <1>2, <1>4, <1>6, <1>7, AskingGoes

LEMMA OrgFingerprint ==
  ASSUME OrgInv, NEW c \in Callers, Orgs!Fingerprint(c)
  PROVE  OrgInv'
<1>1. PICK m \in AskingRecords : m = asking[c]
  BY OrgTypes
<1> DEFINE r == [m EXCEPT !.pc = "lookup", !.fingerprint = version]
<1>2. /\ m.pc = "asked" /\ asking' = [asking EXCEPT ![c] = r]
      /\ UNCHANGED <<version, answered, dropping, foreign, cache, epoch, pending, load>>
  BY <1>1 DEF Orgs!Fingerprint, Orgs!Set, Orgs!Connections, Orgs!Cached
<1>3. r \in AskingRecords
  BY OrgTypes DEF AskingRecords
<1>4. AskingFits(m)
  BY <1>1 DEF OrgInv
<1>5. AskingFits(r)
  <2>1. r.pc = "lookup" /\ r.since = m.since /\ r.epoch = m.epoch /\ r.answer = m.answer
    BY DEF AskingRecords
  <2> QED
    BY <1>2, <1>4, <2>1 DEF AskingFits
<1> HIDE DEF r
<1> QED
  BY <1>2, <1>3, <1>5, AskingGoes

(* The caller waits for a load that is good to keep, or starts his own.    *)
LEMMA OrgWaits ==
  ASSUME OrgInv, NEW c \in Callers, NEW r \in AskingRecords, NEW to \in Nat, NEW of \in Callers,
         asking' = [asking EXCEPT ![c] = r], to \in {epoch, epoch + 1}, epoch' = to,
         r.pc = "wait" /\ r.epoch = to /\ r.since = asking[c].since /\ r.answer = None /\ r.joined = of,
         cache' \in {cache, None}, pending' \in {pending, of},
         \/ of = c /\ load' = [load EXCEPT ![c] = Orgs!Started]
         \/ of = pending /\ pending # None /\ to = epoch /\ load' = load,
         UNCHANGED <<version, answered, dropping, foreign>>
  PROVE  OrgInv'
<1>1. load' \in [Callers -> [state : {"none", "started", "done", "failed"}, value : Orgs!Versions]]
  BY NumberAssumption DEF OrgInv, Orgs!OrgTypeOK, Orgs!Started, Orgs!Versions
<1>2. Orgs!OrgTypeOK'
  BY <1>1 DEF OrgInv, Orgs!OrgTypeOK, AskingRecords
<1>3. \A d \in Callers : load'[d].state = "done" => load'[d] = load[d]
  BY DEF OrgInv, Orgs!OrgTypeOK, Orgs!Started
<1>4. \A v : Good(v)' <=> Good(v)
  BY DEF Good
<1>5. cache' # None => Good(cache'.value)
  BY DEF OrgInv
<1>6. load'[of].state = "done" => Good(load[of].value)
  <2>1. CASE of = c /\ load' = [load EXCEPT ![c] = Orgs!Started]
    BY <2>1 DEF OrgInv, Orgs!OrgTypeOK, Orgs!Started
  <2>2. CASE of = pending /\ pending # None /\ load' = load
    BY <2>2 DEF OrgInv
  <2> QED
    BY <2>1, <2>2
<1>7. pending' # None /\ load'[pending'].state = "done" => Good(load'[pending'].value)
  <2>1. pending' \in Callers \cup {None}
    BY <1>2 DEF Orgs!OrgTypeOK
  <2>2. CASE pending' = of
    BY <1>3, <1>6, <2>2
  <2>3. CASE pending' = pending
    BY <1>3, <2>1, <2>3 DEF OrgInv
  <2> QED
    BY <2>2, <2>3
<1>8. ASSUME NEW d \in Callers PROVE AskingFits(asking[d])'
  <2>1. CASE d = c
    <3>1. asking'[d] = r
      BY <2>1 DEF OrgInv, Orgs!OrgTypeOK
    <3>2. r.since <= answered
      BY DEF OrgInv, AskingFits
    <3>3. load'[of].state = "done" => load'[of].value >= r.since /\ Good(load'[of].value)
      <4> SUFFICES ASSUME load'[of].state = "done"
                   PROVE  load'[of].value >= r.since /\ Good(load'[of].value)
        OBVIOUS
      <4>1. load'[of] = load[of] /\ Good(load[of].value)
        BY <1>3, <1>6
      <4>2. load[of].value >= answered
        BY <4>1 DEF Good
      <4>3. load[of].value \in Nat /\ answered \in Nat /\ r.since \in Nat
        BY OrgTypes DEF AskingRecords
      <4> QED
        BY <3>2, <4>1, <4>2, <4>3
    <3> QED
      BY <3>1, <3>2, <3>3 DEF AskingFits, Good
  <2>2. CASE d # c
    <3>1. asking'[d] = asking[d] /\ AskingFits(asking[d]) /\ asking[d] \in AskingRecords
      BY <2>2, OrgTypes DEF OrgInv, Orgs!OrgTypeOK
    <3>2. asking[d].epoch <= epoch' /\ (asking[d].epoch = epoch' => asking[d].epoch = epoch)
      BY <3>1, OrgTypes DEF AskingFits, AskingRecords
    <3> QED
      BY <1>3, <3>1, <3>2 DEF AskingFits, Good
  <2> QED
    BY <2>1, <2>2
<1>9. /\ answered' <= version' /\ foreign' <= version' /\ \A v \in dropping' : v <= version'
  BY DEF OrgInv
<1> QED
  BY <1>2, <1>5, <1>7, <1>8, <1>9 DEF OrgInv, Good

LEMMA OrgLookup ==
  ASSUME OrgInv, NEW c \in Callers, Orgs!Lookup(c)
  PROVE  OrgInv'
<1>1. PICK m \in AskingRecords : m = asking[c]
  BY OrgTypes
<1>2. m.pc = "lookup" /\ UNCHANGED <<version, answered, dropping, foreign>>
  BY <1>1 DEF Orgs!Lookup, Orgs!Connections
<1>3. AskingFits(m) /\ m.answer = None
  BY <1>1, <1>2 DEF OrgInv, AskingFits
<1> DEFINE hit == cache # None /\ cache.fingerprint = m.fingerprint
           stale == cache # None /\ ~hit
           now == IF stale THEN epoch + 1 ELSE epoch
           join == IF stale THEN None ELSE pending
           of == IF join = None THEN c ELSE join
<1>4. CASE hit
  <2> DEFINE r == [m EXCEPT !.pc = "over", !.answer = cache.value]
  <2>1. /\ asking' = [asking EXCEPT ![c] = r]
        /\ UNCHANGED <<cache, epoch, pending, load>>
    BY <1>1, <1>4 DEF Orgs!Lookup, Orgs!Set, Orgs!Cached
  <2>2. cache.value \in Orgs!Versions
    BY <1>4 DEF OrgInv, Orgs!OrgTypeOK
  <2>3. r \in AskingRecords
    BY <2>2 DEF AskingRecords
  <2>4. r.pc = "over" /\ r.since = m.since /\ r.epoch = m.epoch /\ r.answer = cache.value
    BY DEF AskingRecords
  <2>5. cache.value >= m.since
    <3>1. cache.value >= answered /\ m.since <= answered
      BY <1>3, <1>4 DEF OrgInv, Good, AskingFits
    <3>2. cache.value \in Nat /\ answered \in Nat /\ m.since \in Nat
      BY <2>2, OrgTypes DEF AskingRecords
    <3> QED
      BY <3>1, <3>2
  <2>6. AskingFits(r)
    BY <1>3, <2>4, <2>5 DEF AskingFits
  <2> HIDE DEF r
  <2> QED
    BY <1>2, <2>1, <2>3, <2>6, AskingGoes
<1>5. CASE ~hit
  <2> DEFINE r == [m EXCEPT !.pc = "wait", !.epoch = now, !.joined = of]
  <2>1. /\ epoch' = now /\ cache' = None
        /\ \/ join = None /\ pending' = c /\ load' = [load EXCEPT ![c] = Orgs!Started]
           \/ join # None /\ pending' = join /\ load' = load
        /\ asking' = [asking EXCEPT ![c] = r]
    BY <1>1, <1>5, Zenon DEF Orgs!Lookup, Orgs!Set
  <2>2. now \in Nat /\ now \in {epoch, epoch + 1} /\ (now # epoch => join = None)
    BY OrgTypes
  <2>3. of \in Callers /\ join \in Callers \cup {None} /\ (join # None => join = pending)
    BY DEF OrgInv, Orgs!OrgTypeOK
  <2>4. pending' = of
    BY <2>1
  <2>5. \/ of = c /\ load' = [load EXCEPT ![c] = Orgs!Started]
        \/ of = pending /\ pending # None /\ now = epoch /\ load' = load
    BY <2>1, <2>2, <2>3
  <2> HIDE DEF now, of, join, stale, hit
  <2>6. r \in AskingRecords
    BY <2>2, <2>3 DEF AskingRecords
  <2>7. r.pc = "wait" /\ r.epoch = now /\ r.since = asking[c].since /\ r.answer = None /\ r.joined = of
    BY <1>1, <1>3 DEF AskingRecords
  <2> HIDE DEF r
  <2> QED
    BY <1>2, <2>1, <2>2, <2>3, <2>4, <2>5, <2>6, <2>7, OrgWaits
<1> QED
  BY <1>4, <1>5

LEMMA OrgRefresh ==
  ASSUME OrgInv, NEW c \in Callers, Orgs!Refresh(c)
  PROVE  OrgInv'
<1>1. PICK m \in AskingRecords : m = asking[c]
  BY OrgTypes
<1> DEFINE r == [m EXCEPT !.pc = "wait", !.epoch = epoch, !.joined = c]
<1>2. /\ m.pc = "lookup" /\ asking' = [asking EXCEPT ![c] = r]
      /\ load' = [load EXCEPT ![c] = Orgs!Started]
      /\ UNCHANGED <<version, answered, dropping, foreign, cache, epoch, pending>>
  BY <1>1 DEF Orgs!Refresh, Orgs!Set, Orgs!Connections, Orgs!Cached
<1>3. r \in AskingRecords
  BY OrgTypes DEF AskingRecords
<1>4. m.answer = None
  BY <1>1, <1>2 DEF OrgInv, AskingFits
<1>5. r.pc = "wait" /\ r.epoch = epoch /\ r.since = asking[c].since /\ r.answer = None /\ r.joined = c
  BY <1>1, <1>4 DEF AskingRecords
<1> HIDE DEF r
<1>6. epoch \in Nat
  BY OrgTypes
<1> QED
  BY <1>2, <1>3, <1>5, <1>6, OrgWaits

(* A load reads the connections as they are now.                           *)
LEMMA OrgLoad ==
  ASSUME OrgInv, NEW c \in Callers, Orgs!Load(c)
  PROVE  OrgInv'
<1>1. PICK state \in {"done", "failed"} : load' = [load EXCEPT ![c] = [state |-> state, value |-> version]]
  BY DEF Orgs!Load
<1>2. UNCHANGED <<version, answered, dropping, foreign, cache, epoch, pending, asking>>
  BY DEF Orgs!Load, Orgs!Connections, Orgs!Cached
<1>3. /\ load' \in [Callers -> [state : {"none", "started", "done", "failed"}, value : Orgs!Versions]]
      /\ load'[c].value = version /\ \A d \in Callers : d # c => load'[d] = load[d]
  BY <1>1, OrgTypes DEF OrgInv, Orgs!OrgTypeOK
<1>4. Orgs!OrgTypeOK'
  BY <1>2, <1>3 DEF OrgInv, Orgs!OrgTypeOK
<1>5. version \in Nat /\ Good(version)
  BY OrgTypes DEF OrgInv, Good
<1>6. pending # None /\ load'[pending].state = "done" => Good(load'[pending].value)
  <2>1. pending \in Callers \cup {None}
    BY DEF OrgInv, Orgs!OrgTypeOK
  <2> QED
    BY <1>3, <1>5, <2>1 DEF OrgInv
<1>7. ASSUME NEW d \in Callers PROVE AskingFits(asking[d])'
  <2>1. AskingFits(asking[d]) /\ asking[d] \in AskingRecords
    BY OrgTypes DEF OrgInv
  <2>2. asking[d].since \in Nat /\ asking[d].since <= version
    BY <2>1, OrgTypes DEF OrgInv, AskingFits, AskingRecords
  <2>3. CASE asking[d].joined = c
    BY <1>2, <1>3, <1>5, <2>1, <2>2, <2>3 DEF AskingFits, Good
  <2>4. CASE asking[d].joined # c
    BY <1>2, <1>3, <2>1, <2>4 DEF AskingFits, Good
  <2> QED
    BY <2>3, <2>4
<1> QED
  BY <1>2, <1>4, <1>6, <1>7 DEF OrgInv, Good

LEMMA OrgResume ==
  ASSUME OrgInv, NEW c \in Callers, Orgs!Resume(c)
  PROVE  OrgInv'
<1>1. PICK m \in AskingRecords : m = asking[c]
  BY OrgTypes
<1>2. PICK of : of = m.joined
  OBVIOUS
<1>3. /\ m.pc = "wait" /\ load[of].state \in {"done", "failed"}
      /\ pending' \in {None, pending}
      /\ UNCHANGED <<version, answered, dropping, foreign, epoch, load>>
  BY <1>1, <1>2 DEF Orgs!Resume, Orgs!Connections
<1>4. /\ AskingFits(m) /\ of \in Callers /\ m.answer = None
  BY <1>1, <1>2, <1>3 DEF OrgInv, AskingFits
<1>5. load[of].state = "done" =>
        /\ load[of].value >= m.since /\ load[of].value \in Orgs!Versions
        /\ m.epoch = epoch => Good(load[of].value)
  BY <1>2, <1>3, <1>4 DEF OrgInv, AskingFits, Orgs!OrgTypeOK
<1>6. /\ cache' \in [fingerprint : Orgs!Versions, value : Orgs!Versions] \cup {None}
      /\ cache' # None => Good(cache'.value)
  <2>1. CASE cache' = cache
    BY <2>1 DEF OrgInv, Orgs!OrgTypeOK
  <2>2. CASE /\ load[of].state = "done" /\ epoch = m.epoch
             /\ cache' = [fingerprint |-> m.fingerprint, value |-> load[of].value]
    BY <1>5, <2>2 DEF AskingRecords
  <2> QED
    BY <1>1, <1>2, <1>3, <2>1, <2>2 DEF Orgs!Resume, Orgs!Store
<1>7. PICK r \in AskingRecords : AskingFits(r) /\ asking' = [asking EXCEPT ![c] = r]
  <2>1. CASE load[of].state = "failed"
    <3> DEFINE r == [m EXCEPT !.pc = "over"]
    <3>1. asking' = [asking EXCEPT ![c] = r]
      BY <1>1, <1>2, <2>1 DEF Orgs!Resume, Orgs!Set
    <3>2. r \in AskingRecords
      BY DEF AskingRecords
    <3>3. r.pc = "over" /\ r.since = m.since /\ r.epoch = m.epoch /\ r.answer = None
      BY <1>4 DEF AskingRecords
    <3>4. AskingFits(r)
      BY <1>4, <3>3 DEF AskingFits
    <3> QED
      BY <3>1, <3>2, <3>4
  <2>2. CASE load[of].state = "done"
    <3> DEFINE r == [m EXCEPT !.pc = "over", !.answer = load[of].value]
    <3>1. asking' = [asking EXCEPT ![c] = r]
      BY <1>1, <1>2, <2>2 DEF Orgs!Resume, Orgs!Set
    <3>2. r \in AskingRecords
      BY <1>5, <2>2 DEF AskingRecords
    <3>3. r.pc = "over" /\ r.since = m.since /\ r.epoch = m.epoch /\ r.answer = load[of].value
      BY DEF AskingRecords
    <3>4. AskingFits(r)
      BY <1>4, <1>5, <2>2, <3>3 DEF AskingFits
    <3> QED
      BY <3>1, <3>2, <3>4
  <2> QED
    BY <1>3, <2>1, <2>2
<1>8. Orgs!OrgTypeOK'
  BY <1>3, <1>6, <1>7 DEF OrgInv, Orgs!OrgTypeOK, AskingRecords
<1>9. pending' # None /\ load'[pending'].state = "done" => Good(load'[pending'].value)
  BY <1>3 DEF OrgInv
<1>10. ASSUME NEW d \in Callers PROVE AskingFits(asking[d])'
  <2>1. asking'[d] = IF d = c THEN r ELSE asking[d]
    BY <1>7 DEF OrgInv, Orgs!OrgTypeOK
  <2>2. AskingFits(asking'[d])
    BY <1>7, <2>1 DEF OrgInv
  <2> QED
    BY <1>3, <2>2 DEF AskingFits, Good
<1> QED
  BY <1>3, <1>6, <1>8, <1>9, <1>10 DEF OrgInv, Good

LEMMA OrgAgain ==
  ASSUME OrgInv, NEW c \in Callers, Orgs!Again(c)
  PROVE  OrgInv'
<1>1. /\ asking' = [asking EXCEPT ![c] = Orgs!Fresh] /\ load' = [load EXCEPT ![c] = Orgs!NoLoad]
      /\ UNCHANGED <<version, answered, dropping, foreign, cache, epoch, pending>>
  BY DEF Orgs!Again, Orgs!Set, Orgs!Connections, Orgs!Cached
<1>2. 0 \in Orgs!Versions
  BY NumberAssumption DEF Orgs!Versions
<1>3. /\ Orgs!Fresh \in AskingRecords /\ Orgs!Fresh.pc = "idle" /\ Orgs!Fresh.answer = None
      /\ Orgs!Fresh.since = 0 /\ Orgs!Fresh.epoch = 0
  BY <1>2 DEF Orgs!Fresh, AskingRecords
<1>4. /\ Orgs!NoLoad.state = "none"
      /\ Orgs!NoLoad \in [state : {"none", "started", "done", "failed"}, value : Orgs!Versions]
  BY <1>2 DEF Orgs!NoLoad
<1>5. Orgs!OrgTypeOK'
  BY <1>1, <1>3, <1>4 DEF OrgInv, Orgs!OrgTypeOK, AskingRecords
<1>6. \A d \in Callers : load'[d].state = "done" => load'[d] = load[d]
  BY <1>1, <1>4 DEF OrgInv, Orgs!OrgTypeOK
<1>7. pending # None /\ load'[pending].state = "done" => Good(load'[pending].value)
  <2>1. pending \in Callers \cup {None}
    BY DEF OrgInv, Orgs!OrgTypeOK
  <2> QED
    BY <1>6, <2>1 DEF OrgInv
<1>8. ASSUME NEW d \in Callers PROVE AskingFits(asking[d])'
  <2>1. CASE d = c
    <3>1. asking'[d] = Orgs!Fresh
      BY <1>1, <2>1 DEF OrgInv, Orgs!OrgTypeOK
    <3> QED
      BY <1>1, <1>3, <3>1, OrgTypes DEF AskingFits
  <2>2. CASE d # c
    <3>1. asking'[d] = asking[d] /\ AskingFits(asking[d])
      BY <1>1, <2>2 DEF OrgInv, Orgs!OrgTypeOK
    <3> QED
      BY <1>1, <1>6, <3>1 DEF AskingFits, Good
  <2> QED
    BY <2>1, <2>2
<1> QED
  BY <1>1, <1>5, <1>7, <1>8 DEF OrgInv, Good

LEMMA OrgInvNext ==
  ASSUME OrgInv, Orgs!OrgNext PROVE OrgInv'
<1>1. CASE Orgs!Commit
  BY <1>1, OrgChanges DEF Orgs!Commit, Orgs!Cached
<1>2. CASE Orgs!ChangeElsewhere
  BY <1>2, OrgChanges DEF Orgs!ChangeElsewhere, Orgs!Cached
<1>3. CASE \E v \in dropping : Orgs!Drop(v)
  BY <1>3, OrgDrop
<1>4. CASE \E c \in Callers : Orgs!Ask(c)
  BY <1>4, OrgAsk
<1>5. CASE \E c \in Callers : Orgs!Fingerprint(c)
  BY <1>5, OrgFingerprint
<1>6. CASE \E c \in Callers : Orgs!Lookup(c)
  BY <1>6, OrgLookup
<1>7. CASE \E c \in Callers : Orgs!Refresh(c)
  BY <1>7, OrgRefresh
<1>8. CASE \E c \in Callers : Orgs!Load(c)
  BY <1>8, OrgLoad
<1>9. CASE \E c \in Callers : Orgs!Resume(c)
  BY <1>9, OrgResume
<1>10. CASE \E c \in Callers : Orgs!Again(c)
  BY <1>10, OrgAgain
<1> QED
  BY <1>1, <1>2, <1>3, <1>4, <1>5, <1>6, <1>7, <1>8, <1>9, <1>10 DEF Orgs!OrgNext, Orgs!Proceed

LEMMA OrgInvRests ==
  ASSUME OrgInv, UNCHANGED orgVars PROVE OrgInv'
BY DEF OrgInv, orgVars, Orgs!OrgTypeOK, AskingFits, Good

LEMMA OrgInvHolds ==
  OrgInv => Orgs!OrgTypeOK /\ Orgs!ReadsOwnChange /\ Orgs!CachedIsCurrent
BY DEF OrgInv, AskingFits, Good, Orgs!ReadsOwnChange, Orgs!CachedIsCurrent

-----------------------------------------------------------------------------
(* Connections.  A row is the latest of its id that was issued; a request  *)
(* has pinned what was issued, and its credentials are those of its pins.  *)
Is(e, p) == [id |-> e.id, generation |-> e.generation] = p

RequestRecords ==
  [pc : Connections!Steps, list : BOOLEAN, pins : [Aliases -> Connections!Pins \cup {None}],
   required : SUBSET Aliases, todo : SUBSET Aliases, alias : Aliases \cup {None},
   commands : 0 .. MaxCommands]
Homes == [Aliases -> Connections!Logins \cup {None}]

PinsFit(m, h) ==
  /\ \A a \in Aliases : h[a] # None => \E e \in issued : Is(e, m.pins[a]) /\ e.login = h[a]
  /\ \A a \in m.required \cup m.todo : m.pins[a] # None

PlaceFits(m, h) ==
  /\ m.pc = "idle" => \A a \in Aliases : h[a] = None
  /\ m.pc # "idle" => m.commands < MaxCommands
  /\ m.pc = "login" => m.alias \in Aliases /\ h[m.alias] # None
  /\ m.pc = "export" => \A a \in m.todo : h[a] # None
  /\ m.pc \in {"check", "run"} => \E a \in Aliases : h[a] # None
  /\ m.pc \in {"denied", "mark"} =>
       /\ m.alias \in Aliases
       /\ \E e \in issued : Is(e, m.pins[m.alias]) /\ e.login \in refused

(* A command for one org has one connection in its HOME.                   *)
SingleFits(m, h) ==
  m.list \/
    /\ m.pc = "import" => /\ \A a, b \in m.todo : a = b
                          /\ m.todo # {} => \A a \in Aliases : h[a] = None
    /\ m.pc = "login" => m.todo \subseteq {m.alias}
    /\ m.pc \in {"import", "login", "check", "run"} => \A a \in Aliases : h[a] # None => a = m.alias

RequestFits(m, h) == PinsFit(m, h) /\ PlaceFits(m, h) /\ SingleFits(m, h)

RequestsInv ==
  /\ request \in [Requests -> RequestRecords] /\ home \in [Requests -> Homes]
  /\ \A r \in Requests : RequestFits(request[r], home[r])

RowsInv ==
  /\ row \in [Ids -> Connections!Rows \cup {None}]
  /\ \A e \in issued : e.id \in Ids /\ e.generation \in 1 .. MaxGeneration /\ e.login \in Connections!Logins
  /\ change \in Connections!Pins \cup {None} /\ refused \subseteq Connections!Logins
  /\ Connections!PinsIdentify /\ Connections!CredentialsAreOwn /\ Connections!ReauthIsDeserved
  /\ \A id \in Connections!Stored :
       /\ Connections!Issue(id, row[id]) \in issued
       /\ \A e \in issued : e.id = id => e.generation <= row[id].generation

ConnectionInv == RowsInv /\ RequestsInv

LEMMA ConnectionInvInit == Connections!ConnectionInit => ConnectionInv
<1> SUFFICES ASSUME Connections!ConnectionInit PROVE ConnectionInv
  OBVIOUS
<1>1. Connections!Stored = {}
  BY DEF Connections!ConnectionInit, Connections!Stored
<1>2. RowsInv
  BY <1>1 DEF RowsInv, Connections!ConnectionInit, Connections!PinsIdentify, Connections!CredentialsAreOwn,
     Connections!ReauthIsDeserved
<1>3. /\ Connections!Nothing \in Homes /\ \A a \in Aliases : Connections!Nothing[a] = None
      /\ Connections!Nothing \in [Aliases -> Connections!Pins \cup {None}]
  BY DEF Connections!Nothing, Homes
<1>4. \A r \in Requests :
        /\ request[r] \in RequestRecords /\ home[r] = Connections!Nothing
        /\ request[r].pc = "idle" /\ request[r].required = {} /\ request[r].todo = {}
  <2>1. /\ home = [r \in Requests |-> Connections!Nothing]
        /\ request \in [Requests -> [pc : {"idle"}, list : BOOLEAN, pins : {Connections!Nothing}, required : {{}},
                                     todo : {{}}, alias : {None}, commands : {0}]]
    BY DEF Connections!ConnectionInit
  <2>2. 0 \in 0 .. MaxCommands
    BY NumberAssumption
  <2> QED
    BY <1>3, <2>1, <2>2 DEF RequestRecords, Connections!Steps
<1>5. request \in [Requests -> RequestRecords] /\ home \in [Requests -> Homes]
  BY <1>3, <1>4 DEF Connections!ConnectionInit
<1>6. \A r \in Requests : RequestFits(request[r], home[r])
  BY <1>3, <1>4 DEF RequestFits, PinsFit, PlaceFits, SingleFits
<1> QED
  BY <1>2, <1>5, <1>6 DEF ConnectionInv, RequestsInv

(* A request goes on; of the rest nothing is forgotten.                    *)
LEMMA FitsStays ==
  ASSUME NEW m, NEW h, RequestFits(m, h), issued \subseteq issued', refused \subseteq refused'
  PROVE  RequestFits(m, h)'
BY DEF RequestFits, PinsFit, PlaceFits, SingleFits, Is

LEMMA RequestGoes ==
  ASSUME RequestsInv, NEW r \in Requests, NEW m \in RequestRecords, NEW h \in Homes,
         request' = [request EXCEPT ![r] = m], home' = [home EXCEPT ![r] = h],
         issued \subseteq issued', refused \subseteq refused', RequestFits(m, h)'
  PROVE  RequestsInv'
<1>1. request' \in [Requests -> RequestRecords] /\ home' \in [Requests -> Homes]
  BY DEF RequestsInv
<1>2. ASSUME NEW s \in Requests PROVE RequestFits(request[s], home[s])'
  <2>1. PICK n, k : n = request[s] /\ k = home[s] /\ RequestFits(n, k)
    BY DEF RequestsInv
  <2>2. RequestFits(n, k)'
    BY <2>1, FitsStays
  <2>3. CASE s = r
    <3>1. request'[s] = m /\ home'[s] = h
      BY <2>3 DEF RequestsInv
    <3> QED
      BY <3>1 DEF RequestFits, PinsFit, PlaceFits, SingleFits
  <2>4. CASE s # r
    <3>1. request'[s] = n /\ home'[s] = k
      BY <2>1, <2>4 DEF RequestsInv
    <3> QED
      BY <2>2, <3>1 DEF RequestFits, PinsFit, PlaceFits, SingleFits
  <2> QED
    BY <2>3, <2>4
<1> QED
  BY <1>1, <1>2 DEF RequestsInv

LEMMA RequestStays ==
  ASSUME RequestsInv, UNCHANGED <<request, home>>, issued \subseteq issued', refused \subseteq refused'
  PROVE  RequestsInv'
<1>1. ASSUME NEW s \in Requests PROVE RequestFits(request[s], home[s])'
  <2>1. PICK n, k : n = request[s] /\ k = home[s] /\ RequestFits(n, k)
    BY DEF RequestsInv
  <2>2. RequestFits(n, k)'
    BY <2>1, FitsStays
  <2> QED
    BY <2>1, <2>2 DEF RequestFits, PinsFit, PlaceFits, SingleFits
<1> QED
  BY <1>1 DEF RequestsInv

LEMMA RowsStay ==
  ASSUME RowsInv, UNCHANGED <<row, issued>>, change' \in Connections!Pins \cup {None},
         refused \subseteq refused', refused' \subseteq Connections!Logins
  PROVE  RowsInv'
BY DEF RowsInv, Connections!PinsIdentify, Connections!CredentialsAreOwn, Connections!ReauthIsDeserved,
   Connections!Stored, Connections!Issue

(* A row is written with a generation of its own.                          *)
LEMMA ConnectionWrites ==
  ASSUME ConnectionInv, NEW id \in Ids, NEW new \in Connections!Rows,
         \A e \in issued : e.id = id => e.generation < new.generation,
         new.auth = new.login, new.connected \/ new.login \in refused,
         row' = [row EXCEPT ![id] = new], issued' = issued \cup {Connections!Issue(id, new)},
         UNCHANGED <<request, home, refused>>, change' \in Connections!Pins \cup {None}
  PROVE  ConnectionInv'
<1>1. RequestsInv'
  BY RequestStays DEF ConnectionInv
<1>2. PICK i : i = Connections!Issue(id, new)
  OBVIOUS
<1>3. i.id = id /\ i.generation = new.generation /\ i.login = new.login
  BY <1>2 DEF Connections!Issue
<1>4. /\ new.generation \in 1 .. MaxGeneration /\ new.login \in Connections!Logins /\ new # None
  BY NoneAssumption DEF Connections!Rows
<1>5. row' \in [Ids -> Connections!Rows \cup {None}] /\ row'[id] = new
      /\ \A x \in Ids : x # id => row'[x] = row[x]
  BY DEF ConnectionInv, RowsInv
<1>6. /\ \A e \in issued' : e.id \in Ids /\ e.generation \in 1 .. MaxGeneration /\ e.login \in Connections!Logins
      /\ refused' \subseteq Connections!Logins
  BY <1>2, <1>3, <1>4 DEF ConnectionInv, RowsInv
<1>7. Connections!PinsIdentify'
  <2>1. \A d \in issued : ~(d.id = i.id /\ d.generation = i.generation)
    BY <1>3, <1>4 DEF ConnectionInv, RowsInv
  <2> QED
    BY <1>2, <2>1 DEF ConnectionInv, RowsInv, Connections!PinsIdentify
<1>8. ASSUME NEW x \in Connections!Stored'
      PROVE  /\ row'[x].auth = row'[x].login
             /\ ~row'[x].connected => row'[x].login \in refused'
             /\ Connections!Issue(x, row'[x]) \in issued'
             /\ \A e \in issued' : e.id = x => e.generation <= row'[x].generation
  <2>1. CASE x = id
    <3>1. \A e \in issued' : e.id = x => e.generation <= new.generation
      BY <1>2, <1>3, <1>4, <2>1 DEF ConnectionInv, RowsInv
    <3> QED
      BY <1>5, <2>1, <3>1
  <2>2. CASE x # id
    <3>1. x \in Ids /\ row'[x] = row[x] /\ x \in Connections!Stored
      BY <1>5, <2>2 DEF Connections!Stored
    <3>2. /\ row[x].auth = row[x].login
          /\ ~row[x].connected => row[x].login \in refused
          /\ Connections!Issue(x, row[x]) \in issued
          /\ \A e \in issued : e.id = x => e.generation <= row[x].generation
      BY <3>1 DEF ConnectionInv, RowsInv, Connections!CredentialsAreOwn, Connections!ReauthIsDeserved
    <3>3. \A e \in issued' : e.id = x => e \in issued
      BY <1>2, <1>3, <2>2
    <3> QED
      BY <3>1, <3>2, <3>3
  <2> QED
    BY <2>1, <2>2
<1>9. Connections!CredentialsAreOwn' /\ Connections!ReauthIsDeserved'
  BY <1>8 DEF Connections!CredentialsAreOwn, Connections!ReauthIsDeserved
<1>10. \A x \in Connections!Stored' : Connections!Issue(x, row[x])' \in issued'
  BY <1>8 DEF Connections!Issue
<1>11. RowsInv'
  BY <1>5, <1>6, <1>7, <1>8, <1>9, <1>10 DEF RowsInv
<1> QED
  BY <1>1, <1>11 DEF ConnectionInv

LEMMA ConnectionWrite ==
  ASSUME ConnectionInv, NEW id \in Ids, NEW a \in Aliases, NEW generation \in Nat \ {0},
         \A e \in issued : e.id = id => e.generation < generation,
         Connections!Write(id, a, generation),
         UNCHANGED <<request, home, refused>>, change' \in Connections!Pins \cup {None}
  PROVE  ConnectionInv'
<1>1. PICK login1 : login1 = Connections!LastLogin + 1
  OBVIOUS
<1> DEFINE new == [alias |-> a, generation |-> generation, login |-> login1, auth |-> login1, connected |-> TRUE]
<1>2. /\ login1 \in Connections!Logins /\ generation <= MaxGeneration
      /\ row' = [row EXCEPT ![id] = new] /\ issued' = issued \cup {Connections!Issue(id, new)}
  BY <1>1, Zenon DEF Connections!Write, Connections!Set
<1>3. new \in Connections!Rows
  BY <1>2, NumberAssumption DEF Connections!Rows
<1>4. new.auth = new.login /\ new.connected /\ new.generation = generation
  OBVIOUS
<1> HIDE DEF new
<1> QED
  BY <1>2, <1>3, <1>4, ConnectionWrites

LEMMA StoredRows ==
  ASSUME ConnectionInv, NEW id \in Connections!Stored
  PROVE  /\ id \in Ids /\ row[id] \in Connections!Rows /\ row[id].generation \in 1 .. MaxGeneration
         /\ row[id].auth = row[id].login /\ row[id].login \in Connections!Logins
         /\ ~row[id].connected => row[id].login \in refused
         /\ Connections!Issue(id, row[id]) \in issued
         /\ \A e \in issued : e.id = id => e.generation <= row[id].generation
BY DEF ConnectionInv, RowsInv, Connections!Stored, Connections!Rows, Connections!CredentialsAreOwn,
   Connections!ReauthIsDeserved

LEMMA ConnectionRegister ==
  ASSUME ConnectionInv, NEW a \in Aliases, Connections!Register(a)
  PROVE  ConnectionInv'
<1>1. UNCHANGED <<request, home, change, refused>>
  BY DEF Connections!Register
<1>2. change' \in Connections!Pins \cup {None}
  BY <1>1 DEF ConnectionInv, RowsInv
<1>3. CASE \E id \in Connections!WithAlias(a) : Connections!Write(id, a, row[id].generation + 1)
  <2>1. PICK id \in Connections!WithAlias(a) : Connections!Write(id, a, row[id].generation + 1)
    BY <1>3
  <2>2. id \in Connections!Stored
    BY DEF Connections!WithAlias
  <2>3. PICK g : g = row[id].generation + 1
    OBVIOUS
  <2>4. g \in Nat \ {0} /\ \A e \in issued : e.id = id => e.generation < g
    BY <2>2, <2>3, StoredRows DEF ConnectionInv, RowsInv
  <2> QED
    BY <1>1, <1>2, <2>1, <2>2, <2>3, <2>4, StoredRows, ConnectionWrite
<1>4. CASE \E id \in Ids \ {e.id : e \in issued} : Connections!Write(id, a, 1)
  BY <1>1, <1>2, <1>4, ConnectionWrite
<1> QED
  BY <1>3, <1>4 DEF Connections!Register

LEMMA ConnectionReplace ==
  ASSUME ConnectionInv, NEW a \in Aliases, Connections!Replace(a)
  PROVE  ConnectionInv'
<1>1. UNCHANGED <<request, home, refused>> /\ change' = None /\ change # None
  BY DEF Connections!Replace
<1>2. CASE Connections!Current(change) /\ Connections!Write(change.id, a, change.generation + 1)
  <2>1. change.id \in Connections!Stored /\ row[change.id].generation = change.generation
    BY <1>2 DEF Connections!Current
  <2>2. PICK id, g : id = change.id /\ g = change.generation + 1
    OBVIOUS
  <2>3. id \in Ids /\ g \in Nat \ {0} /\ \A e \in issued : e.id = id => e.generation < g
    BY <2>1, <2>2, StoredRows DEF ConnectionInv, RowsInv
  <2> QED
    BY <1>1, <1>2, <2>2, <2>3, ConnectionWrite
<1>3. CASE UNCHANGED <<row, issued>>
  BY <1>1, <1>3, RequestStays, RowsStay DEF ConnectionInv, RowsInv
<1> QED
  BY <1>2, <1>3 DEF Connections!Replace

LEMMA ConnectionRename ==
  ASSUME ConnectionInv, NEW id \in Ids, NEW a \in Aliases, Connections!Rename(id, a)
  PROVE  ConnectionInv'
<1>1. PICK m : m = row[id]
  OBVIOUS
<1> DEFINE new == [m EXCEPT !.alias = a, !.generation = m.generation + 1]
<1>2. /\ id \in Connections!Stored /\ m.generation < MaxGeneration
      /\ row' = [row EXCEPT ![id] = new] /\ issued' = issued \cup {Connections!Issue(id, new)}
      /\ UNCHANGED <<request, home, change, refused>>
  BY <1>1 DEF Connections!Rename, Connections!Set
<1>3. /\ m \in Connections!Rows /\ m.generation \in 1 .. MaxGeneration
      /\ m.auth = m.login /\ (~m.connected => m.login \in refused)
      /\ \A e \in issued : e.id = id => e.generation <= m.generation
  BY <1>1, <1>2, StoredRows
<1>4. new \in Connections!Rows
  <2>1. PICK g \in 1 .. MaxGeneration : g = m.generation + 1
    BY <1>2, <1>3, NumberAssumption
  <2>2. new = [m EXCEPT !.alias = a, !.generation = g]
    BY <2>1
  <2> HIDE DEF new
  <2> QED
    BY ONLY <1>3, <2>2 DEF Connections!Rows
<1>5. /\ new.generation = m.generation + 1 /\ new.auth = m.auth /\ new.login = m.login
      /\ new.connected = m.connected
  BY <1>3 DEF Connections!Rows
<1> HIDE DEF new
<1>6. \A e \in issued : e.id = id => e.generation < new.generation
  BY <1>3, <1>5 DEF ConnectionInv, RowsInv
<1>7. change' \in Connections!Pins \cup {None}
  BY <1>2 DEF ConnectionInv, RowsInv
<1>8. new.auth = new.login /\ (new.connected \/ new.login \in refused)
  BY <1>3, <1>5
<1> QED
  BY <1>2, <1>4, <1>6, <1>7, <1>8, ConnectionWrites

LEMMA ConnectionRemove ==
  ASSUME ConnectionInv, NEW id \in Ids, Connections!Remove(id)
  PROVE  ConnectionInv'
<1>1. row' = [row EXCEPT ![id] = None] /\ UNCHANGED <<issued, request, home, change, refused>>
  BY DEF Connections!Remove
<1>2. RequestsInv'
  BY <1>1, RequestStays DEF ConnectionInv
<1>3. row' \in [Ids -> Connections!Rows \cup {None}]
      /\ \A x \in Connections!Stored' : x \in Connections!Stored /\ row'[x] = row[x]
  BY <1>1 DEF ConnectionInv, RowsInv, Connections!Stored
<1>4. RowsInv'
  BY <1>1, <1>3 DEF ConnectionInv, RowsInv, Connections!PinsIdentify, Connections!CredentialsAreOwn,
     Connections!ReauthIsDeserved, Connections!Issue
<1> QED
  BY <1>2, <1>4 DEF ConnectionInv

LEMMA ConnectionRead ==
  ASSUME ConnectionInv, NEW id \in Ids, Connections!ReadForChange(id)
  PROVE  ConnectionInv'
<1>1. /\ id \in Connections!Stored /\ change' = Connections!PinOf(id)
      /\ UNCHANGED <<row, issued, request, home, refused>>
  BY DEF Connections!ReadForChange
<1>2. change' \in Connections!Pins
  BY <1>1, StoredRows DEF Connections!PinOf, Connections!Pins
<1> QED
  BY <1>1, <1>2, RequestStays, RowsStay DEF ConnectionInv, RowsInv

(* A request is what it is, and a step of it is of its record and HOME.    *)
LEMMA RequestTypes ==
  ASSUME ConnectionInv, NEW r \in Requests
  PROVE  /\ request[r] \in RequestRecords /\ home[r] \in Homes
         /\ RequestFits(request[r], home[r])
         /\ \A m : request' = [request EXCEPT ![r] = m] /\ home' = home => home' = [home EXCEPT ![r] = home[r]]
BY DEF ConnectionInv, RequestsInv

LEMMA RequestOnly ==
  ASSUME ConnectionInv, NEW r \in Requests, NEW m \in RequestRecords,
         request' = [request EXCEPT ![r] = m], home' = home,
         UNCHANGED <<row, issued, change, refused>>, RequestFits(m, home[r])
  PROVE  ConnectionInv'
<1>1. PICK h \in Homes : h = home[r] /\ home' = [home EXCEPT ![r] = h]
  BY RequestTypes
<1>2. RequestFits(m, h)
  BY <1>1
<1>3. RequestFits(m, h)'
  BY <1>2, FitsStays
<1>4. RequestsInv'
  BY <1>1, <1>3, RequestGoes DEF ConnectionInv
<1>5. RowsInv'
  BY RowsStay DEF ConnectionInv, RowsInv
<1> QED
  BY <1>4, <1>5 DEF ConnectionInv

(* A request that is over has nothing more to show than its pins.          *)
LEMMA OverFits ==
  ASSUME ConnectionInv, NEW r \in Requests, NEW m \in RequestRecords,
         m = [request[r] EXCEPT !.pc = "over"], request[r].pc # "idle" \/ request[r].commands < MaxCommands
  PROVE  RequestFits(m, home[r])
<1>1. PICK n \in RequestRecords : n = request[r] /\ RequestFits(n, home[r])
  BY RequestTypes
<1>2. /\ m.pc = "over" /\ m.pins = n.pins /\ m.required = n.required /\ m.todo = n.todo
      /\ m.commands = n.commands
  BY <1>1 DEF RequestRecords
<1> QED
  BY <1>1, <1>2 DEF RequestFits, PinsFit, PlaceFits, SingleFits

LEMMA RequestOver ==
  ASSUME ConnectionInv, NEW r \in Requests, Connections!Go(r, "over"), UNCHANGED home,
         UNCHANGED <<row, issued, change, refused>>,
         request[r].pc # "idle" \/ request[r].commands < MaxCommands
  PROVE  ConnectionInv'
<1>1. PICK n \in RequestRecords : n = request[r]
  BY RequestTypes
<1> DEFINE m == [n EXCEPT !.pc = "over"]
<1>2. request' = [request EXCEPT ![r] = m]
  BY <1>1 DEF Connections!Go, ConnectionInv, RequestsInv
<1>3. m \in RequestRecords
  BY DEF RequestRecords, Connections!Steps
<1>4. m = [request[r] EXCEPT !.pc = "over"]
  BY <1>1
<1> HIDE DEF m
<1> QED
  BY <1>2, <1>3, <1>4, OverFits, RequestOnly

(* What a request finds is pinned, or leads it out of the command.         *)
LEMMA RequestPins ==
  ASSUME ConnectionInv, NEW r \in Requests, NEW S \in SUBSET Aliases, NEW found \in [S -> Connections!Pins],
         request[r].pc = "idle", request[r].commands < MaxCommands,
         request[r].list \/ \A a, b \in S : a = b,
         Connections!Pin(r, found), UNCHANGED <<row, issued, home, change, refused>>
  PROVE  ConnectionInv'
<1>1. PICK n \in RequestRecords : n = request[r] /\ RequestFits(n, home[r])
  BY RequestTypes
<1>2. DOMAIN found = S /\ \A a \in Aliases : home[r][a] = None
  BY <1>1 DEF RequestFits, PlaceFits
<1>3. PICK same : same = {a \in S : n.pins[a] \in {None, found[a]}}
  OBVIOUS
<1>4. CASE same = S
  <2> DEFINE pins == [a \in Aliases |-> IF a \in same THEN found[a] ELSE n.pins[a]]
             m == [n EXCEPT !.pins = pins, !.pc = "import", !.required = same, !.todo = same]
  <2>1. request' = [request EXCEPT ![r] = m]
    <3>1. S = {a \in DOMAIN found : request[r].pins[a] \in {None, found[a]}} /\ S = DOMAIN found
      BY <1>1, <1>2, <1>3, <1>4
    <3>2. request' = [request EXCEPT ![r].pins = [a \in Aliases |-> IF a \in S THEN found[a] ELSE request[r].pins[a]],
                                     ![r].pc = "import", ![r].required = S, ![r].todo = S]
      BY <3>1 DEF Connections!Pin
    <3>3. request \in [Requests -> RequestRecords] /\ same = S /\ n = request[r]
      BY <1>1, <1>4 DEF ConnectionInv, RequestsInv
    <3> QED
      BY <3>2, <3>3
  <2>2. pins \in [Aliases -> Connections!Pins \cup {None}]
    BY <1>4 DEF RequestRecords
  <2>3. \A a \in same : pins[a] # None
    BY <1>4, NoneAssumption
  <2> HIDE DEF pins
  <2>4. m \in RequestRecords
    BY <1>4, <2>2 DEF RequestRecords, Connections!Steps
  <2>5. /\ m.pc = "import" /\ m.pins = pins /\ m.required = same /\ m.todo = same
        /\ m.commands = n.commands /\ m.list = n.list
    BY DEF RequestRecords
  <2> HIDE DEF m
  <2>6. PinsFit(m, home[r])
    BY <1>2, <2>3, <2>5 DEF PinsFit
  <2>7. PlaceFits(m, home[r])
    BY <1>1, <2>5 DEF PlaceFits
  <2>8. SingleFits(m, home[r])
    BY <1>1, <1>2, <1>4, <2>5 DEF SingleFits
  <2>9. RequestFits(m, home[r])
    BY <2>6, <2>7, <2>8 DEF RequestFits
  <2> QED
    BY <2>1, <2>4, <2>9, RequestOnly
<1>5. CASE same # S
  <2>1. PICK earlier \in SUBSET same :
          request' = [request EXCEPT
            ![r].pins = [a \in Aliases |-> IF a \in earlier THEN found[a] ELSE @[a]], ![r].pc = "over"]
    BY <1>1, <1>2, <1>3, <1>5 DEF Connections!Pin
  <2> DEFINE pins == [a \in Aliases |-> IF a \in earlier THEN found[a] ELSE n.pins[a]]
             m == [n EXCEPT !.pins = pins, !.pc = "over"]
  <2>2. request' = [request EXCEPT ![r] = m]
    BY <1>1, <2>1 DEF ConnectionInv, RequestsInv
  <2>3. pins \in [Aliases -> Connections!Pins \cup {None}]
    BY <1>3 DEF RequestRecords
  <2>4. \A a \in Aliases : n.pins[a] # None => pins[a] # None
    BY <1>3, NoneAssumption
  <2> HIDE DEF pins
  <2>5. m \in RequestRecords
    BY <2>3 DEF RequestRecords, Connections!Steps
  <2>6. /\ m.pc = "over" /\ m.pins = pins /\ m.required = n.required /\ m.todo = n.todo
        /\ m.commands = n.commands /\ m.list = n.list
    BY DEF RequestRecords
  <2> HIDE DEF m
  <2>7. PinsFit(m, home[r])
    BY <1>1, <1>2, <2>4, <2>6 DEF RequestFits, PinsFit, RequestRecords
  <2>8. RequestFits(m, home[r])
    BY <1>1, <2>6, <2>7 DEF RequestFits, PlaceFits, SingleFits
  <2> QED
    BY <2>2, <2>5, <2>8, RequestOnly
<1> QED
  BY <1>4, <1>5

LEMMA ConnectionBegin ==
  ASSUME ConnectionInv, NEW r \in Requests, Connections!Begin(r)
  PROVE  ConnectionInv'
<1>1. /\ request[r].pc = "idle" /\ request[r].commands < MaxCommands
      /\ UNCHANGED <<row, issued, home, change, refused>>
  BY DEF Connections!Begin
<1>2. \A a \in Aliases : \A id \in Connections!WithAlias(a) :
        id \in Connections!Stored /\ Connections!PinOf(id) \in Connections!Pins
  BY StoredRows DEF Connections!WithAlias, Connections!PinOf, Connections!Pins
<1>3. CASE Connections!Go(r, "over")
  BY <1>1, <1>3, RequestOver
<1>4. ASSUME NEW a \in Aliases, NEW id \in Connections!WithAlias(a),
             Connections!Pin(r, [x \in {a} |-> Connections!PinOf(id)])
      PROVE  ConnectionInv'
  <2>1. PICK found : found = [x \in {a} |-> Connections!PinOf(id)]
    OBVIOUS
  <2>2. found \in [{a} -> Connections!Pins]
    BY <1>2, <2>1
  <2>3. Connections!Pin(r, found)
    BY <1>4, <2>1
  <2> QED
    BY <1>1, <2>2, <2>3, RequestPins
<1>5. ASSUME request[r].list = TRUE, NEW S, S = {a \in Aliases : \E id \in Connections!WithAlias(a) : row[id].connected},
             Connections!Pin(r, [a \in S |-> Connections!PinOf(CHOOSE id \in Connections!WithAlias(a) : TRUE)])
      PROVE  ConnectionInv'
  <2>1. PICK found : found = [a \in S |-> Connections!PinOf(CHOOSE id \in Connections!WithAlias(a) : TRUE)]
    OBVIOUS
  <2>2. \A a \in S : (CHOOSE id \in Connections!WithAlias(a) : TRUE) \in Connections!WithAlias(a)
    BY <1>5
  <2>3. found \in [S -> Connections!Pins]
    BY <1>2, <1>5, <2>1, <2>2
  <2>4. Connections!Pin(r, found)
    BY <1>5, <2>1
  <2> QED
    BY <1>1, <1>5, <2>3, <2>4, RequestPins
<1> QED
  BY <1>3, <1>4, <1>5 DEF Connections!Begin

(* What is imported are the credentials of the generation pinned.          *)
LEMMA PinnedRow ==
  ASSUME ConnectionInv, NEW p \in Connections!Pins, Connections!Current(p)
  PROVE  /\ p.id \in Connections!Stored
         /\ \E e \in issued : Is(e, p) /\ e.login = row[p.id].login
         /\ \A e \in issued : Is(e, p) => e.login = row[p.id].login
<1>1. p.id \in Connections!Stored /\ row[p.id].generation = p.generation
  BY DEF Connections!Current
<1>2. PICK i : i = Connections!Issue(p.id, row[p.id])
  OBVIOUS
<1>3. /\ i \in issued /\ i.id = p.id /\ i.generation = p.generation /\ i.login = row[p.id].login
  BY <1>1, <1>2, StoredRows DEF Connections!Issue
<1>4. Is(i, p)
  BY <1>3 DEF Is, Connections!Pins
<1>5. \A e \in issued : Is(e, p) => e = i
  BY <1>3 DEF Is, ConnectionInv, RowsInv, Connections!PinsIdentify
<1> QED
  BY <1>1, <1>3, <1>4, <1>5

LEMMA ConnectionImport ==
  ASSUME ConnectionInv, NEW r \in Requests, NEW a \in Aliases, Connections!Import(r, a)
  PROVE  ConnectionInv'
<1>1. PICK n \in RequestRecords : n = request[r] /\ RequestFits(n, home[r])
  BY RequestTypes
<1>2. PICK k \in Homes : k = home[r]
  BY RequestTypes
<1>3. PICK p : p = n.pins[a]
  OBVIOUS
<1>4. n.pc = "import" /\ a \in n.todo /\ UNCHANGED <<row, issued, change, refused>>
  BY <1>1 DEF Connections!Import
<1>5. p \in Connections!Pins
  BY <1>1, <1>3, <1>4 DEF RequestFits, PinsFit, RequestRecords
<1>6. CASE ~Connections!Current(p)
  BY <1>1, <1>3, <1>4, <1>6, RequestOver DEF Connections!Import, Connections!Over
<1>7. CASE Connections!Current(p)
  <2>0. PICK auth : auth = row[p.id].auth
    OBVIOUS
  <2> DEFINE m == [n EXCEPT !.pc = "login", !.alias = a]
             h == [k EXCEPT ![a] = auth]
  <2>1. request' = [request EXCEPT ![r] = m]
    BY <1>1, <1>3, <1>7 DEF Connections!Import, ConnectionInv, RequestsInv
  <2>2. home' = [home EXCEPT ![r] = h]
    BY <1>1, <1>2, <1>3, <1>7, <2>0 DEF Connections!Import, ConnectionInv, RequestsInv
  <2>3. /\ auth \in Connections!Logins
        /\ \E e \in issued : Is(e, p) /\ e.login = auth
    BY <2>0, <1>5, <1>7, PinnedRow, StoredRows
  <2>4. m \in RequestRecords
    BY DEF RequestRecords, Connections!Steps
  <2>5. h \in Homes /\ h[a] = auth /\ h[a] # None /\ \A b \in Aliases : b # a => h[b] = k[b]
    BY <2>3, NoneAssumption DEF Homes
  <2>6. /\ m.pc = "login" /\ m.alias = a /\ m.pins = n.pins /\ m.required = n.required /\ m.todo = n.todo
        /\ m.commands = n.commands /\ m.list = n.list
    BY DEF RequestRecords
  <2> HIDE DEF m, h
  <2>7. PinsFit(m, h)
    BY <1>1, <1>2, <1>3, <2>3, <2>5, <2>6 DEF RequestFits, PinsFit
  <2>8. PlaceFits(m, h)
    BY <1>1, <1>4, <2>5, <2>6 DEF RequestFits, PlaceFits
  <2>9. SingleFits(m, h)
    BY <1>1, <1>2, <1>4, <2>5, <2>6 DEF RequestFits, SingleFits
  <2>10. RequestFits(m, h)
    BY <2>7, <2>8, <2>9 DEF RequestFits
  <2>11. issued \subseteq issued' /\ refused \subseteq refused'
    BY <1>4
  <2>12. RequestFits(m, h)'
    BY <2>10, <2>11, FitsStays
  <2>13. RequestsInv'
    BY <2>1, <2>2, <2>4, <2>5, <2>11, <2>12, RequestGoes DEF ConnectionInv
  <2> QED
    BY <1>4, <2>13, RowsStay DEF ConnectionInv, RowsInv
<1> QED
  BY <1>6, <1>7

LEMMA ConnectionLogin ==
  ASSUME ConnectionInv, NEW r \in Requests, Connections!Login(r)
  PROVE  ConnectionInv'
<1>1. PICK n \in RequestRecords : n = request[r] /\ RequestFits(n, home[r])
  BY RequestTypes
<1>2. PICK k \in Homes : k = home[r]
  BY RequestTypes
<1>3. PICK a : a = n.alias
  OBVIOUS
<1>4. n.pc = "login" /\ UNCHANGED <<row, issued, change>>
  BY <1>1 DEF Connections!Login
<1>5. a \in Aliases /\ k[a] # None /\ n.commands < MaxCommands
  BY <1>1, <1>2, <1>3, <1>4 DEF RequestFits, PlaceFits
<1>6. k[a] \in Connections!Logins /\ \E e \in issued : Is(e, n.pins[a]) /\ e.login = k[a]
  BY <1>1, <1>2, <1>5 DEF RequestFits, PinsFit, Homes
<1>7. CASE /\ request' = [request EXCEPT ![r].pc = "import", ![r].todo = @ \ {a}]
           /\ UNCHANGED <<home, refused>>
  <2> DEFINE m == [n EXCEPT !.pc = "import", !.todo = n.todo \ {a}]
  <2>1. request' = [request EXCEPT ![r] = m]
    BY <1>1, <1>7 DEF ConnectionInv, RequestsInv
  <2>2. m \in RequestRecords
    BY DEF RequestRecords, Connections!Steps
  <2>3. /\ m.pc = "import" /\ m.alias = a /\ m.pins = n.pins /\ m.required = n.required /\ m.todo = n.todo \ {a}
        /\ m.commands = n.commands /\ m.list = n.list
    BY <1>3 DEF RequestRecords
  <2> HIDE DEF m
  <2>4. PinsFit(m, home[r]) /\ PlaceFits(m, home[r])
    BY <1>1, <1>5, <2>3 DEF RequestFits, PinsFit, PlaceFits
  <2>5. SingleFits(m, home[r])
    BY <1>1, <1>3, <1>4, <2>3 DEF RequestFits, SingleFits
  <2> QED
    BY <1>4, <1>7, <2>1, <2>2, <2>4, <2>5, RequestOnly DEF RequestFits
<1>8. ASSUME NEW pc \in {"denied", "failed"}, Connections!Go(r, pc), home' = [home EXCEPT ![r][a] = None],
             refused' = IF pc = "denied" THEN refused \cup {home[r][a]} ELSE refused
      PROVE  ConnectionInv'
  <2> DEFINE m == [n EXCEPT !.pc = pc]
             h == [k EXCEPT ![a] = None]
  <2>1. request' = [request EXCEPT ![r] = m]
    BY <1>1, <1>8 DEF Connections!Go, ConnectionInv, RequestsInv
  <2>2. home' = [home EXCEPT ![r] = h]
    BY <1>2, <1>8 DEF ConnectionInv, RequestsInv
  <2>3. m \in RequestRecords
    BY DEF RequestRecords, Connections!Steps
  <2>4. h \in Homes /\ \A b \in Aliases : h[b] # None => h[b] = k[b]
    BY DEF Homes
  <2>5. /\ m.pc = pc /\ m.alias = a /\ m.pins = n.pins /\ m.required = n.required /\ m.todo = n.todo
        /\ m.commands = n.commands /\ m.list = n.list
    BY <1>3 DEF RequestRecords
  <2> HIDE DEF m, h
  <2>6. PinsFit(m, h)
    BY <1>1, <1>2, <2>4, <2>5 DEF RequestFits, PinsFit
  <2>7. issued' = issued /\ refused \subseteq refused' /\ refused' \subseteq Connections!Logins
    BY <1>2, <1>4, <1>6, <1>8 DEF ConnectionInv, RowsInv
  <2>8. PlaceFits(m, h)'
    <3>1. pc = "denied" => \E e \in issued : Is(e, m.pins[a]) /\ e.login \in refused'
      BY <1>2, <1>6, <1>8, <2>5
    <3> QED
      BY <1>5, <2>5, <2>7, <3>1 DEF PlaceFits, Is
  <2>9. SingleFits(m, h)
    BY <2>5 DEF SingleFits
  <2>10. RequestFits(m, h)'
    BY <2>6, <2>7, <2>8, <2>9 DEF RequestFits, PinsFit, SingleFits, Is
  <2>11. RequestsInv'
    BY <2>1, <2>2, <2>3, <2>4, <2>7, <2>10, RequestGoes DEF ConnectionInv
  <2>12. RowsInv'
    BY <1>4, <2>7, RowsStay DEF ConnectionInv, RowsInv
  <2> QED
    BY <2>11, <2>12 DEF ConnectionInv
<1>9. CASE Connections!Go(r, "denied") /\ home' = [home EXCEPT ![r][a] = None] /\ refused' = refused \cup {home[r][a]}
  BY <1>8, <1>9
<1>10. CASE Connections!Go(r, "failed") /\ home' = [home EXCEPT ![r][a] = None] /\ UNCHANGED refused
  BY <1>8, <1>10
<1> QED
  BY <1>1, <1>3, <1>7, <1>9, <1>10 DEF Connections!Login

(* Onward within a command: to "import" again, or to "mark".               *)
LEMMA ConnectionAfterFailure ==
  ASSUME ConnectionInv, NEW r \in Requests, Connections!AfterFailure(r)
  PROVE  ConnectionInv'
<1>1. PICK n \in RequestRecords : n = request[r] /\ RequestFits(n, home[r])
  BY RequestTypes
<1>2. n.pc \in {"denied", "failed"} /\ UNCHANGED <<row, issued, home, change, refused>>
  BY <1>1 DEF Connections!AfterFailure
<1>3. CASE Connections!Go(r, "over")
  BY <1>1, <1>2, <1>3, RequestOver
<1>4. CASE n.pc = "denied" /\ Connections!Go(r, "mark")
  <2> DEFINE m == [n EXCEPT !.pc = "mark"]
  <2>1. request' = [request EXCEPT ![r] = m]
    BY <1>1, <1>4 DEF Connections!Go, ConnectionInv, RequestsInv
  <2>2. m \in RequestRecords
    BY DEF RequestRecords, Connections!Steps
  <2>3. /\ m.pc = "mark" /\ m.alias = n.alias /\ m.pins = n.pins /\ m.required = n.required /\ m.todo = n.todo
        /\ m.commands = n.commands /\ m.list = n.list
    BY DEF RequestRecords
  <2> HIDE DEF m
  <2>4. RequestFits(m, home[r])
    BY <1>1, <1>4, <2>3 DEF RequestFits, PinsFit, PlaceFits, SingleFits
  <2> QED
    BY <1>2, <2>1, <2>2, <2>4, RequestOnly
<1>5. CASE n.list /\ request' = [request EXCEPT ![r].pc = "import", ![r].todo = @ \ {n.alias}]
  <2> DEFINE m == [n EXCEPT !.pc = "import", !.todo = n.todo \ {n.alias}]
  <2>1. request' = [request EXCEPT ![r] = m]
    BY <1>1, <1>5 DEF ConnectionInv, RequestsInv
  <2>2. m \in RequestRecords
    BY DEF RequestRecords, Connections!Steps
  <2>3. /\ m.pc = "import" /\ m.pins = n.pins /\ m.required = n.required /\ m.todo \subseteq n.todo
        /\ m.commands = n.commands /\ m.list = n.list
    BY DEF RequestRecords
  <2> HIDE DEF m
  <2>4. RequestFits(m, home[r])
    BY <1>1, <1>2, <1>5, <2>3 DEF RequestFits, PinsFit, PlaceFits, SingleFits
  <2> QED
    BY <1>2, <2>1, <2>2, <2>4, RequestOnly
<1> QED
  BY <1>1, <1>3, <1>4, <1>5 DEF Connections!AfterFailure

(* What a row is of does not change with what is noted on it.              *)
LEMMA RowNoted ==
  ASSUME ConnectionInv, NEW id \in Connections!Stored, NEW new \in Connections!Rows,
         new.alias = row[id].alias, new.generation = row[id].generation, new.login = row[id].login,
         new.auth = new.login, new.connected \/ new.login \in refused,
         row' = [row EXCEPT ![id] = new], UNCHANGED <<issued, change, refused>>
  PROVE  RowsInv'
<1>1. /\ id \in Ids /\ row' \in [Ids -> Connections!Rows \cup {None}] /\ row'[id] = new
      /\ \A x \in Ids : x # id => row'[x] = row[x]
  BY StoredRows DEF ConnectionInv, RowsInv
<1>2. Connections!Issue(id, new) = Connections!Issue(id, row[id])
  BY DEF Connections!Issue
<1>3. ASSUME NEW x \in Connections!Stored'
      PROVE  /\ row'[x].auth = row'[x].login
             /\ ~row'[x].connected => row'[x].login \in refused'
             /\ Connections!Issue(x, row'[x]) \in issued'
             /\ \A e \in issued' : e.id = x => e.generation <= row'[x].generation
  <2>1. CASE x = id
    BY <1>1, <1>2, <2>1, StoredRows
  <2>2. CASE x # id
    <3>1. row'[x] = row[x] /\ x \in Connections!Stored
      BY <1>1, <2>2 DEF Connections!Stored
    <3> QED
      BY <3>1, StoredRows
  <2> QED
    BY <2>1, <2>2
<1>4. Connections!CredentialsAreOwn' /\ Connections!ReauthIsDeserved'
  BY <1>3 DEF Connections!CredentialsAreOwn, Connections!ReauthIsDeserved
<1>5. \A x \in Connections!Stored' : Connections!Issue(x, row[x])' \in issued'
  BY <1>3 DEF Connections!Issue
<1>6. Connections!PinsIdentify'
  BY DEF ConnectionInv, RowsInv, Connections!PinsIdentify
<1> QED
  BY <1>1, <1>3, <1>4, <1>5, <1>6 DEF ConnectionInv, RowsInv

(* A connection is marked while it is the one that was refused.            *)
LEMMA ConnectionMark ==
  ASSUME ConnectionInv, NEW r \in Requests, Connections!MarkReauth(r)
  PROVE  ConnectionInv'
<1>1. PICK n \in RequestRecords : n = request[r] /\ RequestFits(n, home[r])
  BY RequestTypes
<1>2. PICK a, p : a = n.alias /\ p = n.pins[a]
  OBVIOUS
<1>3. n.pc = "mark" /\ Connections!Marked(p) /\ UNCHANGED <<issued, home, change, refused>>
  BY <1>1, <1>2 DEF Connections!MarkReauth
<1>4. a \in Aliases /\ \E e \in issued : Is(e, p) /\ e.login \in refused
  BY <1>1, <1>2, <1>3 DEF RequestFits, PlaceFits
<1>5. p \in Connections!Pins
  BY <1>4 DEF Is, ConnectionInv, RowsInv, Connections!Pins
<1>6. RowsInv'
  <2>1. CASE ~Connections!Current(p)
    BY <1>3, <2>1, RowsStay DEF Connections!Marked, ConnectionInv, RowsInv
  <2>2. CASE Connections!Current(p)
    <3>1. PICK id \in Connections!Stored : id = p.id
      BY <2>2 DEF Connections!Current
    <3>2. PICK m : m = row[id]
      OBVIOUS
    <3>3. /\ m \in Connections!Rows /\ m.auth = m.login /\ m.login \in refused
      BY <1>4, <1>5, <2>2, <3>1, <3>2, PinnedRow, StoredRows
    <3> DEFINE new == [m EXCEPT !.connected = FALSE]
    <3>4. row' = [row EXCEPT ![id] = new]
      BY <1>3, <2>2, <3>1, <3>2 DEF Connections!Marked, ConnectionInv, RowsInv
    <3>5. /\ new \in Connections!Rows /\ new.alias = m.alias /\ new.generation = m.generation
          /\ new.login = m.login /\ new.auth = m.auth
      BY <3>3 DEF Connections!Rows
    <3> HIDE DEF new
    <3> QED
      BY <1>3, <3>2, <3>3, <3>4, <3>5, RowNoted
  <2> QED
    BY <2>1, <2>2
<1>7. PICK m \in RequestRecords : RequestFits(m, home[r]) /\ request' = [request EXCEPT ![r] = m]
  <2>1. CASE n.list /\ request' = [request EXCEPT ![r].pc = "import", ![r].todo = @ \ {a}]
    <3> DEFINE m == [n EXCEPT !.pc = "import", !.todo = n.todo \ {a}]
    <3>1. request' = [request EXCEPT ![r] = m]
      BY <1>1, <2>1 DEF ConnectionInv, RequestsInv
    <3>2. m \in RequestRecords
      BY DEF RequestRecords, Connections!Steps
    <3>3. /\ m.pc = "import" /\ m.pins = n.pins /\ m.required = n.required /\ m.todo \subseteq n.todo
          /\ m.commands = n.commands /\ m.list = n.list
      BY DEF RequestRecords
    <3> HIDE DEF m
    <3>4. RequestFits(m, home[r])
      BY <1>1, <1>3, <2>1, <3>3 DEF RequestFits, PinsFit, PlaceFits, SingleFits
    <3> QED
      BY <3>1, <3>2, <3>4
  <2>2. CASE Connections!Go(r, "over")
    <3> DEFINE m == [n EXCEPT !.pc = "over"]
    <3>1. request' = [request EXCEPT ![r] = m]
      BY <1>1, <2>2 DEF Connections!Go, ConnectionInv, RequestsInv
    <3>2. m \in RequestRecords /\ m = [request[r] EXCEPT !.pc = "over"]
      BY <1>1 DEF RequestRecords, Connections!Steps
    <3> HIDE DEF m
    <3> QED
      BY <1>1, <1>3, <3>1, <3>2, OverFits
  <2> QED
    BY <1>1, <1>2, <2>1, <2>2 DEF Connections!MarkReauth
<1>8. PICK h \in Homes : h = home[r] /\ home' = [home EXCEPT ![r] = h]
  BY <1>3 DEF ConnectionInv, RequestsInv
<1>9. issued \subseteq issued' /\ refused \subseteq refused'
  BY <1>3
<1>10. RequestFits(m, h)'
  <2>1. RequestFits(m, h)
    BY <1>7, <1>8
  <2> QED
    BY <1>9, <2>1, FitsStays
<1>11. RequestsInv'
  BY <1>7, <1>8, <1>9, <1>10, RequestGoes DEF ConnectionInv
<1> QED
  BY <1>6, <1>11 DEF ConnectionInv

LEMMA ConnectionImported ==
  ASSUME ConnectionInv, NEW r \in Requests, Connections!Imported(r)
  PROVE  ConnectionInv'
<1>1. PICK n \in RequestRecords : n = request[r] /\ RequestFits(n, home[r])
  BY RequestTypes
<1>2. n.pc = "import" /\ n.todo = {} /\ UNCHANGED <<row, issued, home, change, refused>>
  BY <1>1 DEF Connections!Imported
<1>3. CASE Connections!Go(r, "over")
  BY <1>1, <1>2, <1>3, RequestOver
<1>4. CASE /\ ~ \A a \in Aliases : home[r][a] = None
           /\ request' = [request EXCEPT ![r].pc = "check", ![r].todo = request[r].required]
  <2> DEFINE m == [n EXCEPT !.pc = "check", !.todo = n.required]
  <2>1. request' = [request EXCEPT ![r] = m]
    BY <1>1, <1>4 DEF ConnectionInv, RequestsInv
  <2>2. m \in RequestRecords
    BY DEF RequestRecords, Connections!Steps
  <2>3. /\ m.pc = "check" /\ m.pins = n.pins /\ m.required = n.required /\ m.todo = n.required
        /\ m.commands = n.commands /\ m.list = n.list /\ m.alias = n.alias
    BY DEF RequestRecords
  <2> HIDE DEF m
  <2>4. PinsFit(m, home[r]) /\ PlaceFits(m, home[r])
    BY <1>1, <1>2, <1>4, <2>3 DEF RequestFits, PinsFit, PlaceFits
  <2>5. SingleFits(m, home[r])
    BY <1>1, <1>2, <2>3 DEF RequestFits, SingleFits
  <2>6. RequestFits(m, home[r])
    BY <2>4, <2>5 DEF RequestFits
  <2> QED
    BY <1>2, <2>1, <2>2, <2>6, RequestOnly
<1> QED
  BY <1>3, <1>4 DEF Connections!Imported

LEMMA ConnectionCheck ==
  ASSUME ConnectionInv, NEW r \in Requests, NEW a \in Aliases, Connections!Check(r, a)
  PROVE  ConnectionInv'
<1>1. PICK n \in RequestRecords : n = request[r] /\ RequestFits(n, home[r])
  BY RequestTypes
<1>2. n.pc = "check" /\ UNCHANGED <<row, issued, home, change, refused>>
  BY <1>1 DEF Connections!Check
<1>3. CASE Connections!Go(r, "over")
  BY <1>1, <1>2, <1>3, RequestOver
<1>4. ASSUME NEW pc \in {"run", "check"}, request' = [request EXCEPT ![r].todo = @ \ {a}, ![r].pc = pc]
      PROVE  ConnectionInv'
  <2> DEFINE m == [n EXCEPT !.todo = n.todo \ {a}, !.pc = pc]
  <2>1. request' = [request EXCEPT ![r] = m]
    BY <1>1, <1>4 DEF ConnectionInv, RequestsInv
  <2>2. m \in RequestRecords
    BY DEF RequestRecords, Connections!Steps
  <2>3. /\ m.pc = pc /\ m.pins = n.pins /\ m.required = n.required /\ m.todo \subseteq n.todo
        /\ m.commands = n.commands /\ m.list = n.list /\ m.alias = n.alias
    BY DEF RequestRecords
  <2> HIDE DEF m
  <2>4. PinsFit(m, home[r]) /\ PlaceFits(m, home[r])
    BY <1>1, <1>2, <2>3 DEF RequestFits, PinsFit, PlaceFits
  <2>5. SingleFits(m, home[r])
    BY <1>1, <1>2, <2>3 DEF RequestFits, SingleFits
  <2>6. RequestFits(m, home[r])
    BY <2>4, <2>5 DEF RequestFits
  <2> QED
    BY <1>2, <2>1, <2>2, <2>6, RequestOnly
<1> QED
  BY <1>3, <1>4 DEF Connections!Check

LEMMA ConnectionRun ==
  ASSUME ConnectionInv, NEW r \in Requests, Connections!Run(r)
  PROVE  ConnectionInv'
<1>1. PICK n \in RequestRecords : n = request[r] /\ RequestFits(n, home[r])
  BY RequestTypes
<1>2. n.pc = "run" /\ UNCHANGED <<row, issued, change>>
  BY <1>1 DEF Connections!Run
<1>3. CASE Connections!Over(r) /\ UNCHANGED refused
  BY <1>1, <1>2, <1>3, RequestOver DEF Connections!Over
<1>4. CASE /\ request' = [request EXCEPT ![r].pc = "export", ![r].todo = {a \in Aliases : home[r][a] # None}]
           /\ UNCHANGED <<home, refused>>
  <2>1. PICK S \in SUBSET Aliases : S = {a \in Aliases : home[r][a] # None}
    OBVIOUS
  <2> DEFINE m == [n EXCEPT !.pc = "export", !.todo = S]
  <2>2. request' = [request EXCEPT ![r] = m]
    BY <1>1, <1>4, <2>1 DEF ConnectionInv, RequestsInv
  <2>3. m \in RequestRecords
    BY DEF RequestRecords, Connections!Steps
  <2>4. /\ m.pc = "export" /\ m.pins = n.pins /\ m.required = n.required /\ m.todo = S
        /\ m.commands = n.commands /\ m.list = n.list
    BY DEF RequestRecords
  <2> HIDE DEF m
  <2>5. \A a \in S : n.pins[a] # None
    <3>1. \A a \in S : \E e \in issued : Is(e, n.pins[a])
      BY <1>1, <2>1 DEF RequestFits, PinsFit
    <3>2. ASSUME NEW a \in S PROVE n.pins[a] \in Connections!Pins
      <4>1. PICK e \in issued : Is(e, n.pins[a])
        BY <3>1
      <4>2. e.id \in Ids /\ e.generation \in 1 .. MaxGeneration
        BY DEF ConnectionInv, RowsInv
      <4> QED
        BY <4>1, <4>2 DEF Is, Connections!Pins
    <3> QED
      BY <3>2, NoneAssumption
  <2>6. PinsFit(m, home[r]) /\ PlaceFits(m, home[r])
    BY <1>1, <1>2, <2>1, <2>4, <2>5 DEF RequestFits, PinsFit, PlaceFits
  <2>7. SingleFits(m, home[r])
    BY <2>4 DEF SingleFits
  <2>8. RequestFits(m, home[r])
    BY <2>6, <2>7 DEF RequestFits
  <2> QED
    BY <1>2, <1>4, <2>2, <2>3, <2>8, RequestOnly
<1>5. CASE /\ ~n.list /\ Connections!Go(r, "mark") /\ UNCHANGED home
           /\ refused' = refused \cup {home[r][n.alias]}
  <2>1. PICK h \in Homes : h = home[r] /\ home' = [home EXCEPT ![r] = h]
    BY <1>5 DEF ConnectionInv, RequestsInv
  <2>2. n.alias \in Aliases /\ h[n.alias] # None
    BY <1>1, <1>2, <1>5, <2>1 DEF RequestFits, PlaceFits, SingleFits
  <2>3. /\ h[n.alias] \in Connections!Logins
        /\ \E e \in issued : Is(e, n.pins[n.alias]) /\ e.login = h[n.alias]
    BY <1>1, <2>1, <2>2 DEF RequestFits, PinsFit, Homes
  <2> DEFINE m == [n EXCEPT !.pc = "mark"]
  <2>4. request' = [request EXCEPT ![r] = m]
    BY <1>1, <1>5 DEF Connections!Go, ConnectionInv, RequestsInv
  <2>5. m \in RequestRecords
    BY DEF RequestRecords, Connections!Steps
  <2>6. /\ m.pc = "mark" /\ m.alias = n.alias /\ m.pins = n.pins /\ m.required = n.required /\ m.todo = n.todo
        /\ m.commands = n.commands /\ m.list = n.list
    BY DEF RequestRecords
  <2> HIDE DEF m
  <2>7. PinsFit(m, h)
    BY <1>1, <2>1, <2>6 DEF RequestFits, PinsFit
  <2>8. issued' = issued /\ refused \subseteq refused' /\ refused' \subseteq Connections!Logins
    BY <1>2, <1>5, <2>1, <2>3 DEF ConnectionInv, RowsInv
  <2>9. PlaceFits(m, h)'
    <3>1. \E e \in issued : Is(e, m.pins[m.alias]) /\ e.login \in refused'
      BY <1>5, <2>1, <2>3, <2>6
    <3>2. m.commands < MaxCommands
      BY <1>1, <1>2, <2>6 DEF RequestFits, PlaceFits
    <3> QED
      BY <2>2, <2>6, <2>8, <3>1, <3>2 DEF PlaceFits, Is
  <2>10. SingleFits(m, h)
    BY <2>6 DEF SingleFits
  <2>11. RequestFits(m, h)'
    BY <2>7, <2>8, <2>9, <2>10 DEF RequestFits, PinsFit, SingleFits, Is
  <2>12. RequestsInv'
    BY <2>1, <2>4, <2>5, <2>8, <2>11, RequestGoes DEF ConnectionInv
  <2>13. RowsInv'
    BY <1>2, <2>8, RowsStay DEF ConnectionInv, RowsInv
  <2> QED
    BY <2>12, <2>13 DEF ConnectionInv
<1> QED
  BY <1>1, <1>3, <1>4, <1>5 DEF Connections!Run

(* Credentials go back to the generation they were taken from, no other.   *)
LEMMA ConnectionExport ==
  ASSUME ConnectionInv, NEW r \in Requests, NEW a \in Aliases, Connections!Export(r, a)
  PROVE  ConnectionInv'
<1>1. PICK n \in RequestRecords : n = request[r] /\ RequestFits(n, home[r])
  BY RequestTypes
<1>2. PICK h, p : h \in Homes /\ h = home[r] /\ p = n.pins[a]
  BY RequestTypes
<1>3. /\ n.pc = "export" /\ a \in n.todo /\ (Connections!Rotated(p, h[a]) \/ UNCHANGED row)
      /\ request' = [request EXCEPT ![r].todo = @ \ {a}]
      /\ UNCHANGED <<issued, home, change, refused>>
  BY <1>1, <1>2 DEF Connections!Export
<1>4. h[a] \in Connections!Logins /\ \E e \in issued : Is(e, p) /\ e.login = h[a]
  BY <1>1, <1>2, <1>3 DEF Connections!Export, RequestFits, PlaceFits, PinsFit, Homes
<1>5. p \in Connections!Pins
  BY <1>4 DEF Is, ConnectionInv, RowsInv, Connections!Pins
<1>6. RowsInv'
  <2>1. CASE UNCHANGED row
    BY <1>3, <2>1, RowsStay DEF ConnectionInv, RowsInv
  <2>2. CASE Connections!Current(p) /\ Connections!Rotated(p, h[a])
    <3>1. PICK id \in Connections!Stored : id = p.id
      BY <2>2 DEF Connections!Current
    <3>2. PICK m : m = row[id]
      OBVIOUS
    <3>3. /\ m \in Connections!Rows /\ m.login = h[a]
      BY <1>4, <1>5, <2>2, <3>1, <3>2, PinnedRow, StoredRows
    <3> DEFINE new == [m EXCEPT !.auth = h[a], !.connected = TRUE]
    <3>4. row' = [row EXCEPT ![id] = new]
      BY <2>2, <3>1, <3>2 DEF Connections!Rotated, ConnectionInv, RowsInv
    <3>5. /\ new \in Connections!Rows /\ new.alias = m.alias /\ new.generation = m.generation
          /\ new.login = m.login /\ new.auth = h[a] /\ new.connected
      BY <1>4, <3>3 DEF Connections!Rows
    <3> HIDE DEF new
    <3> QED
      BY <1>3, <3>2, <3>3, <3>4, <3>5, RowNoted
  <2> QED
    BY <1>3, <2>1, <2>2 DEF Connections!Rotated, Connections!Export
<1> DEFINE m == [n EXCEPT !.todo = n.todo \ {a}]
<1>7. request' = [request EXCEPT ![r] = m]
  BY <1>1, <1>3 DEF ConnectionInv, RequestsInv
<1>8. m \in RequestRecords
  BY DEF RequestRecords
<1>9. /\ m.pc = n.pc /\ m.pins = n.pins /\ m.required = n.required /\ m.todo \subseteq n.todo
      /\ m.commands = n.commands /\ m.list = n.list /\ m.alias = n.alias
  BY DEF RequestRecords
<1> HIDE DEF m
<1>10. PinsFit(m, h) /\ PlaceFits(m, h) /\ SingleFits(m, h)
  <2>1. n.pc = "export"
    BY <1>1 DEF Connections!Export
  <2> QED
    BY <1>1, <1>2, <1>9, <2>1 DEF RequestFits, PinsFit, PlaceFits, SingleFits
<1>11. RequestFits(m, h) /\ issued \subseteq issued' /\ refused \subseteq refused'
  BY <1>3, <1>10 DEF RequestFits, Connections!Export
<1>12. RequestFits(m, h)'
  BY <1>11, FitsStays
<1>13. home' = [home EXCEPT ![r] = h]
  BY <1>2 DEF ConnectionInv, RequestsInv, Connections!Export
<1>14. RequestsInv'
  BY <1>2, <1>7, <1>8, <1>11, <1>12, <1>13, RequestGoes DEF ConnectionInv
<1> QED
  BY <1>6, <1>14 DEF ConnectionInv

LEMMA ConnectionFinish ==
  ASSUME ConnectionInv, NEW r \in Requests, Connections!Finish(r)
  PROVE  ConnectionInv'
<1>1. PICK n \in RequestRecords : n = request[r] /\ RequestFits(n, home[r])
  BY RequestTypes
<1>2. /\ n.pc \in {"over", "export"} /\ home' = [home EXCEPT ![r] = Connections!Nothing]
      /\ UNCHANGED <<row, issued, change, refused>>
  BY <1>1 DEF Connections!Finish
<1>3. PICK list \in BOOLEAN :
        request' = [request EXCEPT ![r].pc = "idle", ![r].list = list, ![r].required = {},
                                   ![r].todo = {}, ![r].alias = None, ![r].commands = @ + 1]
  BY DEF Connections!Finish
<1>4. PICK k \in 0 .. MaxCommands : k = n.commands + 1
  BY <1>1, <1>2, NumberAssumption DEF RequestFits, PlaceFits, RequestRecords
<1> DEFINE m == [n EXCEPT !.pc = "idle", !.list = list, !.required = {}, !.todo = {}, !.alias = None, !.commands = k]
<1>5. request' = [request EXCEPT ![r] = m]
  BY <1>1, <1>3, <1>4 DEF ConnectionInv, RequestsInv
<1>6. m \in RequestRecords
  BY DEF RequestRecords, Connections!Steps
<1>7. m.pc = "idle" /\ m.required = {} /\ m.todo = {}
  BY DEF RequestRecords
<1> HIDE DEF m
<1>8. PICK h \in Homes : h = Connections!Nothing /\ \A a \in Aliases : h[a] = None
  <2>1. Connections!Nothing \in Homes /\ \A a \in Aliases : Connections!Nothing[a] = None
    BY DEF Connections!Nothing, Homes
  <2> QED
    BY <2>1
<1>9. RequestFits(m, h)
  BY <1>7, <1>8 DEF RequestFits, PinsFit, PlaceFits, SingleFits
<1>10. issued \subseteq issued' /\ refused \subseteq refused'
  BY <1>2
<1>11. RequestFits(m, h)'
  BY <1>9, <1>10, FitsStays
<1>12. RequestsInv'
  BY <1>2, <1>5, <1>6, <1>8, <1>10, <1>11, RequestGoes DEF ConnectionInv
<1> QED
  BY <1>2, <1>12, RowsStay DEF ConnectionInv, RowsInv

LEMMA ConnectionInvNext ==
  ASSUME ConnectionInv, Connections!ConnectionNext PROVE ConnectionInv'
<1>1. CASE \E a \in Aliases : Connections!Register(a)
  BY <1>1, ConnectionRegister
<1>2. CASE \E a \in Aliases : Connections!Replace(a)
  BY <1>2, ConnectionReplace
<1>3. CASE \E id \in Ids : Connections!ReadForChange(id)
  BY <1>3, ConnectionRead
<1>4. CASE \E id \in Ids : Connections!Remove(id)
  BY <1>4, ConnectionRemove
<1>5. CASE \E id \in Ids, a \in Aliases : Connections!Rename(id, a)
  BY <1>5, ConnectionRename
<1>6. CASE \E r \in Requests : Connections!Begin(r)
  BY <1>6, ConnectionBegin
<1>7. CASE \E r \in Requests : Connections!Login(r)
  BY <1>7, ConnectionLogin
<1>8. CASE \E r \in Requests : Connections!AfterFailure(r)
  BY <1>8, ConnectionAfterFailure
<1>9. CASE \E r \in Requests : Connections!MarkReauth(r)
  BY <1>9, ConnectionMark
<1>10. CASE \E r \in Requests : Connections!Imported(r)
  BY <1>10, ConnectionImported
<1>11. CASE \E r \in Requests : Connections!Run(r)
  BY <1>11, ConnectionRun
<1>12. CASE \E r \in Requests : Connections!Finish(r)
  BY <1>12, ConnectionFinish
<1>13. CASE \E r \in Requests, a \in Aliases : Connections!Import(r, a)
  BY <1>13, ConnectionImport
<1>14. CASE \E r \in Requests, a \in Aliases : Connections!Check(r, a)
  BY <1>14, ConnectionCheck
<1>15. CASE \E r \in Requests, a \in Aliases : Connections!Export(r, a)
  BY <1>15, ConnectionExport
<1> QED
  BY <1>1, <1>2, <1>3, <1>4, <1>5, <1>6, <1>7, <1>8, <1>9, <1>10, <1>11, <1>12, <1>13, <1>14, <1>15
     DEF Connections!ConnectionNext

LEMMA ConnectionInvRests ==
  ASSUME ConnectionInv, UNCHANGED connectionVars PROVE ConnectionInv'
<1>1. UNCHANGED <<row, issued, request, home, change, refused>>
  BY DEF connectionVars
<1> QED
  BY <1>1, RequestStays, RowsStay DEF ConnectionInv, RowsInv

LEMMA ConnectionInvHolds ==
  ConnectionInv => /\ Connections!ConnectionTypeOK
                   /\ Connections!PinsIdentify /\ Connections!RunsAsPinned
                   /\ Connections!CredentialsAreOwn /\ Connections!ReauthIsDeserved
<1> SUFFICES ASSUME ConnectionInv
             PROVE  /\ Connections!ConnectionTypeOK /\ Connections!RunsAsPinned
  BY DEF ConnectionInv, RowsInv
<1>1. Connections!ConnectionTypeOK
  BY DEF ConnectionInv, RowsInv, RequestsInv, Connections!ConnectionTypeOK, RequestRecords, Homes
<1>2. Connections!RunsAsPinned
  BY DEF ConnectionInv, RequestsInv, RequestFits, PinsFit, Is, Connections!RunsAsPinned
<1> QED
  BY <1>1, <1>2

(* The only step that touches the pins adds to them.                       *)
PinsSame == \A r \in Requests, a \in Aliases : request[r].pins[a] # None => request'[r].pins[a] = request[r].pins[a]

LEMMA PinsKeptBy ==
  ASSUME ConnectionInv, Connections!ConnectionNext PROVE PinsSame
<1> SUFFICES ASSUME NEW s \in Requests, NEW b \in Aliases, request[s].pins[b] # None
             PROVE  request'[s].pins[b] = request[s].pins[b]
  BY DEF PinsSame
<1>1. /\ request \in [Requests -> RequestRecords]
      /\ \A r \in Requests : request[r] \in RequestRecords
  BY DEF ConnectionInv, RequestsInv
<1>2. CASE request' = request
  BY <1>2
<1>3. ASSUME NEW r \in Requests, NEW pc, Connections!Go(r, pc)
      PROVE  request'[s].pins[b] = request[s].pins[b]
  BY <1>1, <1>3 DEF Connections!Go, RequestRecords
<1>4. ASSUME NEW r \in Requests, NEW found, Connections!Pin(r, found)
      PROVE  request'[s].pins[b] = request[s].pins[b]
  <2>1. PICK same : same = {a \in DOMAIN found : request[r].pins[a] \in {None, found[a]}}
    OBVIOUS
  <2>3. \/ request' = [request EXCEPT
            ![r].pins = [a \in Aliases |-> IF a \in same THEN found[a] ELSE @[a]],
            ![r].pc = "import", ![r].required = same, ![r].todo = same]
        \/ \E some \in SUBSET same : request' = [request EXCEPT
             ![r].pins = [a \in Aliases |-> IF a \in some THEN found[a] ELSE @[a]], ![r].pc = "over"]
    BY <1>4, <2>1, Zenon DEF Connections!Pin
  <2>4. PICK some \in SUBSET same :
          request'[r].pins = [a \in Aliases |-> IF a \in some THEN found[a] ELSE request[r].pins[a]]
    <3>1. CASE request' = [request EXCEPT
            ![r].pins = [a \in Aliases |-> IF a \in same THEN found[a] ELSE @[a]],
            ![r].pc = "import", ![r].required = same, ![r].todo = same]
      <4>1. request'[r].pins = [a \in Aliases |-> IF a \in same THEN found[a] ELSE request[r].pins[a]]
        BY <1>1, <3>1 DEF RequestRecords
      <4> QED
        BY <4>1
    <3>2. ASSUME NEW some \in SUBSET same, request' = [request EXCEPT
             ![r].pins = [a \in Aliases |-> IF a \in some THEN found[a] ELSE @[a]], ![r].pc = "over"]
          PROVE  request'[r].pins = [a \in Aliases |-> IF a \in some THEN found[a] ELSE request[r].pins[a]]
      BY <1>1, <3>2 DEF RequestRecords
    <3> QED
      BY <2>3, <3>1, <3>2
  <2>2. s # r => request'[s] = request[s]
    BY <1>1, <1>4 DEF Connections!Pin
  <2>5. CASE s = r
    <3>1. b \in some => request[r].pins[b] = found[b]
      BY <2>1, <2>4, <2>5
    <3> QED
      BY <2>4, <2>5, <3>1
  <2> QED
    BY <2>2, <2>5
<1>5. CASE \E a \in Aliases : Connections!Register(a) \/ Connections!Replace(a)
  BY <1>2, <1>5 DEF Connections!Register, Connections!Replace
<1>6. CASE \E id \in Ids : \/ Connections!ReadForChange(id) \/ Connections!Remove(id)
                           \/ \E a \in Aliases : Connections!Rename(id, a)
  BY <1>2, <1>6 DEF Connections!ReadForChange, Connections!Remove, Connections!Rename
<1>7. CASE \E r \in Requests : Connections!Begin(r)
  BY <1>3, <1>4, <1>7 DEF Connections!Begin
<1>8. CASE \E r \in Requests : Connections!Login(r)
  BY <1>1, <1>3, <1>8 DEF Connections!Login, RequestRecords
<1>9. CASE \E r \in Requests : Connections!AfterFailure(r)
  BY <1>1, <1>3, <1>9 DEF Connections!AfterFailure, RequestRecords
<1>10. CASE \E r \in Requests : Connections!MarkReauth(r)
  BY <1>1, <1>3, <1>10 DEF Connections!MarkReauth, RequestRecords
<1>11. CASE \E r \in Requests : Connections!Imported(r)
  BY <1>1, <1>3, <1>11 DEF Connections!Imported, RequestRecords
<1>12. CASE \E r \in Requests : Connections!Run(r)
  BY <1>1, <1>3, <1>12 DEF Connections!Run, Connections!Over, RequestRecords
<1>13. CASE \E r \in Requests : Connections!Finish(r)
  BY <1>1, <1>13 DEF Connections!Finish, RequestRecords
<1>14. CASE \E r \in Requests, a \in Aliases : Connections!Import(r, a)
  BY <1>1, <1>3, <1>14 DEF Connections!Import, Connections!Over, RequestRecords
<1>15. CASE \E r \in Requests, a \in Aliases : Connections!Check(r, a)
  BY <1>1, <1>3, <1>15 DEF Connections!Check, RequestRecords
<1>16. CASE \E r \in Requests, a \in Aliases : Connections!Export(r, a)
  BY <1>1, <1>16 DEF Connections!Export, RequestRecords
<1> QED
  BY <1>5, <1>6, <1>7, <1>8, <1>9, <1>10, <1>11, <1>12, <1>13, <1>14, <1>15, <1>16
     DEF Connections!ConnectionNext

-----------------------------------------------------------------------------
(* OAuth logins.  A flow is completed by one request, of the session that  *)
(* started it; until its code is sent nothing has come of it.              *)
CompletionRecords ==
  [pc : {"idle", "begun", "exchange", "exchanged", "validate", "validated", "store"},
   flow : 1 .. MaxFlows \cup {None}, session : Sessions \cup {None}, late : BOOLEAN]
Attempts ==
  [key : {"gone", "state", "id"}, session : Sessions \cup {None},
   created : 0 .. MaxTime, answer : {"none", "code", "failure"},
   completing : BOOLEAN, consumed : BOOLEAN]

StartsRemembered ==
  \A f \in 1 .. MaxFlows : flow[f].session \in Sessions =>
    /\ flow[f].created <= clock
    /\ clock - flow[f].created < Window => <<f, flow[f].created>> \in starts[flow[f].session]
Untouched == \A f \in 1 .. MaxFlows : ~flow[f].completing => exchanged[f] = 0 /\ kept[f] = {}

CompletionFits(r) ==
  r.pc # "idle" =>
    /\ r.flow \in 1 .. MaxFlows /\ r.session \in Sessions /\ flow[r.flow].session = r.session
    /\ flow[r.flow].completing
    /\ r.pc \in {"begun", "exchange"} => exchanged[r.flow] = 0
    /\ r.late => r.session \notin signedIn
    /\ r.pc = "store" => ~r.late
OneEach ==
  \A c, d \in Completions :
    completion[c].pc # "idle" /\ completion[d].pc # "idle" /\ completion[c].flow = completion[d].flow => c = d

FlowInv ==
  /\ OAuth!FlowTypeOK
  /\ StartsRemembered /\ Untouched /\ OneEach
  /\ \A c \in Completions : CompletionFits(completion[c])
  /\ OAuth!CodeSentOnce /\ OAuth!StoredForItsStarter
  /\ OAuth!StartsWithinLimit /\ OAuth!ActiveWithinLimit

LEMMA FlowTypes ==
  ASSUME OAuth!FlowTypeOK
  PROVE  /\ clock \in 0 .. MaxTime /\ clock \in Nat
         /\ flow \in [1 .. MaxFlows -> Attempts]
         /\ \A f \in 1 .. MaxFlows : flow[f] \in Attempts /\ flow[f].created \in Nat
         /\ starts \in [Sessions -> SUBSET ((1 .. MaxFlows) \X (0 .. MaxTime))]
         /\ cookie \in [Sessions -> 1 .. MaxFlows \cup {None}] /\ signedIn \subseteq Sessions
         /\ completion \in [Completions -> CompletionRecords]
         /\ exchanged \in [1 .. MaxFlows -> 0 .. 2] /\ kept \in [1 .. MaxFlows -> SUBSET Sessions]
<1>1. /\ clock \in 0 .. MaxTime
      /\ flow \in [1 .. MaxFlows -> Attempts]
      /\ starts \in [Sessions -> SUBSET ((1 .. MaxFlows) \X (0 .. MaxTime))]
      /\ cookie \in [Sessions -> 1 .. MaxFlows \cup {None}] /\ signedIn \subseteq Sessions
      /\ completion \in [Completions -> CompletionRecords]
      /\ exchanged \in [1 .. MaxFlows -> 0 .. 2] /\ kept \in [1 .. MaxFlows -> SUBSET Sessions]
  BY DEF OAuth!FlowTypeOK, Attempts, CompletionRecords
<1>2. \A f \in 1 .. MaxFlows : flow[f] \in Attempts /\ flow[f].created \in Nat
  BY <1>1 DEF Attempts
<1>3. clock \in Nat
  BY <1>1
<1> QED
  BY <1>1, <1>2, <1>3

(* The other way round: what the type invariant is made of.                *)
LEMMA FlowTypesBack ==
  ASSUME clock' \in 0 .. MaxTime, flow' \in [1 .. MaxFlows -> Attempts],
         starts' \in [Sessions -> SUBSET ((1 .. MaxFlows) \X (0 .. MaxTime))],
         cookie' \in [Sessions -> 1 .. MaxFlows \cup {None}], signedIn' \subseteq Sessions,
         completion' \in [Completions -> CompletionRecords],
         exchanged' \in [1 .. MaxFlows -> 0 .. 2], kept' \in [1 .. MaxFlows -> SUBSET Sessions]
  PROVE  OAuth!FlowTypeOK'
BY DEF OAuth!FlowTypeOK, Attempts, CompletionRecords

LEMMA NoAttemptType ==
  /\ OAuth!NoAttempt \in Attempts /\ OAuth!NoAttempt.session = None /\ OAuth!NoAttempt.completing = FALSE
  /\ OAuth!NoAttempt.key = "gone"
<1>1. 0 \in 0 .. MaxTime
  BY NumberAssumption
<1> QED
  BY <1>1 DEF OAuth!NoAttempt, Attempts

LEMMA FlowInvInit == OAuth!FlowInit => FlowInv
<1> SUFFICES ASSUME OAuth!FlowInit PROVE FlowInv
  OBVIOUS
<1>1. \A f \in 1 .. MaxFlows : flow[f] = OAuth!NoAttempt /\ exchanged[f] = 0 /\ kept[f] = {}
  BY DEF OAuth!FlowInit
<1>2. \A c \in Completions : completion[c].pc = "idle"
  BY DEF OAuth!FlowInit, OAuth!Idle
<1>3. OAuth!FlowTypeOK
  <2>1. 0 \in 0 .. MaxTime
    BY NumberAssumption
  <2>2. OAuth!Idle \in CompletionRecords
    BY DEF OAuth!Idle, CompletionRecords
  <2>3. /\ clock \in 0 .. MaxTime /\ flow \in [1 .. MaxFlows -> Attempts]
        /\ starts \in [Sessions -> SUBSET ((1 .. MaxFlows) \X (0 .. MaxTime))]
        /\ cookie \in [Sessions -> 1 .. MaxFlows \cup {None}] /\ signedIn \subseteq Sessions
        /\ completion \in [Completions -> CompletionRecords]
        /\ exchanged \in [1 .. MaxFlows -> 0 .. 2] /\ kept \in [1 .. MaxFlows -> SUBSET Sessions]
    BY <2>1, <2>2, NoAttemptType DEF OAuth!FlowInit
  <2> QED
    BY <2>3 DEF OAuth!FlowTypeOK, Attempts, CompletionRecords
<1>4. StartsRemembered
  BY <1>1, NoAttemptType, NoneAssumption DEF StartsRemembered
<1>5. Untouched /\ OneEach /\ \A c \in Completions : CompletionFits(completion[c])
  BY <1>1, <1>2 DEF Untouched, OneEach, CompletionFits
<1>6. OAuth!CodeSentOnce /\ OAuth!StoredForItsStarter
  BY <1>1 DEF OAuth!CodeSentOnce, OAuth!StoredForItsStarter
<1>7. OAuth!StartsWithinLimit
  <2>1. ASSUME NEW s \in Sessions, NEW t \in 0 .. MaxTime
        PROVE  {f \in 1 .. MaxFlows : /\ flow[f].session = s
                                      /\ flow[f].created \in t .. t + Window - 1} = {}
    BY <1>1, NoAttemptType, NoneAssumption
  <2>2. Cardinality({}) <= MaxStarts
    BY FS_EmptySet, NumberAssumption
  <2> QED
    BY <2>1, <2>2, SameCount DEF OAuth!StartsWithinLimit
<1>8. OAuth!ActiveWithinLimit
  <2>1. OAuth!Active(flow) = {}
    BY <1>1, NoAttemptType DEF OAuth!Active
  <2>2. Cardinality({}) <= MaxActive
    BY FS_EmptySet, NumberAssumption
  <2> QED
    BY <2>1, <2>2, SameCount DEF OAuth!ActiveWithinLimit
<1> QED
  BY <1>3, <1>4, <1>5, <1>6, <1>7, <1>8 DEF FlowInv

(* The attempts go on: none starts, and none comes back.                   *)
Onward ==
  /\ flow' \in [1 .. MaxFlows -> Attempts]
  /\ \A f \in 1 .. MaxFlows :
       /\ flow'[f].session = flow[f].session /\ flow'[f].created = flow[f].created
       /\ flow[f].completing => flow'[f].completing
       /\ flow'[f].key # "gone" => flow[f].key # "gone"

LEMMA LimitsKept ==
  ASSUME FlowInv, Onward
  PROVE  OAuth!StartsWithinLimit' /\ OAuth!ActiveWithinLimit'
<1>1. OAuth!StartsWithinLimit'
  <2>1. ASSUME NEW s \in Sessions, NEW t \in 0 .. MaxTime
        PROVE  {f \in 1 .. MaxFlows : flow'[f].session = s /\ flow'[f].created \in t .. t + Window - 1}
               = {f \in 1 .. MaxFlows : flow[f].session = s /\ flow[f].created \in t .. t + Window - 1}
    BY DEF Onward
  <2> QED
    BY <2>1 DEF FlowInv, OAuth!StartsWithinLimit
<1>2. OAuth!ActiveWithinLimit'
  <2>1. OAuth!Active(flow') \subseteq OAuth!Active(flow) /\ OAuth!Active(flow) \subseteq 1 .. MaxFlows
    BY DEF Onward, OAuth!Active
  <2>2. IsFiniteSet(OAuth!Active(flow)) /\ Cardinality(OAuth!Active(flow)) \in Nat
    BY <2>1, FewNumbers, NumberAssumption
  <2>3. /\ Cardinality(OAuth!Active(flow')) \in Nat
        /\ Cardinality(OAuth!Active(flow')) <= Cardinality(OAuth!Active(flow))
    BY <2>1, <2>2, FS_Subset, FS_CardinalityType
  <2>4. Cardinality(OAuth!Active(flow)) <= MaxActive /\ MaxActive \in Nat
    BY NumberAssumption, SameCount DEF FlowInv, OAuth!ActiveWithinLimit
  <2> QED
    BY <2>2, <2>3, <2>4, SameCount DEF OAuth!ActiveWithinLimit
<1> QED
  BY <1>1, <1>2

LEMMA RememberedKept ==
  ASSUME FlowInv, Onward, UNCHANGED <<clock, starts>>
  PROVE  StartsRemembered'
BY DEF FlowInv, StartsRemembered, Onward

(* A request to complete goes on, with its flow.                           *)
LEMMA CompletionGoes ==
  ASSUME FlowInv, NEW c \in Completions, NEW r \in CompletionRecords, Onward,
         completion' = [completion EXCEPT ![c] = r],
         UNCHANGED <<clock, cookie, signedIn, starts>>,
         exchanged' \in [1 .. MaxFlows -> 0 .. 2], kept' \in [1 .. MaxFlows -> SUBSET Sessions],
         \A f \in 1 .. MaxFlows : exchanged'[f] # exchanged[f] =>
            completion[c].pc # "idle" /\ f = completion[c].flow,
         OAuth!CodeSentOnce', OAuth!StoredForItsStarter', Untouched',
         CompletionFits(r)',
         r.pc # "idle" => \A d \in Completions : completion[d].pc # "idle" /\ completion[d].flow = r.flow => d = c
  PROVE  FlowInv'
<1>1. completion' \in [Completions -> CompletionRecords]
      /\ \A d \in Completions : completion'[d] = IF d = c THEN r ELSE completion[d]
  BY FlowTypes DEF FlowInv
<1>2. OAuth!FlowTypeOK'
  BY <1>1, FlowTypes, FlowTypesBack DEF FlowInv, Onward
<1>3. OneEach'
  BY <1>1 DEF FlowInv, OneEach
<1>4. ASSUME NEW d \in Completions PROVE CompletionFits(completion[d])'
  <2>1. CASE d = c
    BY <1>1, <2>1 DEF CompletionFits
  <2>2. CASE d # c
    <3>1. completion'[d] = completion[d] /\ CompletionFits(completion[d])
      BY <1>1, <2>2 DEF FlowInv
    <3>2. completion[d].pc # "idle" => exchanged'[completion[d].flow] = exchanged[completion[d].flow]
      BY <2>2, <3>1 DEF FlowInv, OneEach, CompletionFits
    <3> QED
      BY <3>1, <3>2 DEF CompletionFits, Onward
  <2> QED
    BY <2>1, <2>2
<1> QED
  BY <1>2, <1>3, <1>4, LimitsKept, RememberedKept DEF FlowInv

LEMMA CleanedOnward ==
  ASSUME FlowInv, NEW f \in 1 .. MaxFlows
  PROVE  /\ OAuth!Cleaned \in [1 .. MaxFlows -> Attempts]
         /\ \A g \in 1 .. MaxFlows :
              /\ OAuth!Cleaned[g].session = flow[g].session /\ OAuth!Cleaned[g].created = flow[g].created
              /\ OAuth!Cleaned[g].completing = flow[g].completing
              /\ OAuth!Cleaned[g].key # "gone" => flow[g].key # "gone"
<1>1. ASSUME NEW g \in 1 .. MaxFlows
      PROVE  /\ OAuth!Cleaned[g] \in Attempts
             /\ OAuth!Cleaned[g].session = flow[g].session /\ OAuth!Cleaned[g].created = flow[g].created
             /\ OAuth!Cleaned[g].completing = flow[g].completing
             /\ OAuth!Cleaned[g].key # "gone" => flow[g].key # "gone"
  <2>1. PICK m \in Attempts : m = flow[g]
    BY FlowTypes DEF FlowInv
  <2>2. PICK n \in Attempts : n = [m EXCEPT !.key = "gone"]
    BY DEF Attempts
  <2>3. n.session = m.session /\ n.created = m.created /\ n.completing = m.completing /\ n.key = "gone"
    BY <2>2 DEF Attempts
  <2>4. OAuth!Cleaned[g] = n \/ OAuth!Cleaned[g] = m
    BY <2>1, <2>2 DEF OAuth!Cleaned
  <2> QED
    BY <2>1, <2>3, <2>4
<1>2. OAuth!Cleaned = [g \in 1 .. MaxFlows |-> OAuth!Cleaned[g]]
  BY DEF OAuth!Cleaned
<1> QED
  BY <1>1, <1>2

LEMMA FlowTick ==
  ASSUME FlowInv, OAuth!Tick
  PROVE  FlowInv'
<1>1. /\ clock < MaxTime /\ clock' = clock + 1
      /\ UNCHANGED <<flow, starts, cookie, signedIn, completion, exchanged, kept>>
  BY DEF OAuth!Tick, OAuth!History
<1>0. clock \in Nat /\ MaxTime \in Nat /\ Window \in Nat
  BY FlowTypes, NumberAssumption DEF FlowInv
<1>2. clock' \in 0 .. MaxTime
  BY <1>0, <1>1
<1>3. OAuth!FlowTypeOK'
  BY <1>1, <1>2 DEF FlowInv, OAuth!FlowTypeOK
<1>4. ASSUME NEW f \in 1 .. MaxFlows, flow'[f].session \in Sessions
      PROVE  /\ flow'[f].created <= clock'
             /\ (clock' - flow'[f].created < Window) => <<f, flow'[f].created>> \in starts'[flow'[f].session]
  <2>1. PICK x \in Nat : x = flow[f].created
    BY FlowTypes DEF FlowInv
  <2>2. /\ x <= clock
        /\ (clock - x < Window) => <<f, x>> \in starts[flow[f].session]
    BY <1>1, <1>4, <2>1 DEF FlowInv, StartsRemembered
  <2>3. /\ x <= clock'
        /\ (clock' - x < Window) => (clock - x < Window)
    BY <1>0, <1>1, <2>2
  <2> QED
    BY <1>1, <2>1, <2>2, <2>3
<1>41. StartsRemembered'
  BY <1>4 DEF StartsRemembered
<1>5. OAuth!StartsWithinLimit' /\ OAuth!ActiveWithinLimit'
  BY <1>1 DEF FlowInv, OAuth!StartsWithinLimit, OAuth!ActiveWithinLimit, OAuth!Active
<1>6. /\ Untouched' /\ OneEach' /\ OAuth!CodeSentOnce' /\ OAuth!StoredForItsStarter'
      /\ \A c \in Completions : CompletionFits(completion[c])'
  BY <1>1 DEF FlowInv, Untouched, OneEach, OAuth!CodeSentOnce, OAuth!StoredForItsStarter, CompletionFits
<1> QED
  BY <1>3, <1>41, <1>5, <1>6 DEF FlowInv

(* A completion is late once its session has ended.                        *)
LEMMA FlowEnds ==
  ASSUME FlowInv, NEW s \in Sessions, OAuth!EndSession(s)
  PROVE  FlowInv'
<1>1. /\ signedIn' = signedIn \ {s}
      /\ completion' = [c \in Completions |->
           IF completion[c].session = s
           THEN [completion[c] EXCEPT !.late = (@ \/ completion[c].pc # "store")] ELSE completion[c]]
      /\ UNCHANGED <<clock, flow, starts, cookie, exchanged, kept>>
  BY DEF OAuth!EndSession, OAuth!History
<1>2. ASSUME NEW c \in Completions
      PROVE  /\ completion'[c] \in CompletionRecords
             /\ completion'[c].pc = completion[c].pc /\ completion'[c].flow = completion[c].flow
             /\ completion'[c].session = completion[c].session
             /\ completion'[c].late => completion[c].late \/ (completion[c].session = s /\ completion[c].pc # "store")
  <2>1. PICK m \in CompletionRecords : m = completion[c]
    BY FlowTypes DEF FlowInv
  <2>2. CASE completion[c].session = s
    <3>1. PICK late \in BOOLEAN : late = (m.late \/ m.pc # "store")
      OBVIOUS
    <3>2. completion'[c] = [m EXCEPT !.late = late]
      BY <1>1, <2>1, <2>2, <3>1
    <3>3. /\ [m EXCEPT !.late = late] \in CompletionRecords
          /\ [m EXCEPT !.late = late].late = late /\ [m EXCEPT !.late = late].pc = m.pc
          /\ [m EXCEPT !.late = late].flow = m.flow /\ [m EXCEPT !.late = late].session = m.session
      BY DEF CompletionRecords
    <3> QED
      BY <2>1, <2>2, <3>1, <3>2, <3>3
  <2>3. CASE completion[c].session # s
    BY <1>1, <2>1, <2>3
  <2> QED
    BY <2>2, <2>3
<1>3. completion' \in [Completions -> CompletionRecords]
  BY <1>1, <1>2
<1>4. OAuth!FlowTypeOK'
  BY <1>1, <1>3, FlowTypes, FlowTypesBack DEF FlowInv
<1>5. OneEach'
  BY <1>2 DEF FlowInv, OneEach
<1>6. ASSUME NEW c \in Completions PROVE CompletionFits(completion[c])'
  BY <1>1, <1>2 DEF FlowInv, CompletionFits
<1>7. /\ StartsRemembered' /\ Untouched' /\ OAuth!CodeSentOnce' /\ OAuth!StoredForItsStarter'
  BY <1>1 DEF FlowInv, StartsRemembered, Untouched, OAuth!CodeSentOnce, OAuth!StoredForItsStarter
<1>8. Onward
  BY <1>1, FlowTypes DEF FlowInv, Onward
<1> QED
  BY <1>4, <1>5, <1>6, <1>7, <1>8, LimitsKept DEF FlowInv

LEMMA FlowCallback ==
  ASSUME FlowInv, NEW f \in 1 .. MaxFlows, NEW s \in Sessions, OAuth!Callback(f, s)
  PROVE  FlowInv'
<1>1. PICK m \in Attempts : m = flow[f]
  BY FlowTypes DEF FlowInv
<1>2. PICK answer \in {"code", "failure"} : flow' = [flow EXCEPT ![f].key = "id", ![f].answer = answer]
  BY DEF OAuth!Callback
<1>3. /\ m.key = "state" /\ cookie' = [cookie EXCEPT ![s] = None]
      /\ UNCHANGED <<clock, starts, signedIn, completion, exchanged, kept>>
  BY <1>1 DEF OAuth!Callback, OAuth!History
<1> DEFINE n == [m EXCEPT !.key = "id", !.answer = answer]
<1>4. flow' = [flow EXCEPT ![f] = n]
  BY <1>1, <1>2, FlowTypes DEF FlowInv
<1>5. n \in Attempts /\ n.session = m.session /\ n.created = m.created /\ n.completing = m.completing
  BY DEF Attempts
<1> HIDE DEF n
<1>6. Onward
  BY <1>1, <1>3, <1>4, <1>5, FlowTypes DEF FlowInv, Onward
<1>7. \A g \in 1 .. MaxFlows : flow'[g].completing = flow[g].completing
  BY <1>1, <1>4, <1>5, FlowTypes DEF FlowInv
<1>8. cookie' \in [Sessions -> 1 .. MaxFlows \cup {None}]
  BY <1>3, FlowTypes DEF FlowInv
<1>9. OAuth!FlowTypeOK'
  BY <1>3, <1>6, <1>8, FlowTypes, FlowTypesBack DEF FlowInv, Onward
<1>10. Untouched' /\ OneEach' /\ OAuth!CodeSentOnce'
  BY <1>3, <1>7 DEF FlowInv, Untouched, OneEach, OAuth!CodeSentOnce
<1>11. OAuth!StoredForItsStarter' /\ \A c \in Completions : CompletionFits(completion[c])'
  BY <1>3, <1>6 DEF FlowInv, OAuth!StoredForItsStarter, CompletionFits, Onward
<1> QED
  BY <1>3, <1>6, <1>9, <1>10, <1>11, LimitsKept, RememberedKept DEF FlowInv

(* A flow starts where the limits leave room for one.                      *)
LEMMA FlowStart ==
  ASSUME FlowInv, NEW f \in 1 .. MaxFlows, NEW s \in Sessions, OAuth!StartFlow(f, s)
  PROVE  FlowInv'
<1>1. /\ flow[f] = OAuth!NoAttempt /\ OAuth!Room
      /\ OAuth!Cardinality(OAuth!Recent(s)) < MaxStarts
      /\ starts' = [starts EXCEPT ![s] = OAuth!Recent(s) \cup {<<f, clock>>}]
      /\ cookie' = [cookie EXCEPT ![s] = f]
      /\ UNCHANGED <<clock, signedIn, completion, exchanged, kept>>
  BY DEF OAuth!StartFlow, OAuth!History
<1>2. PICK m \in Attempts : m = [OAuth!NoAttempt EXCEPT !.key = "state", !.session = s, !.created = clock]
  BY FlowTypes DEF FlowInv, Attempts, OAuth!NoAttempt
<1>3. m.session = s /\ m.created = clock /\ m.completing = FALSE
  BY <1>2 DEF OAuth!NoAttempt
<1>4. flow' = [OAuth!Cleaned EXCEPT ![f] = m]
  BY <1>2 DEF OAuth!StartFlow
<1>5. /\ flow' \in [1 .. MaxFlows -> Attempts]
      /\ flow'[f] = m
      /\ \A g \in 1 .. MaxFlows : g # f => flow'[g] = OAuth!Cleaned[g]
  BY <1>4, CleanedOnward
<1>6. \A g \in 1 .. MaxFlows : g # f =>
        /\ flow'[g].session = flow[g].session /\ flow'[g].created = flow[g].created
        /\ flow'[g].completing = flow[g].completing
        /\ flow'[g].key # "gone" => flow[g].key # "gone"
  BY <1>5, CleanedOnward
<1>7. flow[f].session = None /\ flow[f].completing = FALSE /\ flow[f].session # s
  BY <1>1, NoAttemptType, NoneAssumption
<1>8. clock \in Nat /\ clock \in 0 .. MaxTime /\ Window \in Nat /\ MaxStarts \in Nat /\ MaxActive \in Nat
  BY FlowTypes, NumberAssumption DEF FlowInv
<1>9. OAuth!Recent(s) = {p \in starts[s] : clock - p[2] < Window}
  BY DEF OAuth!Recent
<1>10. OAuth!FlowTypeOK'
  <2>1. OAuth!Recent(s) \cup {<<f, clock>>} \in SUBSET ((1 .. MaxFlows) \X (0 .. MaxTime))
    BY <1>8, <1>9, FlowTypes DEF FlowInv
  <2>2. starts' \in [Sessions -> SUBSET ((1 .. MaxFlows) \X (0 .. MaxTime))]
    BY <1>1, <2>1, FlowTypes DEF FlowInv
  <2>3. cookie' \in [Sessions -> 1 .. MaxFlows \cup {None}]
    BY <1>1, FlowTypes DEF FlowInv
  <2> QED
    BY <1>1, <1>5, <2>2, <2>3, FlowTypes, FlowTypesBack DEF FlowInv
<1>11. ASSUME NEW g \in 1 .. MaxFlows, flow'[g].session \in Sessions
       PROVE  /\ flow'[g].created <= clock'
              /\ (clock' - flow'[g].created < Window) => <<g, flow'[g].created>> \in starts'[flow'[g].session]
  <2>1. CASE g = f
    <3>1. <<f, clock>> \in starts'[s]
      BY <1>1, FlowTypes DEF FlowInv
    <3> QED
      BY <1>1, <1>3, <1>5, <1>8, <2>1, <3>1
  <2>2. CASE g # f
    <3>1. PICK x \in Nat : x = flow[g].created
      BY FlowTypes DEF FlowInv
    <3>2. flow'[g].created = x /\ flow'[g].session = flow[g].session
      BY <1>6, <2>2, <3>1
    <3>3. /\ x <= clock
          /\ (clock - x < Window) => <<g, x>> \in starts[flow[g].session]
      BY <1>11, <3>1, <3>2 DEF FlowInv, StartsRemembered
    <3>4. <<g, x>>[2] = x
      OBVIOUS
    <3>5. (clock - x < Window) => <<g, x>> \in starts'[flow[g].session]
      <4>1. CASE flow[g].session = s
        BY <1>1, <1>9, <3>3, <3>4, <4>1, FlowTypes DEF FlowInv
      <4>2. CASE flow[g].session # s
        BY <1>1, <3>3, <4>2, FlowTypes DEF FlowInv
      <4> QED
        BY <4>1, <4>2
    <3> QED
      BY <1>1, <3>2, <3>3, <3>5
  <2> QED
    BY <2>1, <2>2
<1>12. StartsRemembered'
  BY <1>11 DEF StartsRemembered
<1>13. Untouched'
  BY <1>1, <1>5, <1>6, <1>7 DEF FlowInv, Untouched
<1>14. OneEach' /\ OAuth!CodeSentOnce'
  BY <1>1 DEF FlowInv, OneEach, OAuth!CodeSentOnce
<1>15. OAuth!StoredForItsStarter'
  BY <1>1, <1>5, <1>6, <1>7 DEF FlowInv, OAuth!StoredForItsStarter, Untouched
<1>16. ASSUME NEW c \in Completions PROVE CompletionFits(completion[c])'
  <2>1. CompletionFits(completion[c])
    BY DEF FlowInv
  <2>2. completion[c].pc # "idle" => completion[c].flow # f
    BY <1>7, <2>1 DEF CompletionFits
  <2> QED
    BY <1>1, <1>6, <2>1, <2>2 DEF CompletionFits
<1>17. IsFiniteSet(OAuth!Recent(s)) /\ Cardinality(OAuth!Recent(s)) \in Nat
  <2>1. IsFiniteSet((1 .. MaxFlows) \X (0 .. MaxTime))
    <3>1. IsFiniteSet(1 .. MaxFlows) /\ IsFiniteSet(0 .. MaxTime)
      <4>1. MaxFlows \in Int /\ MaxTime \in Int /\ 0 \in Int /\ 1 \in Int
        BY NumberAssumption
      <4> QED
        BY <4>1, FS_Interval
    <3> QED
      BY <3>1, FS_Product
  <2>2. OAuth!Recent(s) \subseteq (1 .. MaxFlows) \X (0 .. MaxTime)
    BY <1>9, FlowTypes DEF FlowInv
  <2> QED
    BY <2>1, <2>2, FS_Subset, FS_CardinalityType
<1>18. Cardinality(OAuth!Recent(s)) < MaxStarts
  BY <1>1, SameCount
<1>19. ASSUME NEW q \in Sessions, NEW t \in 0 .. MaxTime
       PROVE  Cardinality({g \in 1 .. MaxFlows : flow'[g].session = q /\ flow'[g].created \in t .. t + Window - 1})
              <= MaxStarts
  <2> DEFINE Then == {g \in 1 .. MaxFlows : flow[g].session = q /\ flow[g].created \in t .. t + Window - 1}
             Now == {g \in 1 .. MaxFlows : flow'[g].session = q /\ flow'[g].created \in t .. t + Window - 1}
  <2>1. Cardinality(Then) <= MaxStarts
    BY SameCount DEF FlowInv, OAuth!StartsWithinLimit
  <2>2. CASE q = s /\ clock \in t .. t + Window - 1
    <3>1. ASSUME NEW g \in Then PROVE <<g, flow[g].created>> \in OAuth!Recent(s)
      <4>1. PICK x \in Nat : x = flow[g].created
        BY FlowTypes DEF FlowInv
      <4>2. x \in t .. t + Window - 1 /\ flow[g].session = s
        BY <2>2, <4>1
      <4>3. clock - x < Window
        BY <1>8, <2>2, <4>2
      <4>4. <<g, x>> \in starts[s]
        BY <4>1, <4>2, <4>3 DEF FlowInv, StartsRemembered
      <4>5. <<g, x>>[2] = x
        OBVIOUS
      <4> QED
        BY <1>9, <4>1, <4>3, <4>4, <4>5
    <3>2. PICK j \in [Then -> OAuth!Recent(s)] : \A g \in Then : j[g] = <<g, flow[g].created>>
      <4>1. [g \in Then |-> <<g, flow[g].created>>] \in [Then -> OAuth!Recent(s)]
        BY <3>1
      <4> QED
        BY <4>1
    <3>3. \A g, h \in Then : j[g] = j[h] => g = h
      BY <3>2
    <3>4. /\ IsFiniteSet(Then) /\ Cardinality(Then) \in Nat
          /\ Cardinality(Then) <= Cardinality(OAuth!Recent(s))
      BY <1>17, <3>3, OneByOne
    <3>5. Cardinality(Then) < MaxStarts
      BY <1>8, <1>17, <1>18, <3>4
    <3>6. Now = Then \cup {f}
      BY <1>3, <1>5, <1>6, <2>2
    <3> QED
      BY <1>8, <3>4, <3>5, <3>6, OneMore
  <2>3. CASE ~(q = s /\ clock \in t .. t + Window - 1)
    <3>1. f \notin Then
      BY <1>7, NoneAssumption
    <3>2. f \notin Now
      BY <1>3, <1>5, <2>3
    <3>3. Now = Then
      BY <1>6, <3>1, <3>2
    <3> QED
      BY <2>1, <3>3
  <2> QED
    BY <2>2, <2>3
<1>20. OAuth!StartsWithinLimit'
  BY <1>19, SameCount DEF OAuth!StartsWithinLimit
<1>21. OAuth!ActiveWithinLimit'
  <2>1. OAuth!Active(OAuth!Cleaned) \in SUBSET (1 .. MaxFlows)
    BY DEF OAuth!Active
  <2>2. IsFiniteSet(OAuth!Active(OAuth!Cleaned)) /\ Cardinality(OAuth!Active(OAuth!Cleaned)) \in Nat
    BY <2>1, FewNumbers, NumberAssumption
  <2>3. Cardinality(OAuth!Active(OAuth!Cleaned)) < MaxActive
    BY <1>1, SameCount DEF OAuth!Room
  <2>4. OAuth!Active(flow') \subseteq OAuth!Active(OAuth!Cleaned) \cup {f}
    BY <1>5 DEF OAuth!Active
  <2>5. Cardinality(OAuth!Active(OAuth!Cleaned) \cup {f}) <= MaxActive
    BY <1>8, <2>2, <2>3, OneMore
  <2>6. IsFiniteSet(OAuth!Active(OAuth!Cleaned) \cup {f})
    BY <2>2, FS_AddElement
  <2>7. /\ Cardinality(OAuth!Active(flow')) <= Cardinality(OAuth!Active(OAuth!Cleaned) \cup {f})
        /\ Cardinality(OAuth!Active(flow')) \in Nat /\ Cardinality(OAuth!Active(OAuth!Cleaned) \cup {f}) \in Nat
    BY <2>4, <2>6, FS_Subset, FS_CardinalityType
  <2>8. Cardinality(OAuth!Active(flow')) <= MaxActive
    BY <1>8, <2>5, <2>7
  <2> QED
    BY <2>8, SameCount DEF OAuth!ActiveWithinLimit
<1> QED
  BY <1>10, <1>12, <1>13, <1>14, <1>15, <1>16, <1>20, <1>21 DEF FlowInv

(* A session asks for its flow to be completed: the first to ask is it.    *)
LEMMA FlowBegins ==
  ASSUME FlowInv, NEW c \in Completions, NEW f \in 1 .. MaxFlows, NEW s \in Sessions, OAuth!BeginComplete(c, f, s)
  PROVE  FlowInv'
<1>1. /\ completion[c].pc = "idle" /\ s \in signedIn /\ ~flow[f].completing /\ flow[f].session = s
      /\ flow' = [OAuth!Cleaned EXCEPT ![f].completing = TRUE]
      /\ completion' = [completion EXCEPT ![c] = [OAuth!Idle EXCEPT !.pc = "begun", !.flow = f, !.session = s]]
      /\ UNCHANGED <<clock, cookie, signedIn, starts, exchanged, kept>>
  BY DEF OAuth!BeginComplete, OAuth!MayComplete, OAuth!Go, OAuth!Browser, OAuth!History
<1>2. PICK r \in CompletionRecords : r = [OAuth!Idle EXCEPT !.pc = "begun", !.flow = f, !.session = s]
  BY DEF OAuth!Idle, CompletionRecords
<1>3. r.pc = "begun" /\ r.flow = f /\ r.session = s /\ r.late = FALSE
  BY <1>2 DEF OAuth!Idle
<1>4. completion' = [completion EXCEPT ![c] = r]
  BY <1>1, <1>2
<1>5. PICK m \in Attempts : m = OAuth!Cleaned[f]
  BY CleanedOnward
<1>6. PICK n \in Attempts : n = [m EXCEPT !.completing = TRUE]
  BY DEF Attempts
<1>7. n.completing = TRUE /\ n.key = m.key /\ n.session = m.session /\ n.created = m.created
  BY <1>6 DEF Attempts
<1>8. flow' = [OAuth!Cleaned EXCEPT ![f] = n]
  BY <1>1, <1>5, <1>6, CleanedOnward
<1>9. /\ flow' \in [1 .. MaxFlows -> Attempts]
      /\ flow'[f] = n /\ \A g \in 1 .. MaxFlows : g # f => flow'[g] = OAuth!Cleaned[g]
  BY <1>8, CleanedOnward
<1>10. Onward
  BY <1>5, <1>7, <1>9, CleanedOnward DEF Onward
<1>11. Untouched'
  BY <1>1, <1>7, <1>9, CleanedOnward DEF FlowInv, Untouched
<1>12. OAuth!CodeSentOnce' /\ OAuth!StoredForItsStarter'
  BY <1>1, <1>10 DEF FlowInv, OAuth!CodeSentOnce, OAuth!StoredForItsStarter, Onward
<1>13. CompletionFits(r)'
  <2>1. exchanged'[f] = 0
    BY <1>1 DEF FlowInv, Untouched
  <2>2. flow'[f].session = s /\ flow'[f].completing
    BY <1>1, <1>7, <1>9, <1>10 DEF Onward
  <2> QED
    BY <1>3, <2>1, <2>2 DEF CompletionFits
<1>14. \A d \in Completions : completion[d].pc # "idle" /\ completion[d].flow = r.flow => d = c
  BY <1>1, <1>3 DEF FlowInv, CompletionFits
<1>15. exchanged' \in [1 .. MaxFlows -> 0 .. 2] /\ kept' \in [1 .. MaxFlows -> SUBSET Sessions]
  BY <1>1, FlowTypes DEF FlowInv
<1> QED
  BY <1>1, <1>4, <1>10, <1>11, <1>12, <1>13, <1>14, <1>15, CompletionGoes

(* Consuming an attempt only moves it onward.                              *)
LEMMA ConsumedOnward ==
  ASSUME FlowInv, NEW c \in Completions, completion[c].pc # "idle", OAuth!Consumed(c)
  PROVE  /\ completion' = [completion EXCEPT ![c] = OAuth!Idle] /\ OAuth!Idle \in CompletionRecords
         /\ OAuth!Idle.pc = "idle" /\ Onward
         /\ \A f \in 1 .. MaxFlows : flow'[f].completing = flow[f].completing
<1>1. PICK f \in 1 .. MaxFlows : f = completion[c].flow
  BY DEF FlowInv, CompletionFits
<1>2. flow' = [flow EXCEPT ![f].consumed = TRUE, ![f].key = "gone"]
  BY <1>1 DEF OAuth!Consumed
<1>3. PICK m \in Attempts : m = flow[f]
  BY FlowTypes DEF FlowInv
<1>4. PICK n \in Attempts : n = [m EXCEPT !.consumed = TRUE, !.key = "gone"]
  BY DEF Attempts
<1>5. n.completing = m.completing /\ n.key = "gone" /\ n.session = m.session /\ n.created = m.created
  BY <1>4 DEF Attempts
<1>6. flow' = [flow EXCEPT ![f] = n]
  BY <1>2, <1>3, <1>4, FlowTypes DEF FlowInv
<1>7. \A g \in 1 .. MaxFlows : flow'[g] = IF g = f THEN n ELSE flow[g]
  BY <1>6, FlowTypes DEF FlowInv
<1>8. flow' \in [1 .. MaxFlows -> Attempts]
  BY <1>6, FlowTypes DEF FlowInv
<1>9. Onward /\ \A g \in 1 .. MaxFlows : flow'[g].completing = flow[g].completing
  BY <1>3, <1>5, <1>7, <1>8 DEF Onward
<1>10. OAuth!Idle \in CompletionRecords /\ OAuth!Idle.pc = "idle"
  BY DEF OAuth!Idle, CompletionRecords
<1> QED
  BY <1>9, <1>10 DEF OAuth!Consumed, OAuth!Go

(* A request to complete that ends, or goes on to its next step, while     *)
(* nothing is sent or stored.                                              *)
LEMMA FlowConsumed ==
  ASSUME FlowInv, NEW c \in Completions, completion[c].pc # "idle", OAuth!Consumed(c),
         UNCHANGED <<clock, cookie, signedIn, starts, exchanged, kept>>
  PROVE  FlowInv'
<1>1. PICK r \in CompletionRecords : r = OAuth!Idle
  BY ConsumedOnward
<1>2. r.pc = "idle" /\ completion' = [completion EXCEPT ![c] = r]
  BY <1>1, ConsumedOnward
<1>3. Onward /\ Untouched'
  BY ConsumedOnward DEF FlowInv, Untouched
<1>4. OAuth!CodeSentOnce' /\ OAuth!StoredForItsStarter'
  BY <1>3 DEF FlowInv, OAuth!CodeSentOnce, OAuth!StoredForItsStarter, Onward
<1>5. CompletionFits(r)'
  BY <1>2 DEF CompletionFits
<1>6. exchanged' \in [1 .. MaxFlows -> 0 .. 2] /\ kept' \in [1 .. MaxFlows -> SUBSET Sessions]
  BY FlowTypes DEF FlowInv
<1> QED
  BY <1>2, <1>3, <1>4, <1>5, <1>6, CompletionGoes

LEMMA FlowMoves ==
  ASSUME FlowInv, NEW c \in Completions, NEW r \in CompletionRecords, completion[c].pc # "idle",
         r.pc # "idle", r.flow = completion[c].flow,
         completion' = [completion EXCEPT ![c] = r], CompletionFits(r),
         UNCHANGED <<clock, cookie, signedIn, starts, flow, exchanged, kept>>
  PROVE  FlowInv'
<1>1. Onward
  BY FlowTypes DEF FlowInv, Onward
<1>2. Untouched' /\ OAuth!CodeSentOnce' /\ OAuth!StoredForItsStarter'
  BY DEF FlowInv, Untouched, OAuth!CodeSentOnce, OAuth!StoredForItsStarter
<1>3. CompletionFits(r)'
  BY DEF CompletionFits
<1>4. exchanged' \in [1 .. MaxFlows -> 0 .. 2] /\ kept' \in [1 .. MaxFlows -> SUBSET Sessions]
  BY FlowTypes DEF FlowInv
<1>5. \A d \in Completions : completion[d].pc # "idle" /\ completion[d].flow = r.flow => d = c
  BY DEF FlowInv, OneEach
<1> QED
  BY <1>1, <1>2, <1>3, <1>4, <1>5, CompletionGoes

(* The session of a completion is looked up.                               *)
LEMMA FlowChecks ==
  ASSUME FlowInv, NEW c \in Completions, OAuth!CheckSession(c)
  PROVE  FlowInv'
<1>1. /\ completion[c].pc \in {"begun", "exchanged", "validated"}
      /\ UNCHANGED <<clock, cookie, signedIn, starts, exchanged, kept>>
      /\ completion[c].pc # "idle"
  BY DEF OAuth!CheckSession, OAuth!Browser, OAuth!History
<1>2. CASE completion[c].session \notin signedIn
  <2>1. OAuth!Consumed(c)
    BY <1>1, <1>2 DEF OAuth!CheckSession, OAuth!CheckedAt
  <2> QED
    BY <1>1, <2>1, FlowConsumed
<1>3. CASE completion[c].session \in signedIn
  <2>1. /\ completion' = [completion EXCEPT ![c] = [completion[c] EXCEPT !.pc = OAuth!After[@]]]
        /\ UNCHANGED flow
    BY <1>3 DEF OAuth!CheckSession, OAuth!Go
  <2>2. PICK m \in CompletionRecords : m = completion[c]
    BY FlowTypes DEF FlowInv
  <2>3. PICK q \in {"exchange", "validate", "store"} :
               q = OAuth!After[m.pc] /\ (m.pc # "begun" => q # "exchange")
    BY <1>1, <2>2 DEF OAuth!After
  <2>4. PICK r \in CompletionRecords : r = [m EXCEPT !.pc = q]
    BY DEF CompletionRecords
  <2>5. r.pc = q /\ r.flow = m.flow /\ r.session = m.session /\ r.late = m.late
    BY <2>4 DEF CompletionRecords
  <2>6. completion' = [completion EXCEPT ![c] = r]
    <3>1. [m EXCEPT !.pc = OAuth!After[m.pc]] = r
      BY Zenon, <2>3, <2>4
    <3>2. completion' = [completion EXCEPT ![c] = [m EXCEPT !.pc = OAuth!After[m.pc]]]
      BY <2>1, <2>2
    <3> QED
      BY <3>1, <3>2
  <2>9. CompletionFits(completion[c])
    BY DEF FlowInv
  <2>10. m.late => m.session \notin signedIn
    BY <1>1, <2>2, <2>9 DEF CompletionFits
  <2>7. CompletionFits(completion[c]) /\ ~m.late
    BY <1>3, <2>2, <2>9, <2>10
  <2>11. r.late = FALSE
    BY <2>5, <2>7 DEF CompletionRecords
  <2>12. q = "exchange" => exchanged[r.flow] = 0
    BY <1>1, <2>2, <2>3, <2>5, <2>9 DEF CompletionFits
  <2>13. /\ r.flow \in 1 .. MaxFlows /\ r.session \in Sessions /\ flow[r.flow].session = r.session
         /\ flow[r.flow].completing
    BY <1>1, <2>2, <2>5, <2>9 DEF CompletionFits
  <2>14. r.pc # "begun"
    BY <2>3, <2>5
  <2>8. CompletionFits(r)
    BY <2>5, <2>11, <2>12, <2>13, <2>14 DEF CompletionFits
  <2> QED
    BY <1>1, <2>1, <2>2, <2>3, <2>5, <2>6, <2>8, FlowMoves
<1> QED
  BY <1>2, <1>3

(* The code is sent, by the only request that completes the flow.          *)
LEMMA FlowExchanges ==
  ASSUME FlowInv, NEW c \in Completions, OAuth!Exchange(c)
  PROVE  FlowInv'
<1>1. completion[c].pc = "exchange" /\ UNCHANGED <<clock, cookie, signedIn, starts, kept>>
      /\ completion[c].pc # "idle"
  BY DEF OAuth!Exchange, OAuth!Browser
<1>2. PICK f \in 1 .. MaxFlows : f = completion[c].flow
  BY <1>1 DEF FlowInv, CompletionFits
<1>3. CASE flow[f].answer = "failure"
  <2>1. OAuth!Consumed(c) /\ UNCHANGED exchanged
    BY <1>2, <1>3 DEF OAuth!Exchange
  <2> QED
    BY <1>1, <2>1, FlowConsumed
<1>4. CASE flow[f].answer # "failure"
  <2>1. exchanged' = [exchanged EXCEPT ![f] = @ + 1]
    BY <1>2, <1>4 DEF OAuth!Exchange
  <2>2. exchanged[f] = 0 /\ flow[f].completing /\ CompletionFits(completion[c])
    BY <1>1, <1>2 DEF FlowInv, CompletionFits
  <2>3. \A g \in 1 .. MaxFlows : exchanged'[g] = IF g = f THEN 1 ELSE exchanged[g]
    <3>1. exchanged[f] + 1 = 1
      BY <2>2
    <3>2. exchanged' = [exchanged EXCEPT ![f] = 1]
      BY <2>1, <3>1
    <3> QED
      BY <3>2, FlowTypes DEF FlowInv
  <2>4. exchanged' \in [1 .. MaxFlows -> 0 .. 2] /\ kept' \in [1 .. MaxFlows -> SUBSET Sessions]
    <3>1. \A g \in 1 .. MaxFlows : exchanged'[g] \in 0 .. 2
      BY <2>3, FlowTypes DEF FlowInv
    <3> QED
      BY <1>1, <2>1, <3>1, FlowTypes DEF FlowInv
  <2>5. OAuth!CodeSentOnce'
    BY <2>3 DEF FlowInv, OAuth!CodeSentOnce
  <2>6. \A g \in 1 .. MaxFlows : exchanged'[g] # exchanged[g] => completion[c].pc # "idle" /\ g = completion[c].flow
    BY <1>1, <1>2, <2>3
  <2>7. CASE OAuth!Consumed(c)
    <3>1. PICK r \in CompletionRecords : r = OAuth!Idle
      BY <1>1, <2>7, ConsumedOnward
    <3>2. r.pc = "idle" /\ completion' = [completion EXCEPT ![c] = r]
      BY <1>1, <2>7, <3>1, ConsumedOnward
    <3>3. Onward /\ \A g \in 1 .. MaxFlows : flow'[g].completing = flow[g].completing
      BY <1>1, <2>7, ConsumedOnward
    <3>4. Untouched'
      BY <1>1, <2>2, <2>3, <3>3 DEF FlowInv, Untouched
    <3>5. OAuth!StoredForItsStarter' /\ CompletionFits(r)'
      BY <1>1, <3>2, <3>3 DEF FlowInv, OAuth!StoredForItsStarter, Onward, CompletionFits
    <3> QED
      BY <1>1, <2>4, <2>5, <2>6, <3>2, <3>3, <3>4, <3>5, CompletionGoes
  <2>8. CASE ~OAuth!Consumed(c)
    <3>1. completion' = [completion EXCEPT ![c] = [completion[c] EXCEPT !.pc = "exchanged"]] /\ UNCHANGED flow
      BY <1>2, <1>4, <2>8 DEF OAuth!Exchange, OAuth!Go
    <3>2. PICK m \in CompletionRecords : m = completion[c]
      BY FlowTypes DEF FlowInv
    <3>3. PICK r \in CompletionRecords : r = [m EXCEPT !.pc = "exchanged"]
      BY DEF CompletionRecords
    <3>4. r.pc = "exchanged" /\ r.flow = m.flow /\ r.session = m.session /\ r.late = m.late
      BY <3>3 DEF CompletionRecords
    <3>5. completion' = [completion EXCEPT ![c] = r]
      BY <3>1, <3>2, <3>3
    <3>6. Onward
      BY <3>1, FlowTypes DEF FlowInv, Onward
    <3>7. Untouched'
      BY <1>1, <2>2, <2>3, <3>1 DEF FlowInv, Untouched
    <3>8. OAuth!StoredForItsStarter'
      BY <1>1, <3>1 DEF FlowInv, OAuth!StoredForItsStarter
    <3>9. CompletionFits(r)'
      BY <1>1, <2>2, <3>1, <3>2, <3>4 DEF CompletionFits
    <3>10. \A d \in Completions : completion[d].pc # "idle" /\ completion[d].flow = r.flow => d = c
      BY <1>1, <3>2, <3>4 DEF FlowInv, OneEach
    <3> QED
      BY <1>1, <2>4, <2>5, <2>6, <3>4, <3>5, <3>6, <3>7, <3>8, <3>9, <3>10, CompletionGoes
  <2> QED
    BY <2>7, <2>8
<1> QED
  BY <1>3, <1>4

LEMMA FlowValidates ==
  ASSUME FlowInv, NEW c \in Completions, OAuth!Validate(c)
  PROVE  FlowInv'
<1>1. /\ completion[c].pc = "validate" /\ UNCHANGED <<clock, cookie, signedIn, starts, exchanged, kept>>
      /\ completion[c].pc # "idle"
  BY DEF OAuth!Validate, OAuth!Browser, OAuth!History
<1>2. CASE OAuth!Consumed(c)
  BY <1>1, <1>2, FlowConsumed
<1>3. CASE ~OAuth!Consumed(c)
  <2>1. completion' = [completion EXCEPT ![c] = [completion[c] EXCEPT !.pc = "validated"]] /\ UNCHANGED flow
    BY <1>3 DEF OAuth!Validate, OAuth!Go
  <2>2. PICK m \in CompletionRecords : m = completion[c]
    BY FlowTypes DEF FlowInv
  <2>3. PICK r \in CompletionRecords : r = [m EXCEPT !.pc = "validated"]
    BY DEF CompletionRecords
  <2>4. r.pc = "validated" /\ r.flow = m.flow /\ r.session = m.session /\ r.late = m.late
    BY <2>3 DEF CompletionRecords
  <2>5. completion' = [completion EXCEPT ![c] = r]
    BY <2>1, <2>2, <2>3
  <2>6. CompletionFits(completion[c])
    BY DEF FlowInv
  <2>7. CompletionFits(r)
    BY <1>1, <2>2, <2>4, <2>6 DEF CompletionFits
  <2> QED
    BY <1>1, <2>1, <2>2, <2>4, <2>5, <2>7, FlowMoves
<1> QED
  BY <1>2, <1>3

(* The connection is stored for the session that started the flow.         *)
LEMMA FlowStores ==
  ASSUME FlowInv, NEW c \in Completions, OAuth!StoreConnection(c)
  PROVE  FlowInv'
<1>1. /\ completion[c].pc = "store" /\ completion[c].pc # "idle" /\ OAuth!Consumed(c)
      /\ UNCHANGED <<clock, cookie, signedIn, starts, exchanged>>
  BY DEF OAuth!StoreConnection, OAuth!Browser
<1>2. PICK f \in 1 .. MaxFlows : f = completion[c].flow
  BY <1>1 DEF FlowInv, CompletionFits
<1>3. PICK s \in Sessions : s = completion[c].session
  BY <1>1 DEF FlowInv, CompletionFits
<1>4. flow[f].completing /\ flow[f].session = s
  BY <1>1, <1>2, <1>3 DEF FlowInv, CompletionFits
<1>5. kept' = [kept EXCEPT ![f] = @ \cup {s}] \/ kept' = kept
  BY <1>2, <1>3 DEF OAuth!StoreConnection
<1>6. /\ kept' \in [1 .. MaxFlows -> SUBSET Sessions]
      /\ \A g \in 1 .. MaxFlows : kept'[g] = kept[g] \/ (g = f /\ kept'[g] = kept[g] \cup {s})
  <2>1. kept \in [1 .. MaxFlows -> SUBSET Sessions]
    BY FlowTypes DEF FlowInv
  <2>2. CASE kept' = [kept EXCEPT ![f] = @ \cup {s}]
    <3>1. PICK all \in SUBSET Sessions : all = kept[f] \cup {s}
      BY <2>1
    <3>2. kept' = [kept EXCEPT ![f] = all]
      BY <2>2, <3>1
    <3> QED
      BY <2>1, <3>1, <3>2
  <2> QED
    BY <1>5, <2>1, <2>2
<1>7. PICK r \in CompletionRecords : r = OAuth!Idle
  BY <1>1, ConsumedOnward
<1>8. r.pc = "idle" /\ completion' = [completion EXCEPT ![c] = r]
  BY <1>1, <1>7, ConsumedOnward
<1>9. Onward /\ \A g \in 1 .. MaxFlows : flow'[g].completing = flow[g].completing
  BY <1>1, ConsumedOnward
<1>10. Untouched'
  BY <1>1, <1>4, <1>6, <1>9 DEF FlowInv, Untouched
<1>11. OAuth!StoredForItsStarter' /\ OAuth!CodeSentOnce'
  BY <1>1, <1>4, <1>6, <1>9 DEF FlowInv, OAuth!StoredForItsStarter, OAuth!CodeSentOnce, Onward
<1>12. CompletionFits(r)' /\ exchanged' \in [1 .. MaxFlows -> 0 .. 2]
  BY <1>1, <1>8, FlowTypes DEF FlowInv, CompletionFits
<1> QED
  BY <1>1, <1>6, <1>8, <1>9, <1>10, <1>11, <1>12, CompletionGoes

LEMMA FlowInvNext == FlowInv /\ OAuth!FlowNext => FlowInv'
<1> SUFFICES ASSUME FlowInv, OAuth!FlowNext PROVE FlowInv'
  OBVIOUS
<1>1. CASE OAuth!Tick
  BY <1>1, FlowTick
<1>2. CASE \E s \in Sessions : OAuth!EndSession(s)
  BY <1>2, FlowEnds
<1>3. CASE \E s \in Sessions, f \in 1 .. MaxFlows : OAuth!StartFlow(f, s)
  BY <1>3, FlowStart
<1>4. CASE \E s \in Sessions, f \in 1 .. MaxFlows : OAuth!Callback(f, s)
  BY <1>4, FlowCallback
<1>5. CASE \E s \in Sessions, f \in 1 .. MaxFlows :
             /\ \E c \in Completions : completion[c].pc = "idle"
             /\ OAuth!BeginComplete(CHOOSE c \in Completions : completion[c].pc = "idle", f, s)
  <2>1. PICK s \in Sessions, f \in 1 .. MaxFlows :
             /\ \E c \in Completions : completion[c].pc = "idle"
             /\ OAuth!BeginComplete(CHOOSE c \in Completions : completion[c].pc = "idle", f, s)
    BY <1>5
  <2>2. PICK c \in Completions : c = CHOOSE d \in Completions : completion[d].pc = "idle"
    BY <2>1
  <2>3. OAuth!BeginComplete(c, f, s)
    BY <2>1, <2>2
  <2> QED
    BY <2>3, FlowBegins
<1>6. CASE \E c \in Completions : OAuth!CompletionStep(c)
  BY <1>6, FlowChecks, FlowExchanges, FlowValidates, FlowStores DEF OAuth!CompletionStep
<1> QED
  BY <1>1, <1>2, <1>3, <1>4, <1>5, <1>6 DEF OAuth!FlowNext

LEMMA FlowInvRests == FlowInv /\ UNCHANGED flowVars => FlowInv'
BY DEF flowVars, FlowInv, OAuth!FlowTypeOK, StartsRemembered, Untouched, OneEach, CompletionFits,
       OAuth!CodeSentOnce, OAuth!StoredForItsStarter, OAuth!StartsWithinLimit, OAuth!ActiveWithinLimit, OAuth!Active

LEMMA FlowInvHolds ==
  FlowInv => /\ OAuth!FlowTypeOK /\ OAuth!CodeSentOnce /\ OAuth!StoredForItsStarter
             /\ OAuth!StartsWithinLimit /\ OAuth!ActiveWithinLimit
BY DEF FlowInv

(* A completion about to store is never late.                              *)
LEMMA NoneLateStores ==
  FlowInv => \A c \in Completions : ~(completion[c].late /\ completion[c].pc = "store")
BY DEF FlowInv, CompletionFits

-----------------------------------------------------------------------------
(* Limits of logins.  What is reserved is what is verified, a failure is   *)
(* remembered for the whole of its window, and what is remembered and what *)
(* is reserved together bound what began within one window.                *)
Trials == 1 .. MaxTrials
TrialRecords ==
  [pc : {"new", "verifying", "succeeded", "failed", "refused"},
   address : Addresses \cup {None}, account : Accounts \cup {None}, at : 0 .. MaxClock]

Running == {l \in Trials : trial[l].pc = "verifying"}
OfTrial(l) == {trial[l].address, trial[l].account}
Counted(k, t) ==
  {l \in Trials : /\ trial[l].pc \in {"verifying", "failed"} /\ k \in OfTrial(l)
                  /\ trial[l].at \in t .. t + WindowMs - 1}

ReservedAreRunning == \A k \in Limits!Keys : reserved[k] = {l \in Running : k \in OfTrial(l)}
FailuresRemembered ==
  \A l \in Trials : trial[l].pc = "failed" =>
    \A k \in OfTrial(l) : \E e \in Nat : <<l, e>> \in failures[k] /\ trial[l].at + WindowMs <= e

LimitInv ==
  /\ Limits!LimitTypeOK
  /\ \A l \in Trials : trial[l].pc # "new" => trial[l].at <= time /\ OfTrial(l) \subseteq Limits!Keys
  /\ \A k \in Limits!Keys : IsFiniteSet(failures[k])
  /\ ReservedAreRunning /\ FailuresRemembered
  /\ slots = Cardinality(Running)
  /\ \A k \in Limits!Keys, t \in 0 .. MaxClock : Cardinality(Counted(k, t)) <= MaxAttempts

LEMMA LimitTypes ==
  ASSUME Limits!LimitTypeOK
  PROVE  /\ time \in 0 .. MaxClock /\ time \in Nat /\ slots \in 0 .. MaxSlots /\ slots \in Nat
         /\ reserved \in [Limits!Keys -> SUBSET Trials]
         /\ failures \in [Limits!Keys -> SUBSET (Trials \X Nat)]
         /\ trial \in [Trials -> TrialRecords]
         /\ \A l \in Trials : trial[l] \in TrialRecords /\ trial[l].at \in Nat
<1>1. /\ time \in 0 .. MaxClock /\ slots \in 0 .. MaxSlots
      /\ reserved \in [Limits!Keys -> SUBSET Trials]
      /\ failures \in [Limits!Keys -> SUBSET (Trials \X Nat)]
      /\ trial \in [Trials -> TrialRecords]
  BY DEF Limits!LimitTypeOK, Trials, TrialRecords
<1>2. time \in Nat /\ slots \in Nat
  BY <1>1
<1>3. \A l \in Trials : trial[l] \in TrialRecords /\ trial[l].at \in Nat
  BY <1>1 DEF TrialRecords
<1> QED
  BY <1>1, <1>2, <1>3

LEMMA LimitTypesBack ==
  ASSUME time' \in 0 .. MaxClock, slots' \in 0 .. MaxSlots,
         reserved' \in [Limits!Keys -> SUBSET Trials],
         failures' \in [Limits!Keys -> SUBSET (Trials \X Nat)],
         trial' \in [Trials -> TrialRecords]
  PROVE  Limits!LimitTypeOK'
BY DEF Limits!LimitTypeOK, Trials, TrialRecords

LEMMA TrialsAreFew ==
  /\ \A S \in SUBSET Trials : IsFiniteSet(S) /\ Cardinality(S) \in Nat
  /\ Running \in SUBSET Trials /\ \A k, t : Counted(k, t) \in SUBSET Trials
<1>1. ASSUME NEW S \in SUBSET Trials PROVE IsFiniteSet(S) /\ Cardinality(S) \in Nat
  BY FewNumbers, NumberAssumption DEF Trials
<1> QED
  BY <1>1 DEF Running, Counted

LEMMA LimitNumbers ==
  /\ MaxAttempts \in Nat /\ MaxSlots \in Nat /\ WindowMs \in Nat /\ MaxClock \in Nat
BY NumberAssumption

LEMMA LimitInvInit == Limits!LimitInit => LimitInv
<1> SUFFICES ASSUME Limits!LimitInit PROVE LimitInv
  OBVIOUS
<1>1. /\ time = 0 /\ slots = 0
      /\ reserved = [k \in Limits!Keys |-> {}] /\ failures = [k \in Limits!Keys |-> {}]
      /\ trial = [l \in Trials |-> Limits!Unseen]
  BY DEF Limits!LimitInit, Trials
<1>2. Limits!Unseen \in TrialRecords /\ Limits!Unseen.pc = "new"
  <2>1. 0 \in 0 .. MaxClock
    BY LimitNumbers
  <2> QED
    BY <2>1 DEF Limits!Unseen, TrialRecords
<1>3. \A l \in Trials : trial[l].pc = "new"
  BY <1>1, <1>2
<1>4. Limits!LimitTypeOK
  <2>1. 0 \in 0 .. MaxClock /\ 0 \in 0 .. MaxSlots
    BY LimitNumbers
  <2>2. /\ time \in 0 .. MaxClock /\ slots \in 0 .. MaxSlots
        /\ reserved \in [Limits!Keys -> SUBSET Trials]
        /\ failures \in [Limits!Keys -> SUBSET (Trials \X Nat)]
        /\ trial \in [Trials -> TrialRecords]
    BY <1>1, <1>2, <2>1
  <2> QED
    BY <2>2 DEF Limits!LimitTypeOK, Trials, TrialRecords
<1>5. \A l \in Trials : trial[l].pc # "new" => trial[l].at <= time /\ OfTrial(l) \subseteq Limits!Keys
  BY <1>3
<1>6. \A k \in Limits!Keys : IsFiniteSet(failures[k])
  BY <1>1, FS_EmptySet
<1>7. Running = {}
  BY <1>3 DEF Running
<1>8. ReservedAreRunning /\ FailuresRemembered
  BY <1>1, <1>3, <1>7 DEF ReservedAreRunning, FailuresRemembered
<1>9. slots = Cardinality(Running)
  BY <1>1, <1>7, FS_EmptySet
<1>10. ASSUME NEW k \in Limits!Keys, NEW t \in 0 .. MaxClock PROVE Cardinality(Counted(k, t)) <= MaxAttempts
  <2>1. Counted(k, t) = {}
    BY <1>3 DEF Counted
  <2> QED
    BY <2>1, FS_EmptySet, LimitNumbers
<1> QED
  BY <1>4, <1>5, <1>6, <1>8, <1>9, <1>10 DEF LimitInv

LEMMA LimitTicks ==
  ASSUME LimitInv, Limits!LimitTick
  PROVE  LimitInv'
<1>1. time < MaxClock /\ time' = time + 1 /\ UNCHANGED <<reserved, failures, slots, trial>>
  BY DEF Limits!LimitTick
<1>2. time \in Nat /\ MaxClock \in Nat
  BY LimitTypes, LimitNumbers DEF LimitInv
<1>3. time' \in 0 .. MaxClock
  BY <1>1, <1>2
<1>4. Limits!LimitTypeOK'
  BY <1>1, <1>3 DEF LimitInv, Limits!LimitTypeOK
<1>5. ASSUME NEW l \in Trials, trial'[l].pc # "new"
      PROVE  trial'[l].at <= time' /\ OfTrial(l)' \subseteq Limits!Keys
  <2>1. PICK x \in Nat : x = trial[l].at
    BY LimitTypes DEF LimitInv
  <2>2. x <= time /\ OfTrial(l) \subseteq Limits!Keys
    BY <1>1, <1>5, <2>1 DEF LimitInv
  <2>3. x <= time'
    BY <1>1, <1>2, <2>2
  <2> QED
    BY <1>1, <2>1, <2>2, <2>3 DEF OfTrial
<1>6. ReservedAreRunning' /\ FailuresRemembered'
  BY <1>1 DEF LimitInv, ReservedAreRunning, FailuresRemembered, Running, OfTrial
<1>7. \A k \in Limits!Keys : IsFiniteSet(failures'[k])
  BY <1>1 DEF LimitInv
<1>8. slots' = Cardinality(Running)'
  BY <1>1 DEF LimitInv, Running
<1>9. \A k \in Limits!Keys, t \in 0 .. MaxClock : Cardinality(Counted(k, t))' <= MaxAttempts
  BY <1>1 DEF LimitInv, Counted, OfTrial
<1> QED
  BY <1>4, <1>5, <1>6, <1>7, <1>8, <1>9 DEF LimitInv

(* What began within one window that contains this moment is reserved, or  *)
(* remembered: where a key is open, one more may begin.                    *)
LEMMA OpenLeavesRoom ==
  ASSUME LimitInv, NEW k \in Limits!Keys, NEW t \in 0 .. MaxClock, time \in t .. t + WindowMs - 1,
         Limits!Open(k)
  PROVE  Cardinality(Counted(k, t)) < MaxAttempts
<1> DEFINE F == {f \in failures[k] : f[2] > time}
           P == {l \in reserved[k] : trial[l].at + WindowMs > time}
           InF == {l \in Counted(k, t) : trial[l].pc = "failed"}
           InP == {l \in Counted(k, t) : trial[l].pc = "verifying"}
<1>1. Cardinality(F) + Cardinality(P) < MaxAttempts
  BY SameCount DEF Limits!Open, Limits!Failed, Limits!Pending
<1>2. IsFiniteSet(F) /\ Cardinality(F) \in Nat
  BY FS_Subset, FS_CardinalityType DEF LimitInv
<1>3. P \subseteq Trials
  BY LimitTypes DEF LimitInv
<1>4. IsFiniteSet(P) /\ Cardinality(P) \in Nat
  BY <1>3, TrialsAreFew
<1>5. ASSUME NEW l \in Counted(k, t) PROVE trial[l].at + WindowMs > time /\ trial[l].at + WindowMs \in Nat
  <2>1. PICK x \in Nat : x = trial[l].at
    BY LimitTypes DEF LimitInv, Counted
  <2>2. x \in t .. t + WindowMs - 1
    BY <2>1 DEF Counted
  <2>3. x + WindowMs > time /\ x + WindowMs \in Nat
    BY <2>2, LimitNumbers, LimitTypes DEF LimitInv
  <2> QED
    BY <2>1, <2>3
<1>6. InP \subseteq P
  BY <1>5 DEF LimitInv, ReservedAreRunning, Counted, Running
<1>7. Cardinality(InP) <= Cardinality(P) /\ IsFiniteSet(InP) /\ Cardinality(InP) \in Nat
  BY <1>4, <1>6, FS_Subset, FS_CardinalityType
<1>8. ASSUME NEW l \in InF PROVE \E e \in Nat : <<l, e>> \in F
  <2>1. PICK e \in Nat : <<l, e>> \in failures[k] /\ trial[l].at + WindowMs <= e
    BY DEF LimitInv, FailuresRemembered, Counted
  <2>2. PICK y \in Nat : y = trial[l].at + WindowMs
    BY <1>5
  <2>3. y > time /\ y <= e
    BY <1>5, <2>1, <2>2
  <2>4. time \in Nat
    BY LimitTypes DEF LimitInv
  <2>5. e > time
    BY <2>3, <2>4
  <2>6. <<l, e>>[2] = e
    OBVIOUS
  <2> QED
    BY <2>1, <2>5, <2>6
<1>9. PICK j \in [InF -> F] : \A l \in InF : \E e \in Nat : j[l] = <<l, e>>
  <2> DEFINE When(l) == CHOOSE e \in Nat : <<l, e>> \in F
  <2>1. \A l \in InF : When(l) \in Nat /\ <<l, When(l)>> \in F
    BY <1>8
  <2> HIDE DEF When
  <2>2. [l \in InF |-> <<l, When(l)>>] \in [InF -> F]
    BY <2>1
  <2> QED
    BY <2>1, <2>2
<1>10. \A l, m \in InF : j[l] = j[m] => l = m
  BY <1>9
<1>11. IsFiniteSet(InF) /\ Cardinality(InF) \in Nat /\ Cardinality(InF) <= Cardinality(F)
  BY <1>2, <1>10, OneByOne
<1>12. Counted(k, t) = InF \cup InP /\ InF \cap InP = {}
  BY DEF Counted
<1> HIDE DEF F, P, InF, InP
<1>13. Cardinality(InF \cup InP) = Cardinality(InF) + Cardinality(InP)
  <2>1. Cardinality(InF \cup InP) = Cardinality(InF) + Cardinality(InP) - Cardinality(InF \cap InP)
    BY <1>7, <1>11, FS_Union
  <2>2. Cardinality(InF \cap InP) = 0
    BY <1>12, FS_EmptySet
  <2> QED
    BY <1>7, <1>11, <2>1, <2>2
<1>14. Cardinality(InF) + Cardinality(InP) < MaxAttempts
  BY <1>1, <1>2, <1>4, <1>7, <1>11, LimitNumbers
<1> QED
  BY <1>12, <1>13, <1>14

(* A login that arrives is refused, or reserves all it needs.              *)
LEMMA LimitArrives ==
  ASSUME LimitInv, NEW l \in Trials, Limits!Arrive(l)
  PROVE  LimitInv'
<1>1. trial[l].pc = "new" /\ UNCHANGED <<time, failures>>
  BY DEF Limits!Arrive
<1>2. PICK a \in Addresses, c \in Accounts :
        /\ reserved' = Limits!Held(l, a, c)
        /\ slots' = IF Limits!Open(a) /\ Limits!Open(c) /\ slots < MaxSlots THEN slots + 1 ELSE slots
        /\ trial' = [trial EXCEPT ![l] =
             [pc |-> IF Limits!Open(a) /\ Limits!Open(c) /\ slots < MaxSlots THEN "verifying" ELSE "refused",
              address |-> a, account |-> c, at |-> time]]
  BY DEF Limits!Arrive
<1>3. PICK admitted \in BOOLEAN : admitted = (Limits!Open(a) /\ Limits!Open(c) /\ slots < MaxSlots)
  OBVIOUS
<1>4. PICK r \in TrialRecords :
        r = [pc |-> IF admitted THEN "verifying" ELSE "refused", address |-> a, account |-> c, at |-> time]
  BY LimitTypes DEF LimitInv, TrialRecords
<1>5. r.address = a /\ r.account = c /\ r.at = time /\ r.pc = IF admitted THEN "verifying" ELSE "refused"
  BY <1>4
<1>6. trial' = [trial EXCEPT ![l] = r] /\ slots' = IF admitted THEN slots + 1 ELSE slots
  BY <1>2, <1>3, <1>4
<1>7. \A k \in Limits!Keys : reserved'[k] = IF k \in {a, c} /\ admitted THEN reserved[k] \cup {l} ELSE reserved[k]
  BY <1>2, <1>3 DEF Limits!Held
<1>8. trial' \in [Trials -> TrialRecords] /\ \A m \in Trials : trial'[m] = IF m = l THEN r ELSE trial[m]
  BY <1>6, LimitTypes DEF LimitInv
<1>9. a \in Limits!Keys /\ c \in Limits!Keys
  BY DEF Limits!Keys
<1>10. /\ OfTrial(l)' = {a, c}
       /\ \A m \in Trials : m # l => OfTrial(m)' = OfTrial(m)
  BY <1>5, <1>8 DEF OfTrial
<1>11. Limits!LimitTypeOK'
  <2>1. slots' \in 0 .. MaxSlots
    <3>1. slots \in 0 .. MaxSlots /\ MaxSlots \in Nat
      BY LimitTypes, LimitNumbers DEF LimitInv
    <3>2. CASE admitted
      <4>1. slots < MaxSlots /\ slots' = slots + 1
        BY <1>3, <1>6, <3>2
      <4> QED
        BY <3>1, <4>1
    <3>3. CASE ~admitted
      BY <1>6, <3>1, <3>3
    <3> QED
      BY <3>2, <3>3
  <2>2. reserved' \in [Limits!Keys -> SUBSET Trials]
    <3>1. reserved' = [k \in Limits!Keys |-> reserved'[k]]
      BY <1>2 DEF Limits!Held
    <3>2. \A k \in Limits!Keys : reserved'[k] \in SUBSET Trials
      BY <1>7, LimitTypes DEF LimitInv
    <3> QED
      BY <3>1, <3>2
  <2>3. time' \in 0 .. MaxClock /\ failures' \in [Limits!Keys -> SUBSET (Trials \X Nat)]
    BY <1>1, LimitTypes DEF LimitInv
  <2> QED
    BY <1>8, <2>1, <2>2, <2>3, LimitTypesBack
<1>12. ASSUME NEW m \in Trials, trial'[m].pc # "new"
       PROVE  trial'[m].at <= time' /\ OfTrial(m)' \subseteq Limits!Keys
  <2>1. CASE m = l
    <3>1. time <= time
      BY LimitTypes DEF LimitInv
    <3> QED
      BY <1>1, <1>5, <1>8, <1>9, <1>10, <2>1, <3>1
  <2>2. CASE m # l
    BY <1>1, <1>8, <1>10, <1>12, <2>2 DEF LimitInv
  <2> QED
    BY <2>1, <2>2
<1>13. \A k \in Limits!Keys : IsFiniteSet(failures'[k])
  BY <1>1 DEF LimitInv
<1>14. l \notin Running /\ Running' = IF admitted THEN Running \cup {l} ELSE Running
  BY <1>1, <1>5, <1>8 DEF Running
<1>15. ReservedAreRunning'
  <2>1. ASSUME NEW k \in Limits!Keys PROVE reserved'[k] = {m \in Running' : k \in OfTrial(m)'}
    <3>1. reserved[k] = {m \in Running : k \in OfTrial(m)}
      BY DEF LimitInv, ReservedAreRunning
    <3>2. \A m \in Running : m # l /\ OfTrial(m)' = OfTrial(m)
      BY <1>10, <1>14 DEF Running
    <3>3. CASE admitted
      BY <1>7, <1>10, <1>14, <3>1, <3>2, <3>3
    <3>4. CASE ~admitted
      BY <1>7, <1>10, <1>14, <3>1, <3>2, <3>4
    <3> QED
      BY <3>3, <3>4
  <2> QED
    BY <2>1 DEF ReservedAreRunning
<1>16. FailuresRemembered'
  <2>1. \A m \in Trials : trial'[m].pc = "failed" => m # l
    BY <1>5, <1>8
  <2> QED
    BY <1>1, <1>8, <1>10, <2>1 DEF LimitInv, FailuresRemembered
<1>17. slots' = Cardinality(Running')
  <2>1. Cardinality(Running \cup {l}) = Cardinality(Running) + 1
    BY <1>14, TrialsAreFew, FS_AddElement
  <2> QED
    BY <1>6, <1>14, <2>1 DEF LimitInv
<1>18. ASSUME NEW k \in Limits!Keys, NEW t \in 0 .. MaxClock
       PROVE  Cardinality(Counted(k, t)') <= MaxAttempts
  <2>1. Cardinality(Counted(k, t)) <= MaxAttempts /\ l \notin Counted(k, t)
    BY <1>1 DEF LimitInv, Counted
  <2>2. \A m \in Trials : m # l => (m \in Counted(k, t)' <=> m \in Counted(k, t))
    BY <1>8, <1>10 DEF Counted
  <2>3. Counted(k, t)' \subseteq Trials /\ Counted(k, t) \subseteq Trials
    BY DEF Counted
  <2>4. CASE l \in Counted(k, t)'
    <3>1. admitted /\ k \in {a, c} /\ time \in t .. t + WindowMs - 1
      BY <1>5, <1>8, <1>10, <2>4 DEF Counted
    <3>2. Limits!Open(k)
      BY <1>3, <3>1
    <3>3. Cardinality(Counted(k, t)) < MaxAttempts
      BY <3>1, <3>2, OpenLeavesRoom
    <3>4. Counted(k, t)' = Counted(k, t) \cup {l}
      BY <2>2, <2>3, <2>4
    <3>5. IsFiniteSet(Counted(k, t)) /\ Cardinality(Counted(k, t)) \in Nat
      BY TrialsAreFew
    <3> QED
      BY <3>3, <3>4, <3>5, OneMore, LimitNumbers
  <2>5. CASE l \notin Counted(k, t)'
    <3>1. Counted(k, t)' = Counted(k, t)
      BY <2>1, <2>2, <2>3, <2>5
    <3> QED
      BY <2>1, <3>1
  <2> QED
    BY <2>4, <2>5
<1> QED
  BY <1>11, <1>12, <1>13, <1>15, <1>16, <1>17, <1>18 DEF LimitInv

(* A login that is verified gives back what it reserved; a failure stays.  *)
LEMMA LimitVerified ==
  ASSUME LimitInv, NEW l \in Trials, Limits!Verified(l)
  PROVE  LimitInv'
<1>1. trial[l].pc = "verifying" /\ time' = time /\ slots' = slots - 1
      /\ reserved' = [k \in Limits!Keys |-> reserved[k] \ {l}]
  BY DEF Limits!Verified, Limits!Released
<1>2. PICK pc \in {"succeeded", "failed"} :
        /\ trial' = [trial EXCEPT ![l].pc = pc]
        /\ failures' = [k \in Limits!Keys |-> IF pc = "failed" /\ k \in OfTrial(l)
                                              THEN failures[k] \cup {<<l, time + WindowMs>>} ELSE failures[k]]
  BY DEF Limits!Verified, OfTrial
<1>3. PICK m \in TrialRecords : m = trial[l]
  BY LimitTypes DEF LimitInv
<1>4. PICK r \in TrialRecords : r = [m EXCEPT !.pc = pc]
  BY DEF TrialRecords
<1>5. r.pc = pc /\ r.address = m.address /\ r.account = m.account /\ r.at = m.at
  BY <1>4 DEF TrialRecords
<1>6. trial' = [trial EXCEPT ![l] = r]
  BY <1>2, <1>3, <1>4
<1>7. trial' \in [Trials -> TrialRecords] /\ \A i \in Trials : trial'[i] = IF i = l THEN r ELSE trial[i]
  BY <1>6, LimitTypes DEF LimitInv
<1>8. \A i \in Trials : trial'[i].at = trial[i].at /\ OfTrial(i)' = OfTrial(i)
  BY <1>3, <1>5, <1>7 DEF OfTrial
<1>9. l \in Running /\ Running' = Running \ {l}
  BY <1>1, <1>5, <1>7 DEF Running
<1>10. IsFiniteSet(Running) /\ slots = Cardinality(Running) /\ slots \in Nat /\ slots <= MaxSlots /\ MaxSlots \in Nat
  BY TrialsAreFew, LimitTypes, LimitNumbers DEF LimitInv
<1>11. Cardinality(Running \ {l}) = slots - 1 /\ Cardinality(Running \ {l}) \in Nat
  BY <1>9, <1>10, FS_RemoveElement, FS_CardinalityType
<1>12. slots' = Cardinality(Running') /\ slots' \in 0 .. MaxSlots
  BY <1>1, <1>9, <1>10, <1>11
<1>13. time \in Nat /\ WindowMs \in Nat /\ time + WindowMs \in Nat
  BY LimitTypes, LimitNumbers DEF LimitInv
<1>14. Limits!LimitTypeOK'
  <2>1. reserved' \in [Limits!Keys -> SUBSET Trials]
    BY <1>1, LimitTypes DEF LimitInv
  <2>2. \A k \in Limits!Keys : failures'[k] \in SUBSET (Trials \X Nat)
    BY <1>2, <1>13, LimitTypes DEF LimitInv
  <2>3. failures' \in [Limits!Keys -> SUBSET (Trials \X Nat)]
    BY <1>2, <2>2
  <2>4. time' \in 0 .. MaxClock
    BY <1>1, LimitTypes DEF LimitInv
  <2> QED
    BY <1>7, <1>12, <2>1, <2>3, <2>4, LimitTypesBack
<1>15. ASSUME NEW i \in Trials, trial'[i].pc # "new"
       PROVE  trial'[i].at <= time' /\ OfTrial(i)' \subseteq Limits!Keys
  <2>1. trial[i].pc # "new"
    BY <1>1, <1>7, <1>15
  <2> QED
    BY <1>1, <1>8, <2>1 DEF LimitInv
<1>16. ASSUME NEW k \in Limits!Keys PROVE IsFiniteSet(failures'[k])
  <2>1. IsFiniteSet(failures[k])
    BY DEF LimitInv
  <2>2. IsFiniteSet(failures[k] \cup {<<l, time + WindowMs>>})
    BY <2>1, FS_AddElement
  <2> QED
    BY <1>2, <2>1, <2>2
<1>17. ReservedAreRunning'
  <2>1. ASSUME NEW k \in Limits!Keys PROVE reserved'[k] = {i \in Running' : k \in OfTrial(i)'}
    <3>1. reserved[k] = {i \in Running : k \in OfTrial(i)}
      BY DEF LimitInv, ReservedAreRunning
    <3>2. \A i \in Running : OfTrial(i)' = OfTrial(i)
      BY <1>8 DEF Running
    <3> QED
      BY <1>1, <1>9, <3>1, <3>2
  <2> QED
    BY <2>1 DEF ReservedAreRunning
<1>18. ASSUME NEW i \in Trials, trial'[i].pc = "failed", NEW k \in OfTrial(i)
       PROVE  \E e \in Nat : <<i, e>> \in failures'[k] /\ trial[i].at + WindowMs <= e
  <2>1. trial[i].pc # "new" /\ k \in Limits!Keys
    BY <1>1, <1>7, <1>18 DEF LimitInv
  <2>2. CASE i = l
    <3>1. PICK x \in Nat : x = trial[l].at
      BY LimitTypes DEF LimitInv
    <3>2. x <= time
      BY <2>1, <2>2, <3>1 DEF LimitInv
    <3>3. x + WindowMs <= time + WindowMs
      BY <1>13, <3>2
    <3>4. <<l, time + WindowMs>> \in failures'[k]
      BY <1>2, <1>5, <1>7, <1>18, <2>1, <2>2
    <3> QED
      BY <1>13, <2>2, <3>1, <3>3, <3>4
  <2>3. CASE i # l
    <3>1. PICK e \in Nat : <<i, e>> \in failures[k] /\ trial[i].at + WindowMs <= e
      BY <1>7, <1>18, <2>3 DEF LimitInv, FailuresRemembered
    <3>2. <<i, e>> \in failures'[k]
      BY <1>2, <2>1, <3>1
    <3> QED
      BY <3>1, <3>2
  <2> QED
    BY <2>2, <2>3
<1>19. FailuresRemembered'
  BY <1>8, <1>18 DEF FailuresRemembered
<1>20. ASSUME NEW k \in Limits!Keys, NEW t \in 0 .. MaxClock
       PROVE  Cardinality(Counted(k, t)') <= MaxAttempts
  <2>1. Counted(k, t)' \subseteq Counted(k, t)
    BY <1>1, <1>7, <1>8 DEF Counted
  <2>2. /\ Cardinality(Counted(k, t)) <= MaxAttempts
        /\ IsFiniteSet(Counted(k, t)) /\ Cardinality(Counted(k, t)) \in Nat
    BY TrialsAreFew DEF LimitInv
  <2>3. Cardinality(Counted(k, t)') <= Cardinality(Counted(k, t)) /\ Cardinality(Counted(k, t)') \in Nat
    BY <2>1, <2>2, FS_Subset, FS_CardinalityType
  <2> QED
    BY <2>2, <2>3, LimitNumbers
<1> QED
  BY <1>12, <1>14, <1>15, <1>16, <1>17, <1>19, <1>20 DEF LimitInv

LEMMA LimitInvNext == LimitInv /\ Limits!LimitNext => LimitInv'
<1>1. Limits!LimitNext => Limits!LimitTick \/ \E l \in Trials : Limits!Arrive(l) \/ Limits!Verified(l)
  BY DEF Limits!LimitNext, Trials
<1> QED
  BY <1>1, LimitTicks, LimitArrives, LimitVerified

LEMMA LimitInvRests == LimitInv /\ UNCHANGED limitVars => LimitInv'
BY DEF limitVars, LimitInv, Limits!LimitTypeOK, ReservedAreRunning, FailuresRemembered, Running, OfTrial, Counted

LEMMA LimitInvHolds ==
  LimitInv => Limits!LimitTypeOK /\ Limits!AttemptsWithinLimit /\ Limits!HeldWhileVerifying
<1> SUFFICES ASSUME LimitInv PROVE Limits!AttemptsWithinLimit /\ Limits!HeldWhileVerifying
  BY DEF LimitInv
<1>1. Limits!AttemptsWithinLimit
  BY SameCount DEF LimitInv, Limits!AttemptsWithinLimit, Counted, OfTrial, Trials
<1>2. slots = Limits!Cardinality({l \in 1 .. MaxTrials : trial[l].pc = "verifying"})
  BY SameCount DEF LimitInv, Running, Trials
<1>3. UNION {reserved[k] : k \in Limits!Keys} \subseteq {l \in 1 .. MaxTrials : trial[l].pc = "verifying"}
  BY DEF LimitInv, ReservedAreRunning, Running, Trials
<1> QED
  BY <1>1, <1>2, <1>3 DEF Limits!HeldWhileVerifying

-----------------------------------------------------------------------------
(* The services share no state: what one of them does leaves the           *)
(* invariants of the others alone.                                         *)
ServicesInv ==
  ConnectionInv /\ OrgInv /\ FlowInv /\ LimitInv /\ AccountInv /\ PasswordInv

LEMMA ServicesInvInit == Init => ServicesInv
BY ConnectionInvInit, OrgInvInit, FlowInvInit, LimitInvInit, AccountInvInit, PasswordInvInit
   DEF Init, ServicesInv

LEMMA ServicesInvNext == ServicesInv /\ [Next]_vars => ServicesInv'
<1> SUFFICES ASSUME ServicesInv, [Next]_vars PROVE ServicesInv'
  OBVIOUS
<1>1. ConnectionInv /\ OrgInv /\ FlowInv /\ LimitInv /\ AccountInv /\ PasswordInv
  BY DEF ServicesInv
<1>2. CASE ConnectionStep(Connections!ConnectionNext)
  BY <1>1, <1>2, ConnectionInvNext, OrgInvRests, FlowInvRests, LimitInvRests, AccountInvRests, PasswordInvRests
     DEF ConnectionStep, ServicesInv
<1>3. CASE OrgStep(Orgs!OrgNext)
  BY <1>1, <1>3, ConnectionInvRests, OrgInvNext, FlowInvRests, LimitInvRests, AccountInvRests, PasswordInvRests
     DEF OrgStep, ServicesInv
<1>4. CASE FlowStep(OAuth!FlowNext)
  BY <1>1, <1>4, ConnectionInvRests, OrgInvRests, FlowInvNext, LimitInvRests, AccountInvRests, PasswordInvRests
     DEF FlowStep, ServicesInv
<1>5. CASE LimitStep(Limits!LimitNext)
  BY <1>1, <1>5, ConnectionInvRests, OrgInvRests, FlowInvRests, LimitInvNext, AccountInvRests, PasswordInvRests
     DEF LimitStep, ServicesInv
<1>6. CASE AccountStep(People!AccountNext)
  BY <1>1, <1>6, ConnectionInvRests, OrgInvRests, FlowInvRests, LimitInvRests, AccountInvNext, PasswordInvRests
     DEF AccountStep, ServicesInv
<1>7. CASE AccessStep(Access!AccessNext)
  BY <1>1, <1>7, ConnectionInvRests, OrgInvRests, FlowInvRests, LimitInvRests, AccountInvRests, PasswordInvNext
     DEF AccessStep, ServicesInv
<1>8. CASE UNCHANGED vars
  BY <1>1, <1>8, ConnectionInvRests, OrgInvRests, FlowInvRests, LimitInvRests, AccountInvRests, PasswordInvRests
     DEF vars, ServicesInv
<1> QED
  BY <1>2, <1>3, <1>4, <1>5, <1>6, <1>7, <1>8 DEF Next

LEMMA ServicesInvariance == Spec => []ServicesInv
BY ServicesInvInit, ServicesInvNext, PTL DEF Spec

(* Requests run on the connection they pinned with credentials of their    *)
(* own, the org cache answers each reader at least what he changed, and an *)
(* OAuth login is exchanged once and stored for its starter, within the    *)
(* limits.                                                                 *)
THEOREM ConnectionsStayOwn == Spec => []ConnectionsAreOwn
<1>1. ServicesInv => ConnectionsAreOwn
  BY ConnectionInvHolds, OrgInvHolds, FlowInvHolds DEF ServicesInv, ConnectionsAreOwn
<1> QED
  BY <1>1, ServicesInvariance, PTL

(* However many logins run at once, the limits hold; an administrator      *)
(* remains, and a session knows the password that is in force.             *)
THEOREM SignInsStay == Spec => []SignInsHold
<1>1. ServicesInv => SignInsHold
  BY LimitInvHolds, AccountInvHolds, PasswordInvHolds DEF ServicesInv, SignInsHold
<1> QED
  BY <1>1, ServicesInvariance, PTL

LEMMA PinsOnlyKept ==
  ASSUME ServicesInv, [Next]_vars
  PROVE  [\A r \in Requests, a \in Aliases :
            request[r].pins[a] # None => request'[r].pins[a] = request[r].pins[a]]_(Connections!connectionVars)
<1>1. UNCHANGED connectionVars \/ ConnectionStep(Connections!ConnectionNext)
  BY DEF Next, vars, OrgStep, FlowStep, LimitStep, AccountStep, AccessStep
<1>2. CASE UNCHANGED connectionVars
  BY <1>2 DEF connectionVars, Connections!connectionVars
<1>3. CASE ConnectionStep(Connections!ConnectionNext)
  BY <1>3, PinsKeptBy DEF ServicesInv, ConnectionStep, PinsSame
<1> QED
  BY <1>1, <1>2, <1>3

LEMMA OnlySignedInStore ==
  ASSUME ServicesInv
  PROVE  [\A c \in Completions : completion[c].late /\ completion[c].pc = "store" => UNCHANGED kept]_(OAuth!flowVars)
BY NoneLateStores DEF ServicesInv

(* A request keeps the connection it pinned, and a completion stores none  *)
(* once its session is known to have ended.                                *)
THEOREM NothingLateIsDone == Spec => LateIsNothing
<1>1. Spec => Connections!PinsStay
  <2>1. ServicesInv /\ [Next]_vars
        => [\A r \in Requests, a \in Aliases :
              request[r].pins[a] # None => request'[r].pins[a] = request[r].pins[a]]_(Connections!connectionVars)
    BY PinsOnlyKept
  <2> QED
    BY <2>1, ServicesInvariance, PTL DEF Spec, Connections!PinsStay
<1>2. Spec => OAuth!EndedStoresNothing
  <2>1. ServicesInv
        => [\A c \in Completions : completion[c].late /\ completion[c].pc = "store" => UNCHANGED kept]_(OAuth!flowVars)
    BY OnlySignedInStore
  <2> QED
    BY <2>1, ServicesInvariance, PTL DEF Spec, OAuth!EndedStoresNothing
<1> QED
  BY <1>1, <1>2 DEF LateIsNothing

=============================================================================
