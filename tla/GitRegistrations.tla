-------------------------- MODULE GitRegistrations --------------------------
(***************************************************************************)
(* GitRegistrationService: the saved branches of a user. Synchronisations  *)
(* and preparations of one branch run one after the other; each is         *)
(* admitted at once or refused. The work itself (GitImports, the remote)   *)
(* succeeds or fails.                                                      *)
(***************************************************************************)
EXTENDS KeyedTails, FiniteSets, FiniteSetsExt

CONSTANTS Calls,            \* sync and prepare calls; the keys are the branches
          Owner(_),         \* the user a branch belongs to
          PerOwner, Server, \* how many calls are admitted
          Failures          \* statements that may fail

VARIABLES status,    \* git_registrations.status, "none" before, "gone" after its life
          call,      \* per call: where it is and its branch
          removing,  \* branches a removal has checked and is about to delete
          admitted,  \* admissions, per owner
          shut,      \* "open", "closing" or "closed"
          failures

registrationVars == <<tail, prior, status, call, removing, admitted, shut, failures>>

Owners == {Owner(k) : k \in Keys}
NoKey == "none"
Steps == {"out", "insert", "waiting", "work", "ready", "failed"}

RegistrationTypeOK ==
  /\ tail \in [Keys -> Calls \cup {NoParty}] /\ prior \in [Calls -> Calls \cup {NoParty}]
  /\ status \in [Keys -> {"none", "PENDING", "SYNCING", "READY", "FAILED", "gone"}]
  /\ call \in [Calls -> [pc : Steps, key : Keys \cup {NoKey}]]
  /\ removing \subseteq Keys
  /\ admitted \in [Owners -> Nat]
  /\ shut \in {"open", "closing", "closed"} /\ failures \in 0 .. Failures

RegistrationInit ==
  /\ tail = [k \in Keys |-> NoParty] /\ prior = [c \in Calls |-> NoParty]
  /\ status = [k \in Keys |-> "none"]
  /\ call = [c \in Calls |-> [pc |-> "out", key |-> NoKey]]
  /\ removing = {} /\ admitted = [o \in Owners |-> 0]
  /\ shut = "open" /\ failures = 0

Goto(c, pc) == call' = [call EXCEPT ![c].pc = pc]
Fault == failures < Failures /\ failures' = failures + 1

MayEnter(o) == admitted[o] < PerOwner /\ MapThenSumSet(LAMBDA q : admitted[q], Owners) < Server

(* sync, prepare up to the first await: admitted, and last in line.        *)
Enter(c, k) ==
  /\ shut = "open" /\ MayEnter(Owner(k))
  /\ admitted' = [admitted EXCEPT ![Owner(k)] = @ + 1]
  /\ Join(k, c)
  /\ call' = [call EXCEPT ![c] = [pc |-> "waiting", key |-> k]]
  /\ UNCHANGED <<status, removing, shut, failures>>

SyncOrPrepare(c, k) == call[c].pc = "out" /\ status[k] # "none" /\ Enter(c, k)

(* register inserts the row once the repository answered, and goes on with *)
(* sync; refused there, the row stays as it is.                            *)
Register(c, k) ==
  /\ call[c].pc = "out" /\ shut = "open" /\ status[k] = "none"
  /\ status' = [status EXCEPT ![k] = "PENDING"]
  /\ call' = [call EXCEPT ![c] = [pc |-> "insert", key |-> k]]
  /\ UNCHANGED <<tail, prior, removing, admitted, shut, failures>>

Registered(c) ==
  /\ call[c].pc = "insert"
  /\ \/ Enter(c, call[c].key)
     \/ /\ shut # "open" \/ ~MayEnter(Owner(call[c].key))
        /\ call' = [call EXCEPT ![c] = [pc |-> "out", key |-> NoKey]]
        /\ UNCHANGED <<tail, prior, status, removing, admitted, shut, failures>>

Write(k, s) == status' = [status EXCEPT ![k] = IF @ = "gone" THEN "gone" ELSE s]

(* Mutant: a call leaves twice.                                            *)
LeftTwice(c) ==
  /\ Leave(call[c].key, c)
  /\ admitted' = [admitted EXCEPT ![Owner(call[c].key)] = @ - 2]
  /\ call' = [call EXCEPT ![c] = [pc |-> "out", key |-> NoKey]]

(* The finally of a call                                                   *)
Left(c) ==
  /\ Leave(call[c].key, c)
  /\ admitted' = [admitted EXCEPT ![Owner(call[c].key)] = @ - 1]
  /\ call' = [call EXCEPT ![c] = [pc |-> "out", key |-> NoKey]]

(* Mutant: a refusal by the service that closes keeps the admission.       *)
LeftAdmitted(c) ==
  /\ Leave(call[c].key, c)
  /\ call' = [call EXCEPT ![c] = [pc |-> "out", key |-> NoKey]] /\ UNCHANGED admitted

Refused(c) == Left(c)

(* Mutant: calls in line when the service closes are forgotten.            *)
MarkOpen(c) ==
  /\ call[c].pc = "waiting" /\ First(c) /\ shut = "open" /\ status[call[c].key] # "gone"
  /\ Write(call[c].key, "SYNCING") /\ Goto(c, "work")
  /\ UNCHANGED <<tail, prior, admitted, failures, removing, shut>>

Mark(c) ==
  /\ call[c].pc = "waiting" /\ First(c)
  /\ IF shut # "open" \/ status[call[c].key] = "gone"
     THEN Refused(c) /\ UNCHANGED <<status, failures>>
     ELSE \/ /\ Write(call[c].key, "SYNCING") /\ Goto(c, "work")
             /\ UNCHANGED <<tail, prior, admitted, failures>>
          \/ Fault /\ Left(c) /\ UNCHANGED status
  /\ UNCHANGED <<removing, shut>>

Work(c) ==
  /\ call[c].pc = "work"
  /\ \E next \in {"ready", "failed"} : Goto(c, next)
  /\ UNCHANGED <<tail, prior, status, removing, admitted, shut, failures>>

Ready(c) ==
  /\ call[c].pc = "ready"
  /\ \/ Write(call[c].key, "READY") /\ Left(c) /\ UNCHANGED failures
     \/ Fault /\ Goto(c, "failed") /\ UNCHANGED <<tail, prior, status, admitted>>
  /\ UNCHANGED <<removing, shut>>

(* Mutant: the error is passed on, the row left as it is.                  *)
FailedUnwritten(c) ==
  /\ call[c].pc = "failed" /\ Left(c) /\ UNCHANGED <<status, removing, shut, failures>>

Failed(c) ==
  /\ call[c].pc = "failed"
  /\ \/ Write(call[c].key, "FAILED") /\ UNCHANGED failures
     \/ Fault /\ UNCHANGED status
  /\ Left(c)
  /\ UNCHANGED <<removing, shut>>

(* remove looks for a tail, then deletes the row.                          *)
Remove(k) ==
  /\ status[k] \notin {"none", "gone"} /\ ~Tailed(k) /\ k \notin removing
  /\ removing' = removing \cup {k}
  /\ UNCHANGED <<tail, prior, status, call, admitted, shut, failures>>

Removed(k) ==
  /\ k \in removing /\ removing' = removing \ {k}
  /\ status' = [status EXCEPT ![k] = "gone"]
  /\ UNCHANGED <<tail, prior, call, admitted, shut, failures>>

Shut ==
  /\ shut = "open" /\ shut' = "closing"
  /\ UNCHANGED <<tail, prior, status, call, removing, admitted, failures>>

(* Mutant: close does not wait.                                            *)
NobodyWaited == TRUE

NobodyWorks == \A k \in Keys : ~Tailed(k)

ShutEnds ==
  /\ shut = "closing" /\ NobodyWorks /\ shut' = "closed"
  /\ UNCHANGED <<tail, prior, status, call, removing, admitted, failures>>

(* The process ends, closed or killed; the next one fails what it finds.   *)
Recover ==
  /\ (shut = "closed" /\ UNCHANGED failures) \/ Fault
  /\ status' = [k \in Keys |-> IF status[k] \in {"PENDING", "SYNCING"} THEN "FAILED" ELSE status[k]]
  /\ tail' = [k \in Keys |-> NoParty] /\ prior' = [c \in Calls |-> NoParty]
  /\ call' = [c \in Calls |-> [pc |-> "out", key |-> NoKey]]
  /\ removing' = {} /\ admitted' = [o \in Owners |-> 0] /\ shut' = "open"

GoOn(c) == Registered(c) \/ Mark(c) \/ Work(c) \/ Ready(c) \/ Failed(c)

RegistrationNext ==
  \/ \E c \in Calls : GoOn(c) \/ \E k \in Keys : SyncOrPrepare(c, k) \/ Register(c, k)
  \/ \E k \in Keys : Remove(k) \/ Removed(k)
  \/ Shut \/ ShutEnds \/ Recover

RegistrationSpec == RegistrationInit /\ [][RegistrationNext]_registrationVars

RegistrationFairness == \A c \in Calls : WF_registrationVars(GoOn(c))

-----------------------------------------------------------------------------
Works(c) == call[c].pc \in {"work", "ready", "failed"}

(* One call at a time works on a branch, and while it does nobody else     *)
(* calls the branch ready or failed.                                       *)
OneCallWorks ==
  /\ \A c, d \in Calls : c # d /\ Works(c) /\ Works(d) => call[c].key # call[d].key
  /\ \A c \in Calls : Works(c) => status[call[c].key] \in {"SYNCING", "gone"}

(* A branch said to be synchronising is; only a failing statement can      *)
(* leave it so, until the next start.                                      *)
SyncingIsWorked ==
  \A k \in Keys : status[k] = "SYNCING" =>
    failures > 0 \/ \E c \in Calls : Works(c) /\ call[c].key = k

(* The admissions are those of the calls under way, within both limits.    *)
AdmissionsAreCalls ==
  /\ \A o \in Owners :
       admitted[o] = Cardinality({c \in Calls : call[c].pc \notin {"out", "insert"} /\ Owner(call[c].key) = o})
  /\ \A o \in Owners : admitted[o] <= PerOwner
  /\ Cardinality({c \in Calls : call[c].pc \notin {"out", "insert"}}) <= Server

(* After close nobody writes a row or runs git any more.                   *)
ClosedIsQuiet == shut = "closed" => \A c \in Calls : ~Works(c) /\ call[c].pc # "waiting"
=============================================================================
