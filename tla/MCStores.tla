------------------------------ MODULE MCStores ------------------------------
(***************************************************************************)
(* The git cache, the registrations and the run storage share no state: a  *)
(* behaviour is one of one of them, `store`, while the others rest.        *)
(***************************************************************************)
EXTENDS Naturals, FiniteSets

CONSTANTS CacheKeys, CacheUsers,
          Cached, Found,           \* directories there may be to begin with, what they take
          RepositoryLimit, TotalLimit, MaxDisk, MaxFaults,
          BranchKeys, BranchCalls, BranchOwner(_), PerOwner, Server, Failures,
          Runs, Untracked, Execution, Shared, MaxBytes,
          nobody

VARIABLES store,
          cTail, cPrior, size, disk, active, user, shutting, unlocked, broken, fitted,
          bTail, bPrior, branch, asked, removing, admitted, shut, failures,
          earlier, job, directory, aged, cleaner, admission

(* Who deletes directories for a user is a party of its own.               *)
MCEvictor(u) == <<"evictor", u>>
CacheParties == CacheUsers \cup {MCEvictor(u) : u \in CacheUsers}
Cache == INSTANCE GitCache
  WITH Keys <- CacheKeys, Parties <- CacheParties, NoParty <- nobody, tail <- cTail, prior <- cPrior,
       Users <- CacheUsers, Evictor <- MCEvictor, closed <- shutting, faults <- broken

Branches == INSTANCE GitRegistrations
  WITH Keys <- BranchKeys, Parties <- BranchCalls, NoParty <- nobody, tail <- bTail, prior <- bPrior,
       Calls <- BranchCalls, Owner <- BranchOwner, status <- branch, call <- asked

Storage == INSTANCE RunStorage

ASSUME StoresAssumption ==
  /\ IsFiniteSet(CacheKeys) /\ IsFiniteSet(CacheUsers) /\ IsFiniteSet(BranchKeys)
  /\ nobody \notin CacheParties \cup BranchCalls
  /\ Cache!NoKey \notin CacheKeys \cup BranchKeys
  /\ \A u \in CacheUsers : MCEvictor(u) \notin CacheUsers
  /\ IsFiniteSet(BranchCalls)
  /\ {RepositoryLimit, TotalLimit, MaxDisk, MaxFaults, PerOwner, Server, Failures, MaxBytes} \subseteq Nat
  /\ MaxDisk >= RepositoryLimit /\ MaxDisk > 0
  /\ Shared \notin Runs
  /\ Untracked \subseteq Runs /\ DOMAIN Execution \subseteq Runs \ Untracked
  /\ \A e \in DOMAIN Execution : Execution[e] \in Runs

cacheVars  == <<cTail, cPrior, size, disk, active, user, shutting, unlocked, broken, fitted>>
branchVars == <<bTail, bPrior, branch, asked, removing, admitted, shut, failures>>
runVars    == <<earlier, job, directory, aged, cleaner, admission>>
allVars == <<store, cacheVars, branchVars, runVars>>

MCInit ==
  /\ store \in {"cache", "branches", "runs"}
  /\ Cache!CacheInit /\ Branches!RegistrationInit /\ Storage!RunInit
  /\ \A k \in CacheKeys : size[k] > 0 => store = "cache" /\ k \in Cached /\ size[k] \in Found
  /\ Shared \in directory => store = "runs"

Of(s) == store = s /\ UNCHANGED store
CacheStep(Act)  == Of("cache") /\ Act /\ UNCHANGED <<branchVars, runVars>>
BranchStep(Act) == Of("branches") /\ Act /\ UNCHANGED <<cacheVars, runVars>>
RunStep(Act)    == Of("runs") /\ Act /\ UNCHANGED <<cacheVars, branchVars>>

MCNext ==
  \/ CacheStep(Cache!CacheNext) \/ BranchStep(Branches!RegistrationNext) \/ RunStep(Storage!RunNext)

(* The fairness of each, while it is the one looked at: that of a call p,  *)
(* be it an acquire or one about a branch, and that of the clean-up.       *)
Proceeds(p) ==
  \/ p \in CacheUsers /\ CacheStep(Cache!Proceed(p))
  \/ p \in BranchCalls /\ BranchStep(Branches!GoOn(p))

MCSpec ==
  /\ MCInit /\ [][MCNext]_allVars
  /\ \A p \in CacheUsers \cup BranchCalls : WF_allVars(Proceeds(p))
  /\ WF_allVars(RunStep(Storage!Clean))

(* A cached directory has one holder and stays while it is granted; one    *)
(* call works on a registered branch at a time and what is said to be      *)
(* synchronising is; nothing stays blocked, locked or counted for anybody  *)
(* who has gone: see GitCache and GitRegistrations.                        *)
HoldersAreReal ==
  CASE store = "cache" -> /\ Cache!CacheTypeOK
                          /\ Cache!OneHolder /\ Cache!GrantedIsPresent /\ Cache!CacheWithinTotal
                          /\ Cache!MarksHaveOwners /\ Cache!LockOutlivesUse
    [] store = "branches" -> /\ Branches!RegistrationTypeOK
                             /\ Branches!OneCallWorks /\ Branches!SyncingIsWorked
                             /\ Branches!AdmissionsAreCalls /\ Branches!ClosedIsQuiet
    [] OTHER -> Storage!RunTypeOK

(* A run directory in use is never deleted, and a run is refused for want  *)
(* of room only when what is left is protected: see RunStorage.            *)
NeedsAreKept == Storage!NeedsAreKept /\ Storage!RefusedForNeeds

(* Who waits for a cached directory gets it or an error, every call about  *)
(* a branch ends, every admission of a run is answered (`someone` stands   *)
(* for all users, which are interchangeable).                              *)
CONSTANT someone
OneWaits ==
  CASE store = "cache"    -> user[someone].pc = "waiting"
    [] store = "branches" -> asked[someone].pc = "waiting"
    [] OTHER              -> admission = "asks"

OneIsAnswered ==
  CASE store = "cache"    -> user[someone].pc = "out"
    [] store = "branches" -> asked[someone].pc = "out"
    [] OTHER              -> admission # "asks"

WaitingEnds == OneWaits ~> OneIsAnswered

(* One branch has another owner; one run executes the dry run of another.  *)
CONSTANTS foreign, executing, validated
MCOwner(k) == IF k = foreign THEN "other" ELSE "owner"
MCExecution == [r \in {executing} |-> validated]

(* The other calls are interchangeable: whichever of them is to start, the *)
(* first that is out does. With three under way the last comes only for    *)
(* the branch of the other owner. No step of a call under way is cut.      *)
CONSTANTS second, third, fourth
Starts(c) == asked[c].pc = "out" /\ asked'[c].pc # "out"
StartInOrder ==
  /\ Starts(third) => asked[second].pc # "out"
  /\ Starts(fourth) => /\ asked[second].pc # "out" /\ asked[third].pc # "out"
                       /\ asked'[fourth].key = foreign
=============================================================================
