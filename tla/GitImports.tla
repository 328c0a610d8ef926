----------------------------- MODULE GitImports -----------------------------
(***************************************************************************)
(* The imports of one user of a web process: each is admitted, gets a      *)
(* directory and a row, waits for a lane, fetches its commit, lets the     *)
(* user select a project when there are several, materialises it and       *)
(* publishes it as a source. The user, a timer and the shutdown cancel     *)
(* imports at any point; the user removes them.                            *)
(*                                                                         *)
(* One action stands for the code between two awaits. `faults` counts the  *)
(* failures of the database and of the file system; that a repository is   *)
(* unreachable, changed or too large is an ordinary outcome of a step.     *)
(***************************************************************************)
EXTENDS ManagedProjects, Sequences, FiniteSetsExt

CONSTANTS Concurrency,  \* lanes
          Attended,     \* bound: the imports the user cancels, removes and uses
          Scenarios     \* bounds of a behaviour: the limit of imports under way,
                        \* which imports are asked for, how many statements and
                        \* deletions fail, how often the process crashes

ASSUME ImportsAssumption == /\ Concurrency \in Nat \ {0}
                            /\ Attended \subseteq Projects
                            /\ Scenarios \subseteq [maximum : Nat \ {0}, imports : SUBSET Projects,
                                                     faults : Nat, restarts : Nat]

Imports == Projects

VARIABLES status,   \* column `status` of the row of an import
          imp,      \* the entry of an import and the frame of its work
          queue,    \* work that waits for a lane
          call,     \* calls of cancel and remove
          closed,
          scenario, \* never changes
          faults, restarts

vars == <<storageVars, status, imp, queue, call, closed, scenario, faults, restarts>>
bounds == <<faults, restarts>>

InProgress == {"QUEUED", "FETCHING", "SELECTING", "MATERIALIZING"}
Callers == {"user", "timer", "close", "remove"}

Idle == [pc |-> "new", entry |-> FALSE, aborted |-> FALSE, timer |-> FALSE, selecting |-> FALSE,
         exec |-> "none", lease |-> FALSE, cleanup |-> "none", source |-> FALSE]

Admitting == {"begin", "insert"}
Working == {"start", "fetch", "select", "mark", "copy", "complete", "ready",
            "publish", "retract", "fail", "clean"}

TypeOK ==
  /\ StorageTypeOK
  /\ status \in [Imports -> InProgress \cup
                   {"ABSENT", "READY", "FAILED", "CANCELLED", "EXPIRED", "DELETED"}]
  /\ imp \in [Imports -> [pc : {"new", "idle", "ended"} \cup Admitting \cup Working,
                          entry : BOOLEAN, aborted : BOOLEAN, timer : BOOLEAN, selecting : BOOLEAN,
                          exec : {"none", "running", "resolved", "rejected"}, lease : BOOLEAN,
                          cleanup : {"none", "running", "done"}, source : BOOLEAN]]
  /\ queue \in Seq([id : Imports, work : {"start", "mark"}])
  /\ call \in [Imports -> [Callers -> {"no", "wait", "clean", "discard", "write", "done", "failed"}]]
  /\ closed \in BOOLEAN /\ scenario \in Scenarios
  /\ faults \in 0 .. scenario.faults /\ restarts \in 0 .. scenario.restarts

Init ==
  /\ StorageInit
  /\ status = [i \in Imports |-> "ABSENT"]
  /\ imp = [i \in Imports |-> Idle]
  /\ queue = <<>>
  /\ call = [i \in Imports |-> [k \in Callers |-> "no"]]
  /\ closed = FALSE /\ scenario \in Scenarios
  /\ faults = 0 /\ restarts = 0

Running(f) == {i \in Imports : f[i].exec = "running"}
Live == {i \in Imports : imp[i].entry}

Fault == faults < scenario.faults /\ faults' = faults + 1 /\ UNCHANGED restarts

Awaited(i, pc) == imp[i].pc = pc

-----------------------------------------------------------------------------
(* drain: a free lane takes the first item that was not cancelled; at most *)
(* one lane is free whenever anything waits.                               *)
Drain(f, q) ==
  LET waiting == {k \in DOMAIN q : ~f[q[k].id].aborted}
      first == Min(waiting)
  IN  IF Cardinality(Running(f)) >= Concurrency THEN imp' = f /\ queue' = q
      ELSE IF waiting = {} THEN imp' = f /\ queue' = <<>>
      ELSE /\ imp' = [f EXCEPT ![q[first].id].exec = "running", ![q[first].id].pc = q[first].work]
           /\ queue' = SubSeq(q, first + 1, Len(q))

Enqueue(i, work, f) == Drain(f, Append(queue, [id |-> i, work |-> work]))

(* Mutant: nobody looks whether work waits for the lane.                   *)
SettleOnly(i, outcome) ==
  imp' = [imp EXCEPT ![i].exec = outcome, ![i].pc = "idle"] /\ UNCHANGED queue

(* The promise of the running work settles and its lane is free.           *)
Settle(i, outcome) ==
  Drain([imp EXCEPT ![i].exec = outcome, ![i].pc = "idle"], queue)

Goto(i, pc) == imp' = [imp EXCEPT ![i].pc = pc] /\ UNCHANGED queue

(* The catch of drain: whoever cancelled owns the final state.             *)
Throw(i) == IF imp[i].aborted THEN Settle(i, "resolved") ELSE Goto(i, "fail")

-----------------------------------------------------------------------------
(* create up to its first await. Mutant: only entries count.               *)
AdmitsUncounted == Cardinality(Live) < scenario.maximum

(* Who is being admitted counts like an entry.                             *)
Admits == Cardinality(Live) + Cardinality({i \in Imports : imp[i].pc \in Admitting}) < scenario.maximum

Create(i) ==
  /\ i \in scenario.imports /\ imp[i].pc = "new" /\ ~closed /\ Admits
  /\ imp' = [imp EXCEPT ![i].pc = "begin"]
  /\ UNCHANGED <<storageVars, status, queue, call, closed, bounds>>

(* create gives up; what it began is discarded.                            *)
Begin(i) ==
  /\ Awaited(i, "begin")
  /\ \/ /\ storage = "open" /\ ~closed
        /\ BeginProject(i) /\ imp' = [imp EXCEPT ![i].pc = "insert"]
        /\ UNCHANGED bounds
     \/ /\ closed \/ storage = "closed"
        /\ imp' = [imp EXCEPT ![i].pc = "ended"]
        /\ UNCHANGED <<project, bounds>>
     \/ Fault /\ imp' = [imp EXCEPT ![i].pc = "ended"] /\ UNCHANGED project
  /\ UNCHANGED <<storage, status, queue, call, closed>>

(* The row is written and, at once, the entry made and queued; when the    *)
(* service was closed meanwhile create cancels it as a user would.         *)
Insert(i) ==
  /\ Awaited(i, "insert")
  /\ \/ /\ status' = [status EXCEPT ![i] = "QUEUED"]
        /\ IF closed
           THEN /\ imp' = [imp EXCEPT ![i].pc = "idle", ![i].entry = TRUE, ![i].aborted = TRUE]
                /\ call' = [call EXCEPT ![i]["user"] = "wait"]
                /\ UNCHANGED queue
           ELSE /\ Enqueue(i, "start", [imp EXCEPT ![i].pc = "idle", ![i].entry = TRUE, ![i].timer = TRUE])
                /\ UNCHANGED call
        /\ UNCHANGED <<project, bounds>>
     \/ /\ Fault
        /\ \E written \in {"ABSENT", "QUEUED"} : status' = [status EXCEPT ![i] = written]
        /\ imp' = [imp EXCEPT ![i].pc = "ended"]
        /\ project' = Discarded(i)
        /\ UNCHANGED <<queue, call>>
  /\ UNCHANGED <<storage, closed>>

-----------------------------------------------------------------------------
(* fetch and materialize. A transition that finds another status throws.   *)
(* Mutant: whatever the status was.                                        *)
TransitionBlind(i, from, to) == status' = [status EXCEPT ![i] = to]

Transition(i, from, to) == status[i] \in from /\ status' = [status EXCEPT ![i] = to]

TransitionFails(i, from) ==
  /\ \/ status[i] \notin from /\ UNCHANGED bounds
     \/ Fault
  /\ Throw(i)
  /\ UNCHANGED <<storageVars, status, call, closed>>

Start(i) ==
  /\ Awaited(i, "start")
  /\ \/ /\ Transition(i, {"QUEUED"}, "FETCHING") /\ Goto(i, "fetch")
        /\ UNCHANGED <<storageVars, call, closed, bounds>>
     \/ TransitionFails(i, {"QUEUED"})

(* The repository is authorised and its commit looked up, the cached copy  *)
(* leased, the objects fetched and searched for projects: one, or several. *)
(* All of it may fail, before or after the lease.                          *)
Fetch(i) ==
  /\ Awaited(i, "fetch")
  /\ \/ /\ ~imp[i].aborted
        /\ \E found \in {"mark", "select"} :
             imp' = [imp EXCEPT ![i].pc = found, ![i].lease = TRUE]
        /\ UNCHANGED queue
     \/ \E leased \in BOOLEAN :
          IF imp[i].aborted
          THEN Drain([imp EXCEPT ![i].exec = "resolved", ![i].pc = "idle", ![i].lease = leased], queue)
          ELSE imp' = [imp EXCEPT ![i].pc = "fail", ![i].lease = leased] /\ UNCHANGED queue
  /\ UNCHANGED <<storageVars, status, call, closed, bounds>>

AskUser(i) ==
  /\ Awaited(i, "select")
  /\ \/ /\ Transition(i, {"FETCHING"}, "SELECTING")
        /\ Drain([imp EXCEPT ![i].exec = "resolved", ![i].pc = "idle", ![i].selecting = TRUE], queue)
        /\ UNCHANGED <<storageVars, call, closed, bounds>>
     \/ TransitionFails(i, {"FETCHING"})

(* Mutant of MaySelect: the choice is not reserved.                        *)
MaySelectAgain(i) == imp[i].entry /\ status[i] \in {"SELECTING", "MATERIALIZING"} /\ ~imp[i].aborted

MaySelect(i) == imp[i].entry /\ imp[i].selecting /\ ~imp[i].aborted

Select(i) ==
  /\ MaySelect(i)
  /\ Enqueue(i, "mark", [imp EXCEPT ![i].selecting = FALSE])
  /\ UNCHANGED <<storageVars, status, call, closed, bounds>>

Mark(i) ==
  /\ Awaited(i, "mark")
  /\ \/ /\ Transition(i, {"FETCHING", "SELECTING"}, "MATERIALIZING") /\ Goto(i, "copy")
        /\ UNCHANGED <<storageVars, call, closed, bounds>>
     \/ TransitionFails(i, {"FETCHING", "SELECTING"})

(* The files are copied; then the cached repository is given back.         *)
Copy(i) ==
  /\ Awaited(i, "copy")
  /\ \/ /\ ~imp[i].aborted
        /\ imp' = [imp EXCEPT ![i].pc = "complete", ![i].lease = FALSE] /\ UNCHANGED queue
     \/ Throw(i)
  /\ UNCHANGED <<storageVars, status, call, closed, bounds>>

Complete(i) ==
  /\ Awaited(i, "complete")
  /\ \/ /\ CompleteProject(i)
        /\ IF imp[i].aborted THEN Throw(i) ELSE Goto(i, "ready")
     \/ Throw(i) /\ UNCHANGED project
  /\ UNCHANGED <<storage, status, call, closed, bounds>>

Ready(i) ==
  /\ Awaited(i, "ready")
  /\ \/ /\ Transition(i, {"MATERIALIZING"}, "READY") /\ Goto(i, "publish")
        /\ UNCHANGED <<storageVars, call, closed, bounds>>
     \/ TransitionFails(i, {"MATERIALIZING"})

(* Mutant: the entry is published without another look at the signal.      *)
PublishAlways(i) ==
  /\ Awaited(i, "publish")
  /\ Drain([imp EXCEPT ![i].exec = "resolved", ![i].pc = "idle", ![i].source = TRUE,
                       ![i].timer = FALSE, ![i].entry = FALSE], queue)
  /\ UNCHANGED <<storageVars, status, call, closed, bounds>>

(* A cancellation may have come while READY was written.                   *)
Publish(i) ==
  /\ Awaited(i, "publish")
  /\ IF imp[i].aborted THEN Goto(i, "retract")
     ELSE Drain([imp EXCEPT ![i].exec = "resolved", ![i].pc = "idle", ![i].source = TRUE,
                            ![i].timer = FALSE, ![i].entry = FALSE], queue)
  /\ UNCHANGED <<storageVars, status, call, closed, bounds>>

Retract(i) ==
  /\ Awaited(i, "retract")
  /\ \/ /\ Transition(i, {"READY"}, "CANCELLED") /\ Settle(i, "resolved")
        /\ UNCHANGED <<storageVars, call, closed, bounds>>
     \/ TransitionFails(i, {"READY"})

-----------------------------------------------------------------------------
(* cleanup: gives the lease back and discards the directory; a deletion    *)
(* that is under way is shared. MayClean is false where discard throws.    *)
MayClean(i) == imp[i].cleanup # "none" \/ Discardable(i) \/ project[i].state = "deleting"

Deleting(i) == IF imp[i].cleanup = "none" /\ Discardable(i) THEN Discarded(i) ELSE project

(* Mutant: the lease stays with the entry.                                 *)
CleaningKept(i) == [imp[i] EXCEPT !.timer = FALSE, !.cleanup = IF @ = "none" THEN "running" ELSE @]

Cleaning(i) == [imp[i] EXCEPT !.timer = FALSE, !.lease = FALSE,
                              !.cleanup = IF @ = "none" THEN "running" ELSE @]

(* The catch of drain, for work nobody cancelled when it failed.           *)
Fail(i) ==
  /\ Awaited(i, "fail")
  /\ \/ /\ Transition(i, InProgress, "FAILED") /\ UNCHANGED bounds
        /\ IF MayClean(i)
           THEN /\ imp' = [imp EXCEPT ![i] = [Cleaning(i) EXCEPT !.pc = "clean"]]
                /\ project' = Deleting(i) /\ UNCHANGED queue
           ELSE Settle(i, "rejected") /\ UNCHANGED project
     \/ /\ \/ status[i] \notin InProgress /\ UNCHANGED bounds
           \/ Fault
        /\ Settle(i, "rejected") /\ UNCHANGED <<status, project>>
  /\ UNCHANGED <<storage, call, closed>>

(* cancel up to its first await                                            *)
Cancelled(f, i) == [f EXCEPT ![i].aborted = TRUE, ![i].timer = FALSE]

Cancel(i, k) ==
  /\ imp[i].entry /\ call[i][k] \in {"no", "failed"}
  /\ imp' = Cancelled(imp, i)
  /\ call' = [call EXCEPT ![i][k] = "wait"]
  /\ UNCHANGED <<storageVars, status, queue, closed, bounds>>

CancelByUser(i) == i \in Attended /\ Cancel(i, "user")

(* Mutant: the time of an import stops while the user selects.             *)
TimeoutPaused(i) == imp[i].timer /\ ~imp[i].selecting /\ Cancel(i, "timer")

Timeout(i) == imp[i].timer /\ Cancel(i, "timer")

(* The work aborted is awaited, a failure of its own clean-up is rethrown. *)
(* The status is written, unless the import failed or was cancelled by     *)
(* another call, and the entry cleaned up.                                 *)
CancelWrites(i, k) ==
  /\ call[i][k] = "wait" /\ imp[i].exec \notin {"running", "rejected"}
  /\ \/ /\ \/ Transition(i, InProgress, IF k = "timer" THEN "FAILED" ELSE "CANCELLED")
           \/ status[i] \in {"FAILED", "CANCELLED"} /\ UNCHANGED status
        /\ imp' = [imp EXCEPT ![i] = IF MayClean(i) THEN Cleaning(i)
                                     ELSE [Cleaning(i) EXCEPT !.cleanup = "none"]]
        /\ project' = Deleting(i)
        /\ call' = [call EXCEPT ![i][k] = CASE imp[i].cleanup = "done" -> "done"
                                            [] imp[i].cleanup # "done" /\ MayClean(i) -> "clean"
                                            [] OTHER -> "failed"]
        /\ UNCHANGED bounds
     \/ /\ \/ status[i] \notin InProgress \cup {"FAILED", "CANCELLED"} /\ UNCHANGED bounds
           \/ Fault
        /\ call' = [call EXCEPT ![i][k] = "failed"]
        /\ UNCHANGED <<status, imp, project>>
  /\ UNCHANGED <<storage, queue, closed>>

CancelRethrows(i, k) ==
  /\ call[i][k] = "wait" /\ imp[i].exec = "rejected"
  /\ call' = [call EXCEPT ![i][k] = "failed"]
  /\ UNCHANGED <<storageVars, status, imp, queue, closed, bounds>>

(* The deletion of a directory ends: the entry goes, everybody who waits   *)
(* for it goes on; after a failure the next cleanup starts a new one.      *)
Deleted(i) ==
  /\ \E ok \in BOOLEAN :
       /\ IF ok THEN UNCHANGED bounds ELSE Fault
       /\ DeletionEnds(i, ok)
       /\ LET after == [imp EXCEPT ![i].cleanup = IF @ # "running" THEN @ ELSE IF ok THEN "done" ELSE "none",
                                   ![i].entry = @ /\ ~(ok /\ imp[i].cleanup = "running")]
          IN  IF imp[i].pc = "clean"
              THEN Drain([after EXCEPT ![i].pc = "idle",
                                       ![i].exec = IF ok THEN "resolved" ELSE "rejected"], queue)
              ELSE imp' = after /\ UNCHANGED queue
       /\ call' = [call EXCEPT ![i] = [k \in Callers |->
                     CASE @[k] = "clean" -> (IF ok THEN "done" ELSE "failed")
                       [] @[k] = "discard" -> (IF ok THEN "write" ELSE "no")
                       [] OTHER -> @[k]]]
  /\ UNCHANGED <<storage, status, closed>>

-----------------------------------------------------------------------------
(* remove: of an import under way it is cancel; a finished source is       *)
(* discarded, unless a job uses it, and then marked; the row of any other  *)
(* is marked. Between the steps the row may change.                        *)
Remove(i) ==
  /\ i \in Attended /\ call[i]["remove"] = "no"
  /\ \/ /\ status[i] = "READY" /\ (Discardable(i) \/ project[i].state = "deleting")
        /\ project' = IF Discardable(i) THEN Discarded(i) ELSE project
        /\ call' = [call EXCEPT ![i]["remove"] = "discard"]
        /\ UNCHANGED <<status, imp>>
     \/ /\ status[i] \in {"FAILED", "CANCELLED", "EXPIRED"}
        /\ status' = [status EXCEPT ![i] = "DELETED"]
        /\ imp' = [imp EXCEPT ![i].source = FALSE]
        /\ UNCHANGED <<project, call>>
  /\ UNCHANGED <<storage, queue, closed, bounds>>

RemoveWrites(i) ==
  /\ call[i]["remove"] = "write"
  /\ call' = [call EXCEPT ![i]["remove"] = "no"]
  /\ IF status[i] = "READY"
     THEN /\ status' = [status EXCEPT ![i] = "DELETED"]
          /\ imp' = [imp EXCEPT ![i].source = FALSE]
     ELSE UNCHANGED <<status, imp>>
  /\ UNCHANGED <<storageVars, queue, closed, bounds>>

(* get of a source whose directory is not listed any more                  *)
Get(i) ==
  /\ status[i] = "READY" /\ project[i].state # "ready"
  /\ status' = [status EXCEPT ![i] = "EXPIRED"]
  /\ imp' = [imp EXCEPT ![i].source = FALSE]
  /\ UNCHANGED <<storageVars, queue, call, closed, bounds>>

(* listSources, resolve: what the user can choose and a job can pin        *)
Visible(i) == imp[i].source /\ project[i].state = "ready"

Use(i) ==
  /\ i \in Attended
  /\ \/ Visible(i) /\ project[i].pins = 0 /\ PinProject(i)
     \/ project[i].pins > 0 /\ UnpinProject(i)
  /\ UNCHANGED <<storage, status, imp, queue, call, closed, bounds>>

(* The time to live of a source is 24 times the time an import may take.   *)
Expire(i) ==
  /\ i \in Attended /\ ~imp[i].entry /\ ExpireProject(i)
  /\ UNCHANGED <<storage, status, imp, queue, call, closed, bounds>>

-----------------------------------------------------------------------------
(* close of the service: every entry is cancelled.                         *)
Close ==
  /\ ~closed
  /\ closed' = TRUE
  /\ imp' = [i \in Imports |-> IF imp[i].entry THEN Cancelled(imp, i)[i] ELSE imp[i]]
  /\ call' = [i \in Imports |-> IF imp[i].entry THEN [call[i] EXCEPT !["close"] = "wait"] ELSE call[i]]
  /\ UNCHANGED <<storageVars, status, queue, bounds>>

CloseCallsEnded == closed /\ \A i \in Imports : call[i]["close"] \in {"no", "done"}

CloseProjects ==
  /\ CloseCallsEnded /\ storage = "open"
  /\ CloseStorage
  /\ UNCHANGED <<status, imp, queue, call, closed, bounds>>

(* The process exits at any point; the next one expires what it finds.     *)
Restart ==
  /\ restarts < scenario.restarts /\ restarts' = restarts + 1
  /\ status' = [i \in Imports |-> IF status[i] \in InProgress \cup {"READY"} THEN "EXPIRED" ELSE status[i]]
  /\ imp' = [i \in Imports |-> [Idle EXCEPT !.pc = IF imp[i].pc = "new" THEN "new" ELSE "ended"]]
  /\ project' = [i \in Imports |-> [state |-> IF imp[i].pc = "new" THEN "none" ELSE "gone",
                                    pins |-> 0, timer |-> FALSE]]
  /\ storage' = "open" /\ closed' = FALSE
  /\ queue' = <<>>
  /\ call' = [i \in Imports |-> [k \in Callers |-> "no"]]
  /\ UNCHANGED faults

Work(i) == \/ Start(i) \/ Fetch(i) \/ AskUser(i) \/ Mark(i) \/ Copy(i)
           \/ Complete(i) \/ Ready(i) \/ Publish(i) \/ Retract(i) \/ Fail(i)

CancelEnds(i, k) == CancelWrites(i, k) \/ CancelRethrows(i, k)

Next ==
  /\ \/ \E i \in Imports :
          \/ Create(i) \/ Begin(i) \/ Insert(i) \/ Work(i) \/ Select(i)
          \/ CancelByUser(i) \/ Timeout(i) \/ \E k \in Callers : CancelEnds(i, k)
          \/ Deleted(i) \/ Remove(i) \/ RemoveWrites(i) \/ Get(i) \/ Use(i) \/ Expire(i)
     \/ Close \/ CloseProjects \/ Restart
  /\ UNCHANGED scenario

Spec == Init /\ [][Next]_vars

(* Whatever was started goes on and timers fire; nobody has to select,     *)
(* cancel, remove or use anything, and nothing has to fail. All but the    *)
(* user's calls, which may be repeated, happens a limited number of times. *)
GoesOn(i) ==
  \/ Begin(i) \/ Insert(i) \/ Work(i) \/ Deleted(i) \/ Timeout(i)
  \/ \E k \in Callers \ {"user"} : CancelEnds(i, k)

Fairness ==
  \A i \in Imports : /\ WF_vars(GoesOn(i) /\ UNCHANGED scenario)
                     /\ WF_vars(CancelEnds(i, "user") /\ UNCHANGED scenario)

FairSpec == Spec /\ Fairness

-----------------------------------------------------------------------------
(* A source the user sees belongs to an import whose row says READY and    *)
(* that nobody cancelled, however the cancellation raced the last writes.  *)
VisibleIsReady == \A i \in Imports : Visible(i) => status[i] = "READY" /\ ~imp[i].aborted

(* The user's imports that hold a directory, with those being admitted,    *)
(* never exceed the limit, whatever is cancelled or fails in between.      *)
WithinQuota ==
  Cardinality({i \in Imports : imp[i].entry \/ imp[i].pc \in Admitting}) <= scenario.maximum

(* Lanes are neither exceeded nor left idle while work waits, also when    *)
(* the work at the head of the queue was cancelled.                        *)
LanesInUse ==
  /\ Cardinality(Running(imp)) <= Concurrency
  /\ (\E k \in DOMAIN queue : ~imp[queue[k].id].aborted) => Cardinality(Running(imp)) = Concurrency

(* Work runs only for an entry, and once at a time: a selection made twice *)
(* or after a cancellation starts nothing.                                 *)
WorkHasEntry ==
  \A i \in Imports :
    /\ imp[i].exec = "running" => imp[i].entry \/ imp[i].pc = "clean"
    /\ Cardinality({k \in DOMAIN queue : queue[k].id = i})
         + (IF imp[i].exec = "running" THEN 1 ELSE 0) <= 1

(* The entry of an import goes only when its directory does, unless it was *)
(* published; then no lease of the cache and no work is left either.       *)
NothingIsLeft ==
  \A i \in Imports :
    (~imp[i].entry /\ imp[i].pc = "idle" /\ ~imp[i].source /\ status[i] # "READY")
      => ~imp[i].lease /\ project[i].state \in {"gone", "deleting", "undeleted"}

-----------------------------------------------------------------------------
(* A source is shown only while its import is ready and its files are kept *)
(* as long as somebody uses them and no longer.                            *)
SourcesAreTrue == TypeOK /\ PinnedIsReady /\ ReadyEndsByItself /\ VisibleIsReady

(* No import exceeds the limits, waits beside an idle lane, works for      *)
(* nobody or leaves anything behind.                                       *)
WorkIsAccounted == WithinQuota /\ LanesInUse /\ WorkHasEntry /\ NothingIsLeft

(* An import that ended stays ended: a failed, cancelled or expired one    *)
(* can only be deleted, a finished one not fail or start again.            *)
EndedForGood ==
  [][\A i \in Imports :
       /\ status[i] \in {"FAILED", "CANCELLED", "EXPIRED"} => status'[i] \in {status[i], "DELETED"}
       /\ status[i] = "READY" => status'[i] \in {"READY", "CANCELLED", "EXPIRED", "DELETED"}
       /\ status[i] = "DELETED" => status'[i] = "DELETED"]_vars

(* A removal overtook the cancellation of the same import: it deleted the  *)
(* directory or the row that the cancellation was about to look at.        *)
Overtaken(i) == project[i].state = "gone" \/ status[i] = "DELETED"

(* Every import leaves the table of those under way: it is finished,       *)
(* fails, is cancelled or runs out of time, and no shutdown prevents it.   *)
(* Only a failing database or file system, or a removal that overtakes the *)
(* cancellation, can leave it there.                                       *)
EntryEnds ==
  \A i \in Imports : imp[i].entry ~> (~imp[i].entry \/ faults > 0 \/ Overtaken(i))

-----------------------------------------------------------------------------
(* What is explored: two imports that share a lane, two of which only one  *)
(* may be under way, with a crash, and one with a failure and a crash.     *)
MCBounds(maximum, imports, f, r) ==
  [maximum |-> maximum, imports |-> imports, faults |-> f, restarts |-> r]

MCScenarios == {MCBounds(2, Imports, 0, 0), MCBounds(1, Imports, 0, 1), MCBounds(2, Attended, 1, 1)}

(* Every import ends, and once only.                                       *)
ImportsEnd == EndedForGood /\ EntryEnds
=============================================================================
