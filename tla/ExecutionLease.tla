--------------------------- MODULE ExecutionLease ---------------------------
(***************************************************************************)
(* Several web processes on one database.  Every process runs its own      *)
(* queue of one lane; the rows of deployment_execution_leases decide which *)
(* of them works with Salesforce.  A lease expires unless its holder's     *)
(* heartbeat renews it; a process that starts or stops recovers the jobs   *)
(* it takes for interrupted.  Time is relative: a row and a timer count    *)
(* the ticks they have left.                                               *)
(***************************************************************************)
EXTENDS Naturals, FiniteSets

CONSTANTS
  Jobs,
  Processes,
  Home,         \* the process whose request created the job
  Maximum,      \* rows at a time (maximumConcurrent)
  LeaseTicks,   \* life of a row
  BeatTicks     \* heartbeatIntervalMs

ASSUME LeaseAssumption ==
  /\ Home \in [Jobs -> Processes]
  /\ Maximum \in Nat \ {0}
  /\ LeaseTicks \in Nat /\ BeatTicks \in Nat \ {0} /\ BeatTicks < LeaseTicks

VARIABLES
  punctual, \* timers and short awaits are on time; FALSE: a process may stall
  status,   \* rows of deployment_jobs; OVER stands for the completed statuses
  row,      \* rows of deployment_execution_leases: ticks left, or None
  pc,       \* where the task of a job is
  timer,    \* ticks to the next heartbeat of a task
  aborted,  \* the task's signal: by a lost lease or by a shutdown
  effect,   \* Salesforce: the operation of a job
  phase,    \* of the processes
  listed    \* what a recovery has read and not yet written: job -> status

vars == <<status, row, pc, timer, aborted, effect, phase, listed>>
allVars == <<punctual, vars>>

None     == LeaseTicks + 1      \* no row
Lane     == {"waiting", "confirming", "starting", "running", "releasing"}
Working  == {"starting", "running"}
Rows     == {j \in Jobs : row[j] # None}
Alive    == {"serving", "stopping", "aborting"}
Serving(j) == phase[Home[j]] \in Alive
At(j, p) == Serving(j) /\ pc[j] = p
Goto(j, p) == pc' = [pc EXCEPT ![j] = p]
End(j) ==       \* of a task, its interval and its listener
  /\ Goto(j, "ended")
  /\ timer' = [timer EXCEPT ![j] = 0] /\ aborted' = [aborted EXCEPT ![j] = FALSE]
Write(j, s) == status' = [status EXCEPT ![j] = s]

TypeOK ==
  /\ status \in [Jobs -> {"ABSENT", "QUEUED", "RUNNING", "RECONCILE_REQUIRED", "OVER"}]
  /\ row \in [Jobs -> 0..None]
  /\ pc \in [Jobs -> {"none", "queued", "ended"} \cup Lane]
  /\ timer \in [Jobs -> 0..BeatTicks]
  /\ aborted \in [Jobs -> BOOLEAN]
  /\ effect \in [Jobs -> {"none", "active", "done"}]
  /\ phase \in [Processes -> Alive \cup {"starting", "closing", "down"}]
  /\ listed \in [Processes -> [Jobs -> {"none", "QUEUED", "RUNNING"}]]

Nothing == [j \in Jobs |-> "none"]

Init ==
  /\ punctual \in BOOLEAN
  /\ status = [j \in Jobs |-> "ABSENT"]
  /\ row = [j \in Jobs |-> None]
  /\ pc = [j \in Jobs |-> "none"]
  /\ timer = [j \in Jobs |-> 0]
  /\ aborted = [j \in Jobs |-> FALSE]
  /\ effect = [j \in Jobs |-> "none"]
  /\ phase \in [Processes -> {"serving", "down"}]
  /\ listed = [p \in Processes |-> Nothing]

-----------------------------------------------------------------------------
(* The queue of the process.                                               *)

Create(j) ==
  /\ phase[Home[j]] = "serving" /\ status[j] = "ABSENT"
  /\ Write(j, "QUEUED") /\ Goto(j, "queued")
  /\ UNCHANGED <<row, timer, aborted, effect, phase, listed>>

Drain(j) ==
  /\ At(j, "queued")
  /\ \A k \in Jobs : Home[k] = Home[j] => pc[k] \notin Lane
  /\ Goto(j, "waiting")
  /\ aborted' = [aborted EXCEPT ![j] = phase[Home[j]] = "aborting"]
  /\ UNCHANGED <<status, row, timer, effect, phase, listed>>

-----------------------------------------------------------------------------
(* withExecutionLease.                                                     *)

Expired == {k \in Jobs : row[k] = 0}

(* Mutant: the transaction leaves expired rows where they are.             *)
AcquireKeeping(j) ==
  /\ At(j, "waiting")
  /\ \/ /\ ~aborted[j]
        /\ row' = [row EXCEPT ![j] = IF Cardinality(Rows) < Maximum THEN LeaseTicks ELSE @]
        /\ Goto(j, "confirming") /\ UNCHANGED <<timer, aborted>>
     \/ UNCHANGED row /\ End(j)
  /\ UNCHANGED <<status, effect, phase, listed>>

(* Mutant: the transaction does not count the rows.                        *)
AcquireUncounted(j) ==
  /\ At(j, "waiting") /\ ~aborted[j]
  /\ row' = [k \in Jobs |-> IF k = j THEN LeaseTicks ELSE IF k \in Expired THEN None ELSE row[k]]
  /\ Goto(j, "confirming")
  /\ UNCHANGED <<status, timer, aborted, effect, phase, listed>>

(* tryAcquire, the transaction: expired rows go, and a row comes when there *)
(* is a place.  An error ends the task, as an abort does.                   *)
Acquire(j) ==
  /\ At(j, "waiting")
  /\ \/ /\ ~aborted[j]
        /\ LET kept == Rows \ Expired
           IN row' = [k \in Jobs |->
                        IF k = j /\ Cardinality(kept) < Maximum THEN LeaseTicks
                        ELSE IF k \in kept THEN row[k] ELSE None]
        /\ Goto(j, "confirming") /\ UNCHANGED <<timer, aborted>>
     \/ UNCHANGED row /\ End(j)
  /\ UNCHANGED <<status, effect, phase, listed>>

(* tryAcquire, the look at the row.  Without one the task tries again; an  *)
(* error leaves the row to expire.                                         *)
Confirm(j) ==
  /\ At(j, "confirming")
  /\ \/ /\ row[j] # None
        /\ Goto(j, "starting") /\ timer' = [timer EXCEPT ![j] = BeatTicks] /\ UNCHANGED aborted
     \/ row[j] = None /\ Goto(j, "waiting") /\ UNCHANGED <<timer, aborted>>
     \/ End(j)
  /\ UNCHANGED <<status, row, effect, phase, listed>>

(* Mutant: the answer of renew is not looked at.                           *)
HeartbeatUnheeded(j) ==
  /\ Serving(j) /\ pc[j] \in Working /\ timer[j] = 0
  /\ timer' = [timer EXCEPT ![j] = BeatTicks]
  /\ IF row[j] \in 1..LeaseTicks
     THEN row' = [row EXCEPT ![j] = LeaseTicks]
     ELSE UNCHANGED row
  /\ UNCHANGED <<status, pc, aborted, effect, phase, listed>>

(* The interval: renew finds an unexpired row or aborts the task, and so   *)
(* does an error.                                                          *)
Heartbeat(j) ==
  /\ Serving(j) /\ pc[j] \in Working /\ timer[j] = 0
  /\ timer' = [timer EXCEPT ![j] = BeatTicks]
  /\ \/ /\ row[j] \in 1..LeaseTicks
        /\ row' = [row EXCEPT ![j] = LeaseTicks]
        /\ UNCHANGED aborted
     \/ /\ aborted' = [aborted EXCEPT ![j] = TRUE]
        /\ UNCHANGED row
  /\ UNCHANGED <<status, pc, effect, phase, listed>>

(* The first transition; refused when a recovery has ended the job.        *)
StartJob(j) ==
  /\ At(j, "starting")
  /\ \/ status[j] = "QUEUED" /\ Write(j, "RUNNING") /\ Goto(j, "running")
     \/ UNCHANGED status /\ Goto(j, "releasing")
  /\ UNCHANGED <<row, timer, aborted, effect, phase, listed>>

(* The submission, whose intent is written first and needs a running job.  *)
Submit(j) ==
  /\ At(j, "running") /\ effect[j] = "none" /\ ~aborted[j] /\ status[j] = "RUNNING"
  /\ effect' = [effect EXCEPT ![j] = "active"]
  /\ UNCHANGED <<status, row, pc, timer, aborted, phase, listed>>

(* The task ends: with its result, with a failure while nothing has been   *)
(* submitted, or not knowing what becomes of its submission.  The write is *)
(* a transition from a running or unresolved status, or does not happen.   *)
Work(j) ==
  /\ At(j, "running")
  /\ \/ /\ status[j] \in {"RUNNING", "RECONCILE_REQUIRED"}
        /\ effect[j] # "active" /\ Write(j, "OVER")
     \/ status[j] = "RUNNING" /\ effect[j] # "none" /\ Write(j, "RECONCILE_REQUIRED")
     \/ UNCHANGED status
  /\ Goto(j, "releasing")
  /\ UNCHANGED <<row, timer, aborted, effect, phase, listed>>

(* finally: the interval is cleared and the row deleted, if it can be.     *)
Release(j) ==
  /\ At(j, "releasing")
  /\ row' = [row EXCEPT ![j] = None] \/ UNCHANGED row
  /\ End(j)
  /\ UNCHANGED <<status, effect, phase, listed>>

-----------------------------------------------------------------------------
(* Processes, Salesforce and time.                                         *)

(* shutdown, first part: no new jobs; the queue drains.                    *)
Stop(p) ==
  /\ phase[p] = "serving"
  /\ phase' = [phase EXCEPT ![p] = "stopping"]
  /\ UNCHANGED <<status, row, pc, timer, aborted, effect, listed>>

(* After a while what runs is aborted, and so is what starts afterwards.   *)
AbortAll(p) ==
  /\ phase[p] = "stopping"
  /\ \E j \in Jobs : Home[j] = p /\ pc[j] \in {"queued"} \cup Lane
  /\ phase' = [phase EXCEPT ![p] = "aborting"]
  /\ aborted' = [j \in Jobs |-> aborted[j] \/ (Home[j] = p /\ pc[j] \in Lane)]
  /\ UNCHANGED <<status, row, pc, timer, effect, listed>>

(* Mutant: the query lists every job that is not over.                     *)
Unfinished == [j \in Jobs |-> IF status[j] \in {"ABSENT", "OVER"} THEN "none" ELSE status[j]]

Interrupted == [j \in Jobs |-> IF status[j] \in {"QUEUED", "RUNNING"} THEN status[j] ELSE "none"]

(* recoverInterruptedJobs, the query, when a process starts...             *)
Boot(p) ==
  /\ phase[p] = "down"
  /\ phase' = [phase EXCEPT ![p] = "starting"]
  /\ listed' = [listed EXCEPT ![p] = Interrupted]
  /\ UNCHANGED <<status, row, pc, timer, aborted, effect>>

(* ... and when it has drained its queue for a shutdown.                   *)
Settle(p) ==
  /\ phase[p] \in {"stopping", "aborting"}
  /\ \A j \in Jobs : Home[j] = p => pc[j] \in {"none", "ended"}
  /\ phase' = [phase EXCEPT ![p] = "closing"]
  /\ listed' = [listed EXCEPT ![p] = Interrupted]
  /\ UNCHANGED <<status, row, pc, timer, aborted, effect>>

(* Its loop: what was queued fails, what was running is to be reconciled.  *)
(* The status is the one listed; the transition checks the one there is.   *)
Recover(p, j) ==
  /\ phase[p] \in {"starting", "closing"} /\ listed[p][j] # "none"
  /\ \/ /\ listed[p][j] = "QUEUED" /\ status[j] \in {"QUEUED", "RUNNING", "RECONCILE_REQUIRED"}
        /\ Write(j, "OVER")
     \/ /\ listed[p][j] = "RUNNING" /\ status[j] = "RUNNING"
        /\ Write(j, "RECONCILE_REQUIRED")
  /\ listed' = [listed EXCEPT ![p][j] = "none"]
  /\ UNCHANGED <<row, pc, timer, aborted, effect, phase>>

(* An illegal transition, or an error, ends the recovery and the start;    *)
(* at a shutdown the request may be repeated.                              *)
RecoverFails(p) ==
  /\ phase[p] \in {"starting", "closing"} /\ listed[p] # Nothing
  /\ phase' = [phase EXCEPT ![p] = IF @ = "starting" THEN "down" ELSE "stopping"]
  /\ listed' = [listed EXCEPT ![p] = Nothing]
  /\ UNCHANGED <<status, row, pc, timer, aborted, effect>>

Recovered(p) ==
  /\ phase[p] \in {"starting", "closing"} /\ listed[p] = Nothing
  /\ phase' = [phase EXCEPT ![p] = IF @ = "starting" THEN "serving" ELSE "down"]
  /\ UNCHANGED <<status, row, pc, timer, aborted, effect, listed>>

Crash(p) ==
  /\ phase[p] # "down"
  /\ phase' = [phase EXCEPT ![p] = "down"]
  /\ pc' = [j \in Jobs |-> IF Home[j] = p /\ pc[j] # "none" THEN "ended" ELSE pc[j]]
  /\ timer' = [j \in Jobs |-> IF Home[j] = p THEN 0 ELSE timer[j]]
  /\ aborted' = [j \in Jobs |-> aborted[j] /\ Home[j] # p]
  /\ listed' = [listed EXCEPT ![p] = Nothing]
  /\ UNCHANGED <<status, row, effect>>

Finish(j) ==
  /\ effect[j] = "active"
  /\ effect' = [effect EXCEPT ![j] = "done"]
  /\ UNCHANGED <<status, row, pc, timer, aborted, phase, listed>>

(* A punctual process handles a due heartbeat, and reads its new row,      *)
(* before more time passes.                                                *)
OnTime(j) == Serving(j) => /\ pc[j] \in Working => timer[j] > 0
                           /\ pc[j] # "confirming"

Tick ==
  /\ punctual => \A j \in Jobs : OnTime(j)
  /\ \E j \in Jobs : row[j] \in 1..LeaseTicks \/ (pc[j] \in Working /\ timer[j] > 0)
  /\ row' = [j \in Jobs |-> IF row[j] \in {0, None} THEN row[j] ELSE row[j] - 1]
  /\ timer' = [j \in Jobs |-> IF timer[j] = 0 THEN 0 ELSE timer[j] - 1]
  /\ UNCHANGED <<status, pc, aborted, effect, phase, listed>>

TaskStep(j) ==
  Drain(j) \/ Acquire(j) \/ Confirm(j) \/ Heartbeat(j) \/ StartJob(j) \/ Work(j) \/ Release(j)

ProcessStep(p) ==
  \/ Stop(p) \/ AbortAll(p) \/ Boot(p) \/ Settle(p) \/ RecoverFails(p) \/ Recovered(p) \/ Crash(p)
  \/ \E j \in Jobs : Recover(p, j)

Next ==
  /\ \/ \E j \in Jobs : Create(j) \/ TaskStep(j) \/ Submit(j) \/ Finish(j)
     \/ \E p \in Processes : ProcessStep(p)
     \/ Tick
  /\ UNCHANGED punctual

Spec == Init /\ [][Next]_allVars

(* Time passes and event loops run their timers.  The commands of punctual *)
(* processes end, by their timeouts at the latest; those of others may     *)
(* hang.  Users, Salesforce, crashes and shutdowns owe nothing.            *)
Timers == \A j \in Jobs : WF_vars(~punctual /\ Heartbeat(j))
Commands ==
  \A j \in Jobs :
    WF_vars(/\ punctual
            /\ Drain(j) \/ Acquire(j) \/ Confirm(j) \/ StartJob(j) \/ Work(j) \/ Release(j))

FairSpec == Spec /\ SF_vars(Tick) /\ Timers /\ Commands

-----------------------------------------------------------------------------
(* No more tasks than the maximum work at a time, over all processes, when *)
(* processes are punctual: a task that works holds an unexpired row or has *)
(* been aborted.                                                           *)
Exclusive ==
  punctual => Cardinality({j \in Jobs : pc[j] \in Working /\ ~aborted[j]}) <= Maximum

(* The rows, expired ones included, never exceed the maximum, whatever     *)
(* crashes, fails or stalls.                                               *)
RowsWithinCapacity == Cardinality(Rows) <= Maximum

(* A task of a punctual process that waits for a lease gets one or ends:   *)
(* the row of a crashed or failed holder does not keep it out.             *)
WaitingIsServed == \A j \in Jobs :
  punctual /\ pc[j] = "waiting" ~> pc[j] \notin {"waiting", "confirming"}

(* A task whose row has gone learns of it: it is aborted, if it has not    *)
(* ended before.  Timers are enough: its command may hang.                 *)
LostLeaseIsNoticed == \A j \in Jobs :
  ~punctual /\ pc[j] \in Working /\ row[j] = None ~> pc[j] \notin Working \/ aborted[j]

-----------------------------------------------------------------------------
(* What is explored: every job has a process of its own.                   *)
MCHome == CHOOSE home \in [Jobs -> Processes] : \A i, j \in Jobs : home[i] = home[j] => i = j

(* Processes that stall neither stop nor start: that is explored with      *)
(* punctual ones, of which one at a time starts or stops.                  *)
StallsOnly ==
  LET moving == {p \in Processes : phase[p] \notin {"serving", "down"}} IN
  IF punctual THEN Cardinality(moving) <= 1 ELSE \A p \in Processes : phase[p] = "serving"

(* Whoever waits for a lease gets it or stops, and who lost one notices.   *)
LeaseServes == WaitingIsServed /\ LostLeaseIsNoticed
=============================================================================
