------------------------------ MODULE JobQueue ------------------------------
(***************************************************************************)
(* SingleJobQueue: a bounded FIFO queue with a fixed number of lanes, slot *)
(* reservations taken before the job exists, and the two-stage shutdown    *)
(* (stop accepting, then abort) that the runtime performs on it.  The      *)
(* deployment queue has one lane, the comparison queue two.                *)
(*                                                                         *)
(* JavaScript runs one callback at a time, so every method is one step;    *)
(* a request holds its reservation across many awaits, which is where      *)
(* other requests, the tasks and the shutdown interleave with it.          *)
(***************************************************************************)
EXTENDS Integers, Sequences, FiniteSets

CONSTANTS Ids,          \* job ids
          Requests,     \* requests, each with at most one reservation at a time
          Concurrency,
          MaximumQueued

ASSUME QueueAssumption ==
  /\ Concurrency \in Nat \ {0}
  /\ MaximumQueued \in Nat \ {0}
  /\ IsFiniteSet(Ids)

VARIABLES
  running,        \* ids of the running map
  aborted,        \* running ids whose AbortController has been aborted
  queue,          \* the pending array, ids only
  reservation,    \* state of the reservation a request holds
  reservedCount,
  drainScheduled, \* a drain microtask is queued
  accepting,
  abortRequested

vars == <<running, aborted, queue, reservation, reservedCount,
          drainScheduled, accepting, abortRequested>>

InQueue(id) == \E i \in DOMAIN queue : queue[i] = id

Init ==
  /\ running = {} /\ aborted = {}
  /\ queue = <<>>
  /\ reservation = [c \in Requests |-> "RELEASED"]
  /\ reservedCount = 0
  /\ drainScheduled = FALSE
  /\ accepting = TRUE
  /\ abortRequested = FALSE

(* Mutant: promised slots do not count. *)
HasRoom == Len(queue) < MaximumQueued

HasCapacity == Len(queue) + reservedCount < MaximumQueued

Reserve(c) ==
  /\ accepting /\ HasCapacity
  /\ reservation[c] # "RESERVED"
  /\ reservation' = [reservation EXCEPT ![c] = "RESERVED"]
  /\ reservedCount' = reservedCount + 1
  /\ UNCHANGED <<running, aborted, queue, drainScheduled, accepting, abortRequested>>

(* Mutant: a reservation gives its slot back every time it is asked to.    *)
SettleAlways(c, state) ==
  /\ reservation' = [reservation EXCEPT ![c] = state]
  /\ reservedCount' = reservedCount - 1

(* JobQueueReservation.release and consume give the slot back only once.   *)
Settle(c, state) ==
  IF reservation[c] = "RESERVED"
  THEN /\ reservation' = [reservation EXCEPT ![c] = state]
       /\ reservedCount' = reservedCount - 1
  ELSE UNCHANGED <<reservation, reservedCount>>

Release(c) ==
  /\ Settle(c, "RELEASED")
  /\ UNCHANGED <<running, aborted, queue, drainScheduled, accepting, abortRequested>>

(* Mutant: only the running jobs are searched for the id.                  *)
PushUnlessRunning(id) ==
  IF id \in running
  THEN UNCHANGED <<queue, drainScheduled>>
  ELSE /\ queue' = Append(queue, id)
       /\ drainScheduled' = TRUE

(* Push the entry and schedule a drain, unless the id is already there.    *)
Push(id) ==
  IF id \in running \/ InQueue(id)
  THEN UNCHANGED <<queue, drainScheduled>>
  ELSE /\ queue' = Append(queue, id)
       /\ drainScheduled' = TRUE

(* enqueue with a reservation: a closed queue releases it, a used one is   *)
(* refused, and a duplicate id is refused after the slot was consumed.     *)
EnqueueReserved(c, id) ==
  /\ \/ ~accepting /\ Settle(c, "RELEASED") /\ UNCHANGED <<queue, drainScheduled>>
     \/ accepting /\ reservation[c] = "RESERVED" /\ Settle(c, "CONSUMED") /\ Push(id)
  /\ UNCHANGED <<running, aborted, accepting, abortRequested>>

(* enqueue without one takes what capacity the reservations leave.         *)
Enqueue(id) ==
  /\ accepting /\ HasCapacity
  /\ Push(id)
  /\ UNCHANGED <<running, aborted, reservation, reservedCount, accepting, abortRequested>>

-----------------------------------------------------------------------------
(* drain, from a queue whose running set is `lanes`: start entries from    *)
(* the front while a lane is free.                                         *)
(* Mutants: one lane too many; a closed queue stops draining.              *)
FreeOneMore(lanes) == Concurrency + 1 - Cardinality(lanes)
Free(lanes)  == Concurrency - Cardinality(lanes)
FillAccepting(lanes) ==
  IF ~accepting THEN 0 ELSE IF Len(queue) < Free(lanes) THEN Len(queue) ELSE Free(lanes)
Fill(lanes)  == IF Len(queue) < Free(lanes) THEN Len(queue) ELSE Free(lanes)
(* Mutants: an entry started after the abort is not told; the last entry   *)
(* is started first; the controller of an ended task is kept.              *)
DrainUntold(lanes) ==
  LET started == {queue[i] : i \in 1 .. Fill(lanes)} IN
  /\ running' = lanes \cup started
  /\ queue' = SubSeq(queue, Fill(lanes) + 1, Len(queue))
  /\ aborted' = aborted \cap lanes
DrainLast(lanes) ==
  LET kept == Len(queue) - Fill(lanes)
      started == {queue[i] : i \in kept + 1 .. Len(queue)} IN
  /\ running' = lanes \cup started
  /\ queue' = SubSeq(queue, 1, kept)
  /\ aborted' = (aborted \cap lanes) \cup (IF abortRequested THEN started ELSE {})
DrainKeeping(lanes) ==
  LET started == {queue[i] : i \in 1 .. Fill(lanes)} IN
  /\ running' = lanes \cup started
  /\ queue' = SubSeq(queue, Fill(lanes) + 1, Len(queue))
  /\ aborted' = aborted \cup (IF abortRequested THEN started ELSE {})
Drain(lanes) ==
  LET started == {queue[i] : i \in 1 .. Fill(lanes)} IN
  /\ running' = lanes \cup started
  /\ queue' = SubSeq(queue, Fill(lanes) + 1, Len(queue))
  /\ aborted' = (aborted \cap lanes) \cup (IF abortRequested THEN started ELSE {})

Microtask ==
  /\ drainScheduled
  /\ drainScheduled' = FALSE
  /\ Drain(running)
  /\ UNCHANGED <<reservation, reservedCount, accepting, abortRequested>>

(* Mutant: the freed lane is not drained.                                  *)
TaskEndsOnly(id) ==
  /\ id \in running
  /\ running' = running \ {id}
  /\ aborted' = aborted \ {id}
  /\ UNCHANGED <<queue, reservation, reservedCount, drainScheduled, accepting, abortRequested>>

(* The task of an entry settles: the lane is freed and drained at once.    *)
TaskEnds(id) ==
  /\ id \in running
  /\ Drain(running \ {id})
  /\ UNCHANGED <<reservation, reservedCount, drainScheduled, accepting, abortRequested>>

StopAccepting ==
  /\ accepting' = FALSE
  /\ UNCHANGED <<running, aborted, queue, reservation, reservedCount, drainScheduled, abortRequested>>

(* shutdown aborts only after stopAccepting and a grace period.            *)
Abort ==
  /\ ~accepting
  /\ abortRequested' = TRUE
  /\ aborted' = running
  /\ UNCHANGED <<running, queue, reservation, reservedCount, drainScheduled, accepting>>

Next ==
  \/ \E c \in Requests : \/ Reserve(c) \/ Release(c)
                         \/ \E id \in Ids : EnqueueReserved(c, id)
  \/ \E id \in Ids : Enqueue(id) \/ TaskEnds(id)
  \/ Microtask \/ StopAccepting \/ Abort

Spec == Init /\ [][Next]_vars

(* Microtasks run; a task settles, because its commands have timeouts.     *)
FairSpec == Spec /\ WF_vars(Microtask) /\ \A id \in Ids : WF_vars(TaskEnds(id))

-----------------------------------------------------------------------------
(* The values of the queue's fields.                                       *)
TypeOK ==
  /\ running \subseteq Ids /\ aborted \subseteq running
  /\ queue \in Seq(Ids)
  /\ reservation \in [Requests -> {"RESERVED", "CONSUMED", "RELEASED"}]
  /\ reservedCount \in Int
  /\ drainScheduled \in BOOLEAN /\ accepting \in BOOLEAN /\ abortRequested \in BOOLEAN

Holders == {c \in Requests : reservation[c] = "RESERVED"}

(* The count equals the reservations that can still be used: no path of a  *)
(* request gives its slot back twice or never, closing queue included.     *)
CountIsHolders == reservedCount = Cardinality(Holders)

(* Waiting jobs and promised slots never exceed the capacity, so a holder  *)
(* of a reservation is never refused for lack of room.                     *)
CapacityHolds == Len(queue) + reservedCount <= MaximumQueued

(* At most Concurrency tasks run; with one lane, deployments never overlap.*)
LanesHold == Cardinality(running) <= Concurrency

(* An id is in the queue or running at most once: two approvals of one dry *)
(* run never execute its deployment side by side.                          *)
NoDuplicate ==
  /\ \A i, k \in DOMAIN queue : i # k => queue[i] # queue[k]
  /\ \A i \in DOMAIN queue : queue[i] \notin running

(* After an abort every running task has been told, also one that was      *)
(* still waiting when the abort came.                                      *)
AbortReachesAll == abortRequested => aborted = running

(* The queue keeps what it promised: no slot is lost or given twice, no    *)
(* holder is refused, no lane is shared, no job runs twice, and an abort   *)
(* reaches every task.                                                     *)
QueueSafety ==
  TypeOK /\ CountIsHolders /\ CapacityHolds /\ LanesHold /\ NoDuplicate /\ AbortReachesAll

(* A free lane and a waiting entry never meet without a drain under way,   *)
(* so a waiting job is never forgotten.                                    *)
NoIdleLane == queue # <<>> /\ Cardinality(running) < Concurrency => drainScheduled

(* Every accepted job gets a lane, in whatever order the others end.       *)
WaitingStarts == \A id \in Ids : InQueue(id) ~> id \in running

(* Once the queue is closed it empties, so that the shutdown can go on.    *)
ClosedQueueEmpties == ~accepting ~> (queue = <<>> /\ running = {})
=============================================================================
