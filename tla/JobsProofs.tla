----------------------------- MODULE JobsProofs -----------------------------
(***************************************************************************)
(* What runs beside each other, for any jobs, comparisons, options and     *)
(* bounds: the job queue, an external command, a run of the command line   *)
(* and the comparisons.  The queue has a theorem of its own specification; *)
(* the others are proved of all of them interleaved, as the run checks     *)
(* them.  A step of one leaves the variables of the others alone, so each  *)
(* inductive invariant is preserved by its own steps and by stuttering.    *)
(***************************************************************************)
EXTENDS MCJobs, FiniteSetTheorems, SequenceTheorems, TLAPS

(* The queue.  Every named property depends on the others: capacity needs  *)
(* the exact count, the lanes and the idle lane need the entries to be     *)
(* distinct.                                                               *)
IInv ==
  /\ TypeOK
  /\ IsFiniteSet(Holders) /\ CountIsHolders
  /\ CapacityHolds /\ LanesHold /\ NoDuplicate /\ AbortReachesAll /\ NoIdleLane

-----------------------------------------------------------------------------
(* The first n entries of a queue without duplicates are n jobs.           *)
LEMMA StartedCount ==
  ASSUME TypeOK, NoDuplicate, NEW n \in 0 .. Len(queue)
  PROVE  LET started == {queue[i] : i \in 1 .. n} IN
         /\ started \subseteq Ids
         /\ IsFiniteSet(started)
         /\ Cardinality(started) = n
<1> DEFINE started == {queue[i] : i \in 1 .. n}
           f == [i \in 1 .. n |-> queue[i]]
<1>1. queue \in Seq(Ids) /\ Len(queue) \in Nat /\ DOMAIN queue = 1 .. Len(queue)
  BY LenProperties DEF TypeOK
<1>2. 1 .. n \subseteq 1 .. Len(queue)
  BY <1>1
<1>3. started \subseteq Ids
  BY <1>1, <1>2, ElementOfSeq
<1>4. f \in Bijection(1 .. n, started)
  BY <1>1, <1>2 DEF Bijection, Injection, Surjection, IsInjective, NoDuplicate
<1>5. IsFiniteSet(1 .. n) /\ Cardinality(1 .. n) = n
  BY <1>1, FS_Interval
<1>6. ExistsBijection(1 .. n, started)
  BY <1>4 DEF ExistsBijection
<1>7. IsFiniteSet(started) /\ Cardinality(started) = n
  BY <1>5, <1>6, FS_Bijection
<1> QED  BY <1>3, <1>7

(* A drain from the running set `lanes` keeps the lanes, starts every      *)
(* waiting job at most once, and stops only at a full set or empty queue.  *)
LEMMA DrainFits ==
  ASSUME TypeOK, NoDuplicate, NEW lanes \in SUBSET running,
         Cardinality(lanes) <= Concurrency, Drain(lanes)
  PROVE  /\ running' \subseteq Ids /\ aborted' \subseteq running'
         /\ queue' \in Seq(Ids) /\ Len(queue') <= Len(queue)
         /\ LanesHold' /\ NoDuplicate'
         /\ queue' # <<>> => ~ Cardinality(running') < Concurrency
<1> DEFINE n == Fill(lanes)
           started == {queue[i] : i \in 1 .. n}
<1>1. queue \in Seq(Ids) /\ Len(queue) \in Nat /\ DOMAIN queue = 1 .. Len(queue)
  BY LenProperties DEF TypeOK
<1>2. lanes \subseteq Ids /\ IsFiniteSet(lanes) /\ Cardinality(lanes) \in Nat
  BY QueueAssumption, FS_Subset, FS_CardinalityType DEF TypeOK
<1>3. /\ n \in 0 .. Len(queue)
      /\ n <= Concurrency - Cardinality(lanes)
      /\ n < Len(queue) => n = Concurrency - Cardinality(lanes)
  BY <1>1, <1>2, QueueAssumption DEF Fill, Free
<1> HIDE DEF n
<1>4. started \subseteq Ids /\ IsFiniteSet(started) /\ Cardinality(started) = n
  BY <1>3, StartedCount
<1>5. \A i \in 1 .. Len(queue) : queue[i] \notin lanes
  BY <1>1 DEF NoDuplicate
<1>6. lanes \cap started = {}
  BY <1>1, <1>3, <1>5
<1>7. Cardinality(lanes \cup started) = Cardinality(lanes) + n
  <2> HIDE DEF started
  <2>1. Cardinality(lanes \cup started)
          = Cardinality(lanes) + Cardinality(started) - Cardinality(lanes \cap started)
    BY <1>2, <1>4, FS_Union
  <2>2. Cardinality(lanes \cap started) = 0
    BY <1>6, FS_EmptySet
  <2> QED  BY <1>2, <1>3, <1>4, <2>1, <2>2
<1>8. running' = lanes \cup started /\ queue' = SubSeq(queue, n + 1, Len(queue))
  BY DEF Drain, n
<1>9. aborted' \subseteq running'
  BY <1>8 DEF Drain, n
<1>10. /\ queue' \in Seq(Ids)
       /\ Len(queue') = Len(queue) - n
       /\ \A i \in 1 .. Len(queue) - n : queue'[i] = queue[n + i]
  <2>1. \A i \in n + 1 .. Len(queue) : queue[i] \in Ids
    BY <1>1, <1>3, ElementOfSeq
  <2>2. /\ SubSeq(queue, n + 1, Len(queue)) \in Seq(Ids)
        /\ Len(SubSeq(queue, n + 1, Len(queue))) =
             IF n + 1 <= Len(queue) THEN Len(queue) - (n + 1) + 1 ELSE 0
        /\ \A i \in 1 .. Len(queue) - (n + 1) + 1 :
             SubSeq(queue, n + 1, Len(queue))[i] = queue[(n + 1) + i - 1]
    BY <1>1, <1>3, <2>1, SubSeqProperties
  <2> QED  BY <1>1, <1>3, <1>8, <2>2
<1>11. LanesHold'
  BY <1>2, <1>3, <1>7, <1>8, QueueAssumption DEF LanesHold
<1>12. DOMAIN queue' = 1 .. Len(queue) - n
  BY <1>10, LenProperties
<1>13. NoDuplicate'
  <2>1. \A i \in DOMAIN queue' : n + i \in DOMAIN queue /\ n + i \notin 1 .. n
    BY <1>1, <1>3, <1>12
  <2>2. \A i \in DOMAIN queue' : queue'[i] = queue[n + i]
    BY <1>10, <1>12
  <2>3. \A i, k \in DOMAIN queue' : i # k => queue'[i] # queue'[k]
    <3>1. \A i, k \in DOMAIN queue' : i # k => n + i # n + k
      BY <1>1, <1>3, <1>12
    <3> QED  BY <2>1, <2>2, <3>1 DEF NoDuplicate
  <2>4. \A i \in DOMAIN queue' : queue'[i] \notin lanes
    BY <1>1, <1>5, <2>1, <2>2
  <2>5. \A i \in DOMAIN queue' : queue'[i] \notin started
    <3>1. SUFFICES ASSUME NEW i \in DOMAIN queue', NEW k \in 1 .. n
                   PROVE  queue'[i] # queue[k]
      OBVIOUS
    <3>2. k \in DOMAIN queue /\ n + i \in DOMAIN queue /\ n + i # k
      BY <1>1, <1>3, <2>1
    <3> QED  BY <2>2, <3>2 DEF NoDuplicate
  <2> QED  BY <1>8, <2>3, <2>4, <2>5 DEF NoDuplicate
<1>14. queue' # <<>> => ~ Cardinality(running') < Concurrency
  <2>1. queue' # <<>> => Len(queue') # 0
    BY <1>10, EmptySeq
  <2>2. Len(queue') # 0 => Cardinality(running') = Concurrency
    <3> HIDE DEF started
    <3>1. Cardinality(running') = Cardinality(lanes) + n
      BY <1>7, <1>8
    <3>2. Len(queue') # 0 => n = Concurrency - Cardinality(lanes)
      <4>1. Len(queue') = Len(queue) - n
        BY <1>10
      <4>2. Len(queue') # 0 => n < Len(queue)
        <5>1. n \in Nat /\ Len(queue) \in Nat /\ n <= Len(queue)
          BY <1>1, <1>3
        <5>2. n = Len(queue) => Len(queue') = 0
          BY <4>1, <5>1
        <5> QED  BY <5>1, <5>2
      <4> QED  BY <1>3, <4>2
    <3> QED  BY <1>2, <3>1, <3>2, QueueAssumption
  <2> QED  BY <2>1, <2>2, QueueAssumption
<1>15. running' \subseteq Ids
  BY <1>2, <1>4, <1>8
<1>16. Len(queue') <= Len(queue)
  BY <1>1, <1>3, <1>10
<1> QED  BY <1>9, <1>10, <1>11, <1>13, <1>14, <1>15, <1>16

(* What giving a slot back does to the count, whatever the reservation was.*)
LEMMA SettleCounts ==
  ASSUME IInv, NEW c \in Requests, NEW state \in {"CONSUMED", "RELEASED"}, Settle(c, state)
  PROVE  /\ reservation' \in [Requests -> {"RESERVED", "CONSUMED", "RELEASED"}]
         /\ reservedCount' \in Int
         /\ IsFiniteSet(Holders') /\ CountIsHolders'
         /\ reservedCount' <= reservedCount
         /\ reservation[c] = "RESERVED" => reservedCount' = reservedCount - 1
<1>1. CASE reservation[c] = "RESERVED"
  <2>1. /\ reservation' = [reservation EXCEPT ![c] = state]
        /\ reservedCount' = reservedCount - 1
    BY <1>1 DEF Settle
  <2>2. Holders' = Holders \ {c} /\ c \in Holders
    BY <1>1, <2>1 DEF Holders, IInv, TypeOK
  <2>3. IsFiniteSet(Holders') /\ Cardinality(Holders') = Cardinality(Holders) - 1
    BY <2>2, FS_RemoveElement DEF IInv
  <2> QED  BY <2>1, <2>3 DEF IInv, TypeOK, CountIsHolders
<1>2. CASE reservation[c] # "RESERVED"
  <2>1. reservation' = reservation /\ reservedCount' = reservedCount
    BY <1>2 DEF Settle
  <2>2. Holders' = Holders
    BY <2>1 DEF Holders
  <2> QED  BY <1>2, <2>1, <2>2 DEF IInv, TypeOK, CountIsHolders
<1> QED  BY <1>1, <1>2

(* What pushing an id does to a queue without duplicates.                  *)
LEMMA PushKeeps ==
  ASSUME TypeOK, NoDuplicate, NoIdleLane, NEW id \in Ids, Push(id), UNCHANGED running
  PROVE  /\ queue' \in Seq(Ids) /\ drainScheduled' \in BOOLEAN
         /\ Len(queue') <= Len(queue) + 1
         /\ NoDuplicate' /\ NoIdleLane'
<1>1. queue \in Seq(Ids) /\ Len(queue) \in Nat /\ DOMAIN queue = 1 .. Len(queue)
  BY LenProperties DEF TypeOK
<1>2. CASE id \in running \/ InQueue(id)
  <2>1. queue' = queue /\ drainScheduled' = drainScheduled
    BY <1>2 DEF Push
  <2> QED  BY <1>1, <2>1 DEF TypeOK, NoDuplicate, NoIdleLane
<1>3. CASE ~(id \in running \/ InQueue(id))
  <2>1. queue' = Append(queue, id) /\ drainScheduled' = TRUE
    BY <1>3 DEF Push
  <2>2. /\ queue' \in Seq(Ids) /\ Len(queue') = Len(queue) + 1
        /\ \A i \in 1 .. Len(queue) : queue'[i] = queue[i]
        /\ queue'[Len(queue) + 1] = id
    BY <1>1, <2>1, AppendProperties
  <2>3. DOMAIN queue' = 1 .. Len(queue) + 1
    BY <2>2, LenProperties
  <2>4. \A i \in DOMAIN queue' : i \in DOMAIN queue \/ i = Len(queue) + 1
    BY <1>1, <2>3
  <2>5. \A i \in DOMAIN queue : queue[i] # id
    BY <1>3 DEF InQueue
  <2>6. NoDuplicate'
    BY <1>1, <1>3, <2>2, <2>4, <2>5 DEF NoDuplicate
  <2> QED  BY <1>1, <2>1, <2>2, <2>6 DEF NoIdleLane
<1> QED  BY <1>2, <1>3

-----------------------------------------------------------------------------
LEMMA Initially == Init => IInv
<1> SUFFICES ASSUME Init PROVE IInv
  OBVIOUS
<1>1. Holders = {}
  BY DEF Init, Holders
<1>2. IsFiniteSet({}) /\ Cardinality({}) = 0 /\ Cardinality(Holders) = 0
  BY <1>1, FS_EmptySet
<1>3. <<>> \in Seq(Ids) /\ Len(<<>>) = 0
  BY EmptySeq
<1>4. TypeOK
  <2>1. queue \in Seq(Ids)
    BY <1>3 DEF Init
  <2>2. reservation \in [Requests -> {"RESERVED", "CONSUMED", "RELEASED"}]
    BY DEF Init
  <2>3. running \subseteq Ids /\ aborted \subseteq running
    BY DEF Init
  <2>4. reservedCount \in Int
    BY DEF Init
  <2>5. drainScheduled \in BOOLEAN /\ accepting \in BOOLEAN /\ abortRequested \in BOOLEAN
    BY Zenon DEF Init
  <2> QED  BY <2>1, <2>2, <2>3, <2>4, <2>5 DEF TypeOK
<1>5. NoDuplicate
  BY <1>3, LenProperties DEF Init, NoDuplicate
<1> QED
  BY <1>1, <1>2, <1>3, <1>4, <1>5, QueueAssumption
  DEF Init, IInv, CountIsHolders, CapacityHolds, LanesHold, AbortReachesAll, NoIdleLane

(* Steps that drain.                                                       *)
LEMMA DrainKeepsIInv ==
  ASSUME IInv, NEW lanes \in SUBSET running, Cardinality(lanes) <= Concurrency, Drain(lanes),
         UNCHANGED <<reservation, reservedCount, accepting, abortRequested>>,
         drainScheduled' \in BOOLEAN
  PROVE  IInv'
<1>1. /\ running' \subseteq Ids /\ aborted' \subseteq running'
      /\ queue' \in Seq(Ids) /\ Len(queue') <= Len(queue)
      /\ LanesHold' /\ NoDuplicate'
      /\ queue' # <<>> => ~ Cardinality(running') < Concurrency
  BY DrainFits DEF IInv
<1>2. TypeOK'
  BY <1>1 DEF IInv, TypeOK
<1>3. Holders' = Holders
  BY DEF Holders
<1>4. IsFiniteSet(Holders') /\ CountIsHolders'
  BY <1>3 DEF IInv, CountIsHolders
<1>5. CapacityHolds'
  <2>1. Len(queue) \in Nat /\ Len(queue') \in Nat
    BY <1>1, LenProperties DEF IInv, TypeOK
  <2> QED  BY <1>1, <2>1, QueueAssumption DEF IInv, TypeOK, CapacityHolds
<1>6. AbortReachesAll'
  BY DEF IInv, AbortReachesAll, TypeOK, Drain
<1>7. NoIdleLane'
  BY <1>1 DEF NoIdleLane
<1> QED  BY <1>1, <1>2, <1>4, <1>5, <1>6, <1>7 DEF IInv

(* Steps that take a slot or give it back.                                 *)
LEMMA SlotKeepsIInv ==
  ASSUME IInv, NEW c \in Requests, Reserve(c) \/ Release(c)
  PROVE  IInv'
<1>0. Len(queue) \in Nat /\ reservedCount \in Int /\ MaximumQueued \in Nat
  BY QueueAssumption, LenProperties DEF IInv, TypeOK
<1>1. CASE Reserve(c)
  <2>1. Holders' = Holders \cup {c} /\ c \notin Holders
    BY <1>1 DEF Reserve, Holders, IInv, TypeOK
  <2>2. IsFiniteSet(Holders') /\ Cardinality(Holders') = Cardinality(Holders) + 1
    BY <2>1, FS_AddElement DEF IInv
  <2>3. TypeOK'
    BY <1>1 DEF Reserve, IInv, TypeOK
  <2>4. CountIsHolders'
    BY <1>1, <2>2 DEF Reserve, IInv, CountIsHolders
  <2>5. CapacityHolds'
    BY <1>0, <1>1 DEF Reserve, HasCapacity, CapacityHolds
  <2> QED
    BY <1>1, <2>2, <2>3, <2>4, <2>5
    DEF Reserve, IInv, LanesHold, NoDuplicate, AbortReachesAll, NoIdleLane
<1>2. CASE Release(c)
  <2>1. Settle(c, "RELEASED")
    BY <1>2 DEF Release
  <2>2. /\ reservation' \in [Requests -> {"RESERVED", "CONSUMED", "RELEASED"}]
        /\ reservedCount' \in Int
        /\ IsFiniteSet(Holders') /\ CountIsHolders'
        /\ reservedCount' <= reservedCount
    BY <2>1, SettleCounts
  <2>3. TypeOK' /\ CapacityHolds'
    BY <1>0, <1>2, <2>2 DEF Release, IInv, TypeOK, CapacityHolds
  <2> QED
    BY <1>2, <2>2, <2>3 DEF Release, IInv, LanesHold, NoDuplicate, AbortReachesAll, NoIdleLane
<1> QED  BY <1>1, <1>2

(* Steps that hand a job to the queue.                                     *)
LEMMA EnqueueKeepsIInv ==
  ASSUME IInv, NEW id \in Ids,
         (\E c \in Requests : EnqueueReserved(c, id)) \/ Enqueue(id)
  PROVE  IInv'
<1>0. Len(queue) \in Nat /\ reservedCount \in Int /\ MaximumQueued \in Nat
  BY QueueAssumption, LenProperties DEF IInv, TypeOK
<1>1. ASSUME NEW c \in Requests, EnqueueReserved(c, id) PROVE IInv'
  <2>1. CASE ~accepting /\ Settle(c, "RELEASED") /\ UNCHANGED <<queue, drainScheduled>>
    <3>1. /\ reservation' \in [Requests -> {"RESERVED", "CONSUMED", "RELEASED"}]
          /\ reservedCount' \in Int
          /\ IsFiniteSet(Holders') /\ CountIsHolders'
          /\ reservedCount' <= reservedCount
      BY <2>1, SettleCounts
    <3>2. TypeOK' /\ CapacityHolds'
      BY <1>0, <1>1, <2>1, <3>1 DEF EnqueueReserved, IInv, TypeOK, CapacityHolds
    <3> QED
      BY <1>1, <2>1, <3>1, <3>2
      DEF EnqueueReserved, IInv, LanesHold, NoDuplicate, AbortReachesAll, NoIdleLane
  <2>2. CASE accepting /\ reservation[c] = "RESERVED" /\ Settle(c, "CONSUMED") /\ Push(id)
    <3>1. /\ reservation' \in [Requests -> {"RESERVED", "CONSUMED", "RELEASED"}]
          /\ reservedCount' \in Int
          /\ IsFiniteSet(Holders') /\ CountIsHolders'
          /\ reservedCount' = reservedCount - 1
      BY <2>2, SettleCounts
    <3>2. /\ queue' \in Seq(Ids) /\ drainScheduled' \in BOOLEAN
          /\ Len(queue') <= Len(queue) + 1
          /\ NoDuplicate' /\ NoIdleLane'
      BY <1>1, <2>2, PushKeeps DEF EnqueueReserved, IInv
    <3>3. Len(queue') \in Nat
      BY <3>2, LenProperties
    <3>4. TypeOK' /\ CapacityHolds'
      BY <1>0, <1>1, <3>1, <3>2, <3>3 DEF EnqueueReserved, IInv, TypeOK, CapacityHolds
    <3> QED
      BY <1>1, <3>1, <3>2, <3>4 DEF EnqueueReserved, IInv, LanesHold, AbortReachesAll
  <2> QED  BY <1>1, <2>1, <2>2 DEF EnqueueReserved
<1>2. CASE Enqueue(id)
  <2>1. /\ queue' \in Seq(Ids) /\ drainScheduled' \in BOOLEAN
        /\ Len(queue') <= Len(queue) + 1
        /\ NoDuplicate' /\ NoIdleLane'
    BY <1>2, PushKeeps DEF Enqueue, IInv
  <2>2. Len(queue') \in Nat
    BY <2>1, LenProperties
  <2>3. TypeOK' /\ CapacityHolds'
    BY <1>0, <1>2, <2>1, <2>2 DEF Enqueue, HasCapacity, IInv, TypeOK, CapacityHolds
  <2>4. Holders' = Holders
    BY <1>2 DEF Enqueue, Holders
  <2> QED
    BY <1>2, <2>1, <2>3, <2>4 DEF Enqueue, IInv, CountIsHolders, LanesHold, AbortReachesAll
<1> QED  BY <1>1, <1>2

LEMMA StepKeepsIInv ==
  ASSUME IInv, [Next]_vars
  PROVE  IInv'
<1>1. IsFiniteSet(running) /\ Cardinality(running) \in Nat /\ Cardinality(running) <= Concurrency
  BY QueueAssumption, FS_Subset, FS_CardinalityType DEF IInv, TypeOK, LanesHold
<1>2. ASSUME NEW c \in Requests, Reserve(c) \/ Release(c) PROVE IInv'
  BY <1>2, SlotKeepsIInv
<1>3. ASSUME NEW id \in Ids, (\E c \in Requests : EnqueueReserved(c, id)) \/ Enqueue(id)
      PROVE  IInv'
  BY <1>3, EnqueueKeepsIInv
<1>4. ASSUME NEW id \in Ids, TaskEnds(id) PROVE IInv'
  <2> DEFINE lanes == running \ {id}
  <2>1. Cardinality(lanes) <= Concurrency
    <3>1. Cardinality(lanes) = Cardinality(running) - 1
      BY <1>1, <1>4, FS_RemoveElement DEF TaskEnds
    <3> QED  BY <1>1, <3>1, QueueAssumption
  <2>2. Drain(lanes) /\ UNCHANGED <<reservation, reservedCount, accepting, abortRequested>>
    BY <1>4 DEF TaskEnds
  <2>3. drainScheduled' \in BOOLEAN
    BY <1>4 DEF TaskEnds, IInv, TypeOK
  <2>4. lanes \in SUBSET running
    OBVIOUS
  <2> HIDE DEF lanes
  <2> QED  BY <2>1, <2>2, <2>3, <2>4, DrainKeepsIInv
<1>5. CASE Microtask
  <2>1. /\ Drain(running) /\ drainScheduled' \in BOOLEAN
        /\ UNCHANGED <<reservation, reservedCount, accepting, abortRequested>>
    BY <1>5 DEF Microtask
  <2> QED  BY <1>1, <2>1, DrainKeepsIInv
<1>6. CASE StopAccepting
  BY <1>6 DEF StopAccepting, IInv, TypeOK, Holders, CountIsHolders, CapacityHolds,
              LanesHold, NoDuplicate, AbortReachesAll, NoIdleLane
<1>7. CASE Abort
  BY <1>7 DEF Abort, IInv, TypeOK, Holders, CountIsHolders, CapacityHolds,
              LanesHold, NoDuplicate, AbortReachesAll, NoIdleLane
<1>8. CASE UNCHANGED vars
  BY <1>8 DEF vars, IInv, TypeOK, Holders, CountIsHolders, CapacityHolds,
              LanesHold, NoDuplicate, AbortReachesAll, NoIdleLane
<1> QED  BY <1>2, <1>3, <1>4, <1>5, <1>6, <1>7, <1>8 DEF Next

LEMMA Invariance == Spec => []IInv
<1>1. Init => IInv
  BY Initially
<1>2. IInv /\ [Next]_vars => IInv'
  BY StepKeepsIInv
<1> QED  BY <1>1, <1>2, PTL DEF Spec

-----------------------------------------------------------------------------
(* The queue keeps what it promised: its fields keep their types, waiting  *)
(* jobs and promised slots stay within the capacity and the count of the   *)
(* slots is exact, no more tasks than lanes run, no job is queued twice or *)
(* waits while it runs, and no running task misses the abort.              *)
THEOREM QueueKeepsItsPromises == Spec => []QueueSafety
<1>1. IInv => QueueSafety
  BY DEF IInv, QueueSafety
<1> QED  BY <1>1, Invariance, PTL

(* No waiting job is forgotten while a lane is free.                       *)
THEOREM NothingIsForgotten == Spec => []NoIdleLane
<1>1. IInv => NoIdleLane
  BY DEF IInv
<1> QED  BY <1>1, Invariance, PTL

(* The queue among the others is the queue: what is proved of it alone     *)
(* holds of all of them interleaved.                                       *)
LEMMA QueueRuns == MCSpec => Spec
<1>1. MCInit => Init
  BY DEF MCInit
<1>2. [MCNext]_allVars => [Next]_vars
  BY DEF MCNext, QueueStep, CompareStep, CommandStep, ProcessStep, allVars
<1> QED  BY <1>1, <1>2, PTL DEF MCSpec, Spec

(* The queue's promises hold while the others run beside it.               *)
THEOREM QueueAmongOthers == MCSpec => [](QueueSafety /\ NoIdleLane)
BY QueueRuns, QueueKeepsItsPromises, NothingIsForgotten, PTL
-----------------------------------------------------------------------------
(* External commands.  What is closed has ended; Git's outcome is known    *)
(* when it is closed, or it never ran.                                     *)
ProcessTypes ==
  /\ kind \in {"sf", "git"} /\ child \in {"new", "running", "failed", "exited"}
  /\ helper \in {"none", "holding", "quiet"} /\ code \in {0, 1} /\ output \in 0 .. MaxOutput
  /\ wanted \in Process!Reasons
  /\ forceKill \in BOOLEAN /\ big \in BOOLEAN /\ checking \in BOOLEAN /\ closed \in BOOLEAN
  /\ outcome \in {"pending", "success", "failed", "not_started"}

ProcessInv ==
  /\ ProcessTypes
  /\ Process!NotStartedIsTrue /\ Process!SuccessIsWhole
  /\ (child = "new" => wanted = "none" /\ helper = "none" /\ ~closed /\ ~checking)
  /\ (child = "failed" => wanted # "none" \/ (kind = "sf" /\ outcome # "pending"))
  /\ (closed => child \in {"failed", "exited"})
  /\ (outcome = "success" => closed)
  /\ (kind = "sf" => ~big)
  /\ (output = MaxOutput => wanted # "none" \/ outcome \in {"failed", "not_started"})
  /\ (kind = "git" /\ outcome # "pending" => closed \/ child = "new")
  /\ (kind = "git" /\ closed /\ wanted \in {"aborted", "timeout", "size"} => helper = "none")

LEMMA ProcessTypesAre == ProcessTypes <=> Process!ProcessTypeOK
BY DEF ProcessTypes, Process!ProcessTypeOK

LEMMA ProcessInvInit == Process!ProcessInit => ProcessInv
<1> SUFFICES ASSUME Process!ProcessInit PROVE ProcessInv
  OBVIOUS
<1> USE DEF Process!ProcessInit
<1>1. ProcessTypes
  <2>1. forceKill \in BOOLEAN /\ big \in BOOLEAN /\ checking \in BOOLEAN /\ closed \in BOOLEAN
    BY Zenon
  <2>2. output \in 0 .. MaxOutput
    BY VersionsAssumption
  <2> QED  BY <2>1, <2>2 DEF ProcessTypes, Process!Reasons
<1>2. ~big /\ ~closed /\ ~checking
  BY Zenon
<1> QED
  BY <1>1, <1>2, VersionsAssumption DEF ProcessInv, Process!NotStartedIsTrue, Process!SuccessIsWhole

(* What asking a command to end does.                                      *)
LEMMA TerminateDoes ==
  ASSUME ProcessTypes, NEW reason \in {"aborted", "timeout", "size", "quota"},
         Process!Terminate(reason)
  PROVE  /\ forceKill' \in BOOLEAN /\ wanted' \in Process!Reasons
         /\ (wanted' = wanted \/ (outcome = "pending" /\ wanted = "none" /\ wanted' = reason))
         /\ (outcome = "pending" => wanted' # "none")
<1>1. forceKill' \in BOOLEAN
  BY Zenon DEF Process!Terminate
<1> QED  BY <1>1 DEF ProcessTypes, Process!Terminate, Process!Reasons

LEMMA ProcessInvStep ==
  ASSUME ProcessInv, Process!ProcessNext
  PROVE  ProcessInv'
<1> USE VersionsAssumption
<1> USE DEF ProcessInv, ProcessTypes, Process!NotStartedIsTrue, Process!SuccessIsWhole,
            Process!System, Process!Disk
<1>1. CASE Process!Start
  BY <1>1 DEF Process!Start, Process!Reasons
<1>2. CASE Process!LateError
  BY <1>2 DEF Process!LateError, Process!Misreported
<1>3. CASE Process!Abort
  <2>1. Process!Terminate("aborted")
    BY <1>3 DEF Process!Abort
  <2> QED  BY <1>3, <2>1, TerminateDoes DEF Process!Abort
<1>4. CASE Process!TimeOut
  <2>1. Process!Terminate("timeout")
    BY <1>4 DEF Process!TimeOut
  <2> QED  BY <1>4, <2>1, TerminateDoes DEF Process!TimeOut
<1>5. CASE Process!Output
  <2>1. CASE output' = MaxOutput
    <3>1. Process!Terminate("size")
      BY <1>5, <2>1 DEF Process!Output
    <3> QED  BY <1>5, <2>1, <3>1, TerminateDoes DEF Process!Output
  <2>2. CASE output' # MaxOutput
    BY <1>5, <2>2 DEF Process!Output
  <2> QED  BY <2>1, <2>2
<1>6. CASE Process!Fork
  BY <1>6 DEF Process!Fork
<1>7. CASE Process!ChildExit
  BY <1>7 DEF Process!ChildExit
<1>8. CASE Process!HelperExit
  BY <1>8 DEF Process!HelperExit
<1>9. CASE Process!Grow
  BY <1>9 DEF Process!Grow
<1>10. CASE Process!Measure
  BY <1>10 DEF Process!Measure
<1>11. CASE Process!ForceKill
  BY <1>11 DEF Process!ForceKill, Process!GroupKilled
<1>12. CASE Process!Close
  <2>1. CASE kind = "sf"
    <3>1. outcome' = "failed" \/ (outcome' = "success" /\ wanted = "none" /\ code = 0)
      BY <1>12, <2>1 DEF Process!Close, Process!Verdict
    <3>2. closed' /\ wanted' = wanted /\ output' = output /\ kind' = kind /\ UNCHANGED <<child, helper, code>>
      BY <1>12, <2>1 DEF Process!Close
    <3>3. closed' \in BOOLEAN /\ forceKill' \in BOOLEAN /\ big' = big /\ checking' = checking
      BY Zenon, <1>12 DEF Process!Close
    <3>4. child \in {"failed", "exited"} /\ outcome = "pending"
      BY <1>12 DEF Process!Close
    <3> QED  BY <2>1, <3>1, <3>2, <3>3, <3>4
  <2>2. CASE kind = "git"
    BY <1>12, <2>2 DEF Process!Close, Process!Swept, Process!GroupKilled
  <2> QED  BY <2>1, <2>2
<1>13. CASE Process!Measured
  <2>1. CASE big
    <3>1. Process!Terminate("quota")
      BY <1>13, <2>1 DEF Process!Measured
    <3> QED  BY <1>13, <2>1, <3>1, TerminateDoes DEF Process!Measured
  <2>2. CASE ~big
    BY <1>13, <2>2 DEF Process!Measured
  <2> QED  BY <2>1, <2>2
<1>14. CASE Process!Settle
  BY <1>14 DEF Process!Settle, Process!MeasuredVerdict, Process!Verdict
<1> QED
  BY <1>1, <1>2, <1>3, <1>4, <1>5, <1>6, <1>7, <1>8, <1>9, <1>10, <1>11, <1>12, <1>13, <1>14
  DEF Process!ProcessNext, Process!Ending

LEMMA ProcessInvGives ==
  ProcessInv => /\ Process!ProcessTypeOK /\ Process!NotStartedIsTrue /\ Process!SuccessIsWhole
                /\ Process!GroupIsGone
BY ProcessTypesAre DEF ProcessInv, ProcessTypes, Process!GroupIsGone
-----------------------------------------------------------------------------
(* One run.  The places of a run, by name, and those it reaches only when  *)
(* it compares, has compared, deploys and is about to deploy.              *)
Deploys == {"first check", "before dry run", "dry run", "coverage", "last check", "before deploy", "deploy"}
HasBoth == Deploys \cup {"compare", "report"}
Prepares == {"packages", "context", "manifest", "snapshots"}
IsOver == {"cleanup", "out"}

LEMMA PlacesAre ==
  /\ Command!Before["DRY_RUN"] = "before dry run" /\ Command!Before["DEPLOY"] = "before deploy"
  /\ Command!Sent["DRY_RUN"] = "dry run" /\ Command!Sent["DEPLOY"] = "deploy"
  /\ Command!Phases = {"DRY_RUN", "DEPLOY"} /\ Command!Sides = {"left", "right"}
  /\ Command!Inner = (Prepares \cup HasBoth) \ {"snapshots", "dry run", "deploy"}
<1>1. /\ Command!Before["DRY_RUN"] = "before dry run" /\ Command!Before["DEPLOY"] = "before deploy"
      /\ Command!Sent["DRY_RUN"] = "dry run" /\ Command!Sent["DEPLOY"] = "deploy"
  BY DEF Command!Before, Command!Sent
<1>2. Command!Phases = {"DRY_RUN", "DEPLOY"} /\ Command!Sides = {"left", "right"}
  BY DEF Command!Phases, Command!Sides
<1>3. {Command!Before[p] : p \in Command!Phases} = {"before dry run", "before deploy"}
  BY <1>1, <1>2
<1> QED  BY <1>1, <1>2, <1>3 DEF Command!Inner, Prepares, HasBoth, Deploys

CommandTypes ==
  /\ options \in Command!Comparisons \cup Command!Deployments
  /\ at \in Prepares \cup HasBoth \cup IsOver \cup {"start"}
  /\ side \in [{"left", "right"} -> {"idle", "working", "done", "failed"}]
  /\ payload \in 0 .. MaxVersion
  /\ digest \in 0 .. MaxVersion \cup {nothing} /\ compared \in 0 .. MaxVersion \cup {nothing}
  /\ sent \subseteq {"DRY_RUN", "DEPLOY"}
  /\ answer \in [{"DRY_RUN", "DEPLOY"} -> {"none", "ok", "failed"}]
  /\ covered \in BOOLEAN
  /\ workspace \in {"none", "made", "removed", "left"}
  /\ result \in {"none", "done", "failed"}

LEMMA CommandTypesAre == CommandTypes <=> Command!CommandTypeOK
<1>1. Command!Inner \cup {"start", "snapshots", "cleanup", "out"} \cup {Command!Sent[p] : p \in Command!Phases}
        = Prepares \cup HasBoth \cup IsOver \cup {"start"}
  <2>1. {Command!Sent[p] : p \in Command!Phases} = {"dry run", "deploy"}
    BY PlacesAre
  <2> QED  BY <2>1, PlacesAre DEF Prepares, HasBoth, IsOver, Deploys
<1> QED  BY <1>1, PlacesAre DEF CommandTypes, Command!CommandTypeOK

(* A deployment has its options.                                           *)
LEMMA DeploymentOptions ==
  ASSUME CommandTypes, options.kind = "deploy"
  PROVE  /\ options.minimum \in BOOLEAN /\ options.execute \in BOOLEAN
         /\ options.skipDryRun \in BOOLEAN /\ options.dryRun \in BOOLEAN /\ options.empty \in BOOLEAN
<1>1. options \in Command!Deployments
  BY DEF CommandTypes, Command!Comparisons
<1> QED  BY <1>1 DEF Command!Deployments

(* What was hashed was there, what was compared was there since, and what  *)
(* is there now came last; the phases follow one another as they were      *)
(* asked for, and there is no outcome before the end.                      *)
HashedFirst ==
  /\ (side["right"] = "done" => digest \in 0 .. payload)
  /\ (at \in HasBoth => side["left"] = "done" /\ side["right"] = "done")
  /\ (at \in HasBoth \ {"compare"} => compared \in digest .. payload)
  /\ (at # "snapshots" => ~Command!Working)
  /\ (at = "snapshots" => side["left"] # "idle" /\ side["right"] # "idle")

PhasesInOrder ==
  /\ (at \notin {"start", "out"} => Command!Valid(options))
  /\ (at \in Deploys => options.kind = "deploy")
  /\ (at = "coverage" => options.skipDryRun \/ answer["DRY_RUN"] = "ok")
  /\ (at \in {"last check", "before deploy", "deploy"} =>
        /\ options.execute /\ (options.minimum => covered)
        /\ (options.skipDryRun \/ answer["DRY_RUN"] = "ok"))
  /\ ("DEPLOY" \in sent => at \in IsOver \cup {"deploy"}) /\ Command!DeployedAsAsked
  /\ (answer["DEPLOY"] # "none" => at \in IsOver)
  /\ (answer["DEPLOY"] = "ok" => result = "done")

CommandInv == CommandTypes /\ HashedFirst /\ PhasesInOrder

LEMMA CommandInvInit == Command!CommandInit => CommandInv
<1> SUFFICES ASSUME Command!CommandInit PROVE CommandInv
  OBVIOUS
<1> USE VersionsAssumption, PlacesAre DEF Command!CommandInit
<1>1. CommandTypes
  <2>1. covered \in BOOLEAN
    BY Zenon
  <2>2. payload \in 0 .. MaxVersion
    <3>1. payload = 0
      OBVIOUS
    <3> QED  BY ONLY <3>1, VersionsAssumption
  <2> QED  BY <2>1, <2>2 DEF CommandTypes
<1>2. side["left"] = "idle" /\ side["right"] = "idle" /\ answer["DEPLOY"] = "none" /\ sent = {} /\ at = "start"
  OBVIOUS
<1>3. HashedFirst
  BY <1>2 DEF HashedFirst, HasBoth, Deploys, Command!Working
<1>4. PhasesInOrder
  BY <1>2 DEF PhasesInOrder, Deploys, Command!DeployedAsAsked
<1> QED  BY <1>1, <1>3, <1>4 DEF CommandInv
-----------------------------------------------------------------------------
(* Steps of a run that leave the directory and the exchanges alone: they   *)
(* go from one place to a later one, or end.                               *)
LEMMA EndingKeeps ==
  ASSUME CommandInv, at \notin {"snapshots"} \/ ~Command!Working, at \notin IsOver, at' \in IsOver,
         result' \in {"none", "done", "failed"}, workspace' \in {"none", "made", "removed", "left"},
         at = "start" => at' = "out",
         answer["DEPLOY"] = "none",
         UNCHANGED <<options, side, payload, digest, compared, sent, answer, covered>>
  PROVE  CommandInv'
<1> USE DEF CommandInv
<1>1. CommandTypes'
  BY DEF CommandTypes
<1>2. HashedFirst'
  BY DEF HashedFirst, HasBoth, Deploys, IsOver, Command!Working
<1>3. PhasesInOrder'
  BY DEF PhasesInOrder, HasBoth, Deploys, IsOver, Command!DeployedAsAsked
<1> QED  BY <1>1, <1>2, <1>3

LEMMA FailKeeps ==
  ASSUME CommandInv, Command!Fail
  PROVE  CommandInv'
<1>1. /\ at \in (Prepares \cup HasBoth) \ {"snapshots", "dry run", "deploy"}
      /\ at' = "cleanup" /\ result' = "failed"
      /\ UNCHANGED <<options, side, payload, digest, compared, sent, answer, covered, workspace>>
  BY PlacesAre DEF Command!Fail, Command!Ended, Command!Keep, Command!Payload, Command!Exchanged
<1>2. answer["DEPLOY"] = "none" /\ at \notin IsOver /\ at # "start"
  BY <1>1 DEF CommandInv, PhasesInOrder, Prepares, HasBoth, Deploys, IsOver
<1>3. workspace' \in {"none", "made", "removed", "left"}
  BY <1>1 DEF CommandInv, CommandTypes
<1> QED  BY <1>1, <1>2, <1>3, EndingKeeps DEF IsOver

LEMMA StartKeeps ==
  ASSUME CommandInv, Command!Start
  PROVE  CommandInv'
<1>1. /\ at = "start"
      /\ UNCHANGED <<options, side, payload, digest, compared, sent, answer, covered>>
  BY DEF Command!Start, Command!Keep, Command!Payload, Command!Exchanged
<1>2. answer["DEPLOY"] = "none" /\ at \notin IsOver /\ "DEPLOY" \notin sent
  BY <1>1 DEF CommandInv, PhasesInOrder, IsOver
<1>3. CASE /\ Command!Valid(options) /\ at' \in {"context", "packages"} /\ UNCHANGED result
           /\ workspace' = IF options.own THEN "made" ELSE workspace
  <2>1. CommandTypes'
    BY <1>1, <1>3 DEF CommandInv, CommandTypes, Prepares
  <2>2. HashedFirst'
    BY <1>1, <1>3 DEF CommandInv, HashedFirst, HasBoth, Deploys, Command!Working
  <2>3. Command!Valid(options)'
    BY <1>1, <1>3 DEF Command!Valid
  <2>4. PhasesInOrder'
    BY <1>1, <1>2, <1>3, <2>3 DEF CommandInv, PhasesInOrder, Deploys, IsOver, Command!DeployedAsAsked
  <2> QED  BY <2>1, <2>2, <2>4 DEF CommandInv
<1>4. CASE at' = "out" /\ result' = "failed" /\ UNCHANGED workspace
  <2>1. workspace' \in {"none", "made", "removed", "left"}
    BY <1>4 DEF CommandInv, CommandTypes
  <2> QED  BY <1>1, <1>2, <1>4, <2>1, EndingKeeps DEF IsOver
<1> QED  BY <1>3, <1>4 DEF Command!Start

LEMMA PrepareKeeps ==
  ASSUME CommandInv, Command!Prepare
  PROVE  CommandInv'
<1>1. /\ at \in {"packages", "context", "manifest"} /\ at' \in {"context", "manifest", "snapshots"}
      /\ at' # "snapshots" => side' = side
      /\ at' = "snapshots" => side' = [s \in {"left", "right"} |-> "working"]
      /\ UNCHANGED <<options, payload, digest, compared, sent, answer, covered, workspace, result>>
  BY PlacesAre DEF Command!Prepare, Command!Keep, Command!Payload, Command!Exchanged
<1>2. CommandTypes'
  BY <1>1 DEF CommandInv, CommandTypes, Prepares
<1>3. HashedFirst'
  BY <1>1, PlacesAre DEF CommandInv, HashedFirst, HasBoth, Deploys, Command!Working
<1>4. PhasesInOrder'
  BY <1>1 DEF CommandInv, PhasesInOrder, Deploys, IsOver, Command!DeployedAsAsked
<1> QED  BY <1>2, <1>3, <1>4 DEF CommandInv

LEMMA SnapshotKeeps ==
  ASSUME CommandInv, NEW s \in {"left", "right"}, Command!Snapshot(s)
  PROVE  CommandInv'
<1>1. /\ side[s] = "working" /\ at = "snapshots"
      /\ UNCHANGED <<options, at, payload, compared, sent, answer, covered, workspace, result>>
  BY PlacesAre DEF Command!Snapshot, Command!Keep, Command!Exchanged, CommandInv, HashedFirst, Command!Working
<1>2. /\ side' = [side EXCEPT ![s] = "done"] \/ side' = [side EXCEPT ![s] = "failed"]
      /\ digest' = digest \/ digest' = payload
      /\ (side'["right"] = "done") => (digest' = payload \/ (digest' = digest /\ side["right"] = "done"))
  BY <1>1 DEF Command!Snapshot, Command!Digest, CommandInv, CommandTypes
<1>3. CommandTypes'
  BY <1>1, <1>2 DEF CommandInv, CommandTypes
<1>4. HashedFirst'
  <2>1. payload \in Nat
    BY VersionsAssumption DEF CommandInv, CommandTypes
  <2>2. (side["right"] = "done" => digest \in 0 .. payload)'
    BY <1>1, <1>2, <2>1 DEF CommandInv, HashedFirst
  <2>3. side'["left"] # "idle" /\ side'["right"] # "idle"
    BY <1>1, <1>2 DEF CommandInv, CommandTypes, HashedFirst
  <2> QED  BY <1>1, <2>2, <2>3 DEF HashedFirst, HasBoth, Deploys
<1>5. PhasesInOrder'
  BY <1>1 DEF CommandInv, PhasesInOrder, Deploys, IsOver, Command!DeployedAsAsked
<1> QED  BY <1>3, <1>4, <1>5 DEF CommandInv

LEMMA SettledKeeps ==
  ASSUME CommandInv, Command!Settled
  PROVE  CommandInv'
<1>1. /\ at = "snapshots" /\ ~Command!Working
      /\ UNCHANGED <<options, side, payload, digest, compared, sent, answer, covered, workspace>>
      /\ \/ at' = "cleanup" /\ result' = "failed"
         \/ /\ at' = "compare" /\ result' = result
            /\ ~\E s \in {"left", "right"} : side[s] = "failed"
  BY PlacesAre DEF Command!Settled, Command!Ended, Command!Keep, Command!Payload, Command!Exchanged
<1>2. CASE at' = "cleanup" /\ result' = "failed"
  <2>1. workspace' \in {"none", "made", "removed", "left"}
    BY <1>1 DEF CommandInv, CommandTypes
  <2>2. answer["DEPLOY"] = "none"
    BY <1>1 DEF CommandInv, PhasesInOrder, IsOver
  <2> QED  BY <1>1, <1>2, <2>1, <2>2, EndingKeeps DEF IsOver
<1>3. CASE /\ at' = "compare" /\ result' = result
           /\ ~\E s \in {"left", "right"} : side[s] = "failed"
  <2>1. CommandTypes'
    BY <1>1, <1>3 DEF CommandInv, CommandTypes, HasBoth
  <2>2. HashedFirst'
    <3>1. side["left"] \notin {"idle", "working", "failed"} /\ side["right"] \notin {"idle", "working", "failed"}
      <4>1. side["left"] # "failed" /\ side["right"] # "failed"
        BY <1>3
      <4>2. side["left"] # "working" /\ side["right"] # "working"
        BY <1>1, PlacesAre DEF Command!Working
      <4>3. side["left"] # "idle" /\ side["right"] # "idle"
        BY <1>1 DEF CommandInv, HashedFirst
      <4> QED  BY <4>1, <4>2, <4>3
    <3>2. side["left"] = "done" /\ side["right"] = "done"
      BY <3>1 DEF CommandInv, CommandTypes
    <3> QED  BY <1>1, <1>3, <3>2 DEF CommandInv, HashedFirst, HasBoth, Deploys, Command!Working
  <2>3. PhasesInOrder'
    BY <1>1, <1>3 DEF CommandInv, PhasesInOrder, Deploys, IsOver, Command!DeployedAsAsked
  <2> QED  BY <2>1, <2>2, <2>3 DEF CommandInv
<1> QED  BY <1>1, <1>2, <1>3

LEMMA AlterKeeps ==
  ASSUME CommandInv, Command!Alter
  PROVE  CommandInv'
<1>1. /\ at \in Prepares \cup HasBoth /\ payload < MaxVersion /\ payload' = payload + 1
      /\ UNCHANGED <<options, at, side, digest, compared, sent, answer, covered, workspace, result>>
  BY PlacesAre DEF Command!Alter, Command!Keep, Command!Exchanged, Prepares
<1>2. payload \in Nat /\ MaxVersion \in Nat
  BY VersionsAssumption DEF CommandInv, CommandTypes
<1>3. CommandTypes'
  BY <1>1, <1>2 DEF CommandInv, CommandTypes
<1>4. HashedFirst'
  <2>1. (side["right"] = "done" => digest \in 0 .. payload)'
    BY <1>1, <1>2 DEF CommandInv, HashedFirst
  <2>2. (at \in HasBoth \ {"compare"} => compared \in digest .. payload)'
    <3>1. SUFFICES ASSUME at \in HasBoth \ {"compare"} PROVE compared \in digest .. payload + 1
      BY <1>1
    <3>2. digest \in 0 .. payload /\ compared \in digest .. payload
      BY <3>1 DEF CommandInv, HashedFirst
    <3> QED  BY <1>2, <3>2
  <2> QED  BY <1>1, <2>1, <2>2 DEF CommandInv, HashedFirst, Command!Working
<1>5. PhasesInOrder'
  BY <1>1 DEF CommandInv, PhasesInOrder, Deploys, IsOver, Command!DeployedAsAsked
<1> QED  BY <1>3, <1>4, <1>5 DEF CommandInv
-----------------------------------------------------------------------------
(* Steps from the comparison on.  In HasBoth the numbers are in order.     *)
LEMMA NumbersInOrder ==
  ASSUME CommandInv, at \in HasBoth
  PROVE  /\ payload \in 0 .. MaxVersion /\ digest \in 0 .. payload
         /\ at # "compare" => compared \in digest .. payload
         /\ compared \in 0 .. MaxVersion \cup {nothing}
         /\ ~Command!Working
BY DEF CommandInv, CommandTypes, HashedFirst, HasBoth, Deploys

LEMMA CompareKeeps ==
  ASSUME CommandInv, Command!Compare
  PROVE  CommandInv'
<1>1. /\ at = "compare" /\ at' = "report" /\ compared' = payload
      /\ UNCHANGED <<options, side, payload, digest, sent, answer, covered, workspace, result>>
  BY DEF Command!Compare, Command!Keep, Command!Exchanged
<1>2. at \in HasBoth
  BY <1>1 DEF HasBoth
<1>3. CommandTypes'
  BY <1>1 DEF CommandInv, CommandTypes, HasBoth
<1>4. HashedFirst'
  <2>1. payload \in digest .. payload
    BY <1>2, NumbersInOrder, VersionsAssumption
  <2> QED  BY <1>1, <1>2, <2>1 DEF CommandInv, HashedFirst, HasBoth, Command!Working
<1>5. PhasesInOrder'
  BY <1>1 DEF CommandInv, PhasesInOrder, Deploys, IsOver, Command!DeployedAsAsked
<1> QED  BY <1>3, <1>4, <1>5 DEF CommandInv

(* A step from one of the later places to another, nothing else changing   *)
(* than what was exchanged.                                                *)
LEMMA LaterKeeps ==
  ASSUME CommandInv, at \in HasBoth \ {"compare"}, at' \in Deploys \cup IsOver,
         UNCHANGED <<options, side, payload, digest, compared, workspace>>
  PROVE  HashedFirst'
BY DEF CommandInv, HashedFirst, HasBoth, Deploys, IsOver, Command!Working

LEMMA ReportKeeps ==
  ASSUME CommandInv, Command!Report
  PROVE  CommandInv'
<1>1. /\ at = "report"
      /\ UNCHANGED <<options, side, payload, digest, compared, sent, answer, covered, workspace>>
      /\ \/ at' = "cleanup" /\ result' = "done"
         \/ at' = "first check" /\ result' = result /\ options.kind = "deploy"
  BY DEF Command!Report, Command!Ended, Command!Keep, Command!Payload, Command!Exchanged, Command!Deploying
<1>2. answer["DEPLOY"] = "none"
  BY <1>1 DEF CommandInv, PhasesInOrder, IsOver
<1>3. CommandTypes'
  BY <1>1 DEF CommandInv, CommandTypes, HasBoth, Deploys, IsOver
<1>4. HashedFirst'
  BY <1>1, LaterKeeps DEF HasBoth, Deploys, IsOver
<1>5. PhasesInOrder'
  BY <1>1, <1>2 DEF CommandInv, PhasesInOrder, Deploys, IsOver, Command!DeployedAsAsked
<1> QED  BY <1>3, <1>4, <1>5 DEF CommandInv

LEMMA FirstCheckKeeps ==
  ASSUME CommandInv, Command!FirstCheck
  PROVE  CommandInv'
<1>1. /\ at = "first check" /\ at' \in {"coverage", "before dry run"}
      /\ UNCHANGED <<options, side, payload, digest, compared, sent, covered, workspace, result>>
      /\ answer' = answer \/ answer' = [answer EXCEPT !["DRY_RUN"] = "ok"]
      /\ at' = "coverage" => options.skipDryRun \/ answer' = [answer EXCEPT !["DRY_RUN"] = "ok"]
  BY PlacesAre DEF Command!FirstCheck, Command!Skipped, Command!Keep, Command!Payload, Command!Exchanged
<1>2. answer \in [{"DRY_RUN", "DEPLOY"} -> {"none", "ok", "failed"}] /\ answer["DEPLOY"] = "none"
  BY <1>1 DEF CommandInv, CommandTypes, PhasesInOrder, IsOver
<1>3. answer'["DEPLOY"] = "none" /\ (at' = "coverage" => options.skipDryRun \/ answer'["DRY_RUN"] = "ok")
  BY <1>1, <1>2
<1>4. CommandTypes'
  BY <1>1 DEF CommandInv, CommandTypes, HasBoth, Deploys
<1>5. HashedFirst'
  BY <1>1, LaterKeeps DEF HasBoth, Deploys
<1>6. PhasesInOrder'
  BY <1>1, <1>3 DEF CommandInv, PhasesInOrder, Deploys, IsOver, Command!DeployedAsAsked
<1> QED  BY <1>4, <1>5, <1>6 DEF CommandInv

LEMMA SubmitKeeps ==
  ASSUME CommandInv, NEW p \in {"DRY_RUN", "DEPLOY"}, Command!Submit(p)
  PROVE  CommandInv'
<1>1. /\ p = "DRY_RUN" => at = "before dry run" /\ at' = "dry run"
      /\ p = "DEPLOY" => at = "before deploy" /\ at' = "deploy"
      /\ sent' = sent \cup {p}
      /\ UNCHANGED <<options, side, payload, digest, compared, answer, covered, workspace, result>>
  BY PlacesAre DEF Command!Submit, Command!Keep, Command!Payload
<1>2. options.kind = "deploy" /\ Command!Valid(options) /\ Command!Valid(options)'
  BY <1>1 DEF CommandInv, PhasesInOrder, Deploys, Command!Valid
<1>3. CommandTypes'
  BY <1>1 DEF CommandInv, CommandTypes, HasBoth, Deploys
<1>4. HashedFirst'
  BY <1>1, LaterKeeps DEF HasBoth, Deploys
<1>5. CASE p = "DRY_RUN"
  BY <1>1, <1>2, <1>3, <1>4, <1>5 DEF CommandInv, PhasesInOrder, Deploys, IsOver, Command!DeployedAsAsked
<1>6. CASE p = "DEPLOY"
  <2>1. options.execute /\ ~options.dryRun
    BY <1>1, <1>2, <1>6, DeploymentOptions DEF CommandInv, PhasesInOrder, Command!Valid
  <2>2. /\ options.skipDryRun \/ answer["DRY_RUN"] = "ok"
        /\ options.minimum => covered
    BY <1>1, <1>6 DEF CommandInv, PhasesInOrder
  <2>3. Command!DeployedAsAsked'
    BY <1>1, <2>1, <2>2 DEF Command!DeployedAsAsked
  <2>4. PhasesInOrder'
    BY <1>1, <1>2, <1>6, <2>1, <2>2, <2>3 DEF CommandInv, PhasesInOrder, Deploys, IsOver
  <2> QED  BY <1>3, <1>4, <2>4 DEF CommandInv
<1> QED  BY <1>5, <1>6

LEMMA AnsweredKeeps ==
  ASSUME CommandInv, NEW p \in {"DRY_RUN", "DEPLOY"}, Command!Answered(p)
  PROVE  CommandInv'
<1>1. /\ p = "DRY_RUN" => at = "dry run"
      /\ p = "DEPLOY" => at = "deploy"
      /\ UNCHANGED <<options, side, payload, digest, compared, sent, covered, workspace>>
      /\ \/ /\ answer' = [answer EXCEPT ![p] = "ok"]
            /\ \/ p = "DRY_RUN" /\ at' = "coverage" /\ result' = result
               \/ p = "DEPLOY" /\ at' = "cleanup" /\ result' = "done"
         \/ answer' = [answer EXCEPT ![p] = "failed"] /\ at' = "cleanup" /\ result' = "failed"
  BY PlacesAre DEF Command!Answered, Command!Ended, Command!Keep, Command!Payload
<1>2. answer \in [{"DRY_RUN", "DEPLOY"} -> {"none", "ok", "failed"}] /\ answer["DEPLOY"] = "none"
  BY <1>1 DEF CommandInv, CommandTypes, PhasesInOrder, IsOver
<1>3. CommandTypes'
  <2>1. answer' \in [{"DRY_RUN", "DEPLOY"} -> {"none", "ok", "failed"}]
    BY <1>1, <1>2
  <2>2. at' \in Prepares \cup HasBoth \cup IsOver \cup {"start"} /\ result' \in {"none", "done", "failed"}
    BY <1>1 DEF CommandInv, CommandTypes, HasBoth, Deploys, IsOver
  <2> QED  BY <1>1, <2>1, <2>2 DEF CommandInv, CommandTypes
<1>4. HashedFirst'
  BY <1>1, LaterKeeps DEF HasBoth, Deploys, IsOver
<1>5. CASE p = "DRY_RUN"
  <2>1. answer'["DEPLOY"] = "none" /\ (at' = "coverage" => answer'["DRY_RUN"] = "ok") /\ "DEPLOY" \notin sent
    BY <1>1, <1>2, <1>5 DEF CommandInv, PhasesInOrder, IsOver
  <2> QED
    BY <1>1, <1>3, <1>4, <1>5, <2>1 DEF CommandInv, PhasesInOrder, Deploys, IsOver, Command!DeployedAsAsked
<1>6. CASE p = "DEPLOY"
  <2>1. /\ at' = "cleanup" /\ answer'["DRY_RUN"] = answer["DRY_RUN"]
        /\ answer'["DEPLOY"] = "ok" => result' = "done"
    BY <1>1, <1>2, <1>6
  <2> QED
    BY <1>1, <1>3, <1>4, <1>6, <2>1 DEF CommandInv, PhasesInOrder, Deploys, IsOver, Command!DeployedAsAsked
<1> QED  BY <1>5, <1>6

LEMMA CoverageKeeps ==
  ASSUME CommandInv, Command!Coverage
  PROVE  CommandInv'
<1>1. /\ at = "coverage" /\ covered' = options.minimum
      /\ UNCHANGED <<options, side, payload, digest, compared, sent, answer, workspace>>
      /\ \/ options.execute /\ at' = "last check" /\ result' = result
         \/ at' = "cleanup" /\ result' = "done"
  BY DEF Command!Coverage, Command!Ended, Command!Keep, Command!Payload
<1>2. options.minimum \in BOOLEAN
  BY <1>1, DeploymentOptions DEF CommandInv, PhasesInOrder, Deploys
<1>3. CommandTypes'
  <2>1. covered' \in BOOLEAN
    BY <1>1, <1>2
  <2> QED  BY <1>1, <2>1 DEF CommandInv, CommandTypes, HasBoth, Deploys, IsOver
<1>4. HashedFirst'
  BY <1>1, LaterKeeps DEF HasBoth, Deploys, IsOver
<1>5. /\ "DEPLOY" \notin sent /\ answer["DEPLOY"] = "none"
      /\ options.skipDryRun \/ answer["DRY_RUN"] = "ok"
      /\ Command!Valid(options)
  BY <1>1 DEF CommandInv, PhasesInOrder, IsOver
<1>6. Command!Valid(options)' /\ (options.minimum => covered)'
  BY <1>1, <1>5 DEF Command!Valid
<1>7. PhasesInOrder'
  BY <1>1, <1>5, <1>6 DEF CommandInv, PhasesInOrder, Deploys, IsOver, Command!DeployedAsAsked
<1> QED  BY <1>3, <1>4, <1>7 DEF CommandInv

LEMMA LastCheckKeeps ==
  ASSUME CommandInv, Command!LastCheck
  PROVE  CommandInv'
<1>1. /\ at = "last check"
      /\ UNCHANGED <<options, side, payload, digest, compared, sent, covered, workspace>>
      /\ \/ answer' = [answer EXCEPT !["DEPLOY"] = "ok"] /\ at' = "cleanup" /\ result' = "done"
         \/ at' = "before deploy" /\ result' = result /\ answer' = answer
  BY PlacesAre DEF Command!LastCheck, Command!Skipped, Command!Ended, Command!Keep, Command!Payload,
                   Command!Exchanged
<1>2. /\ answer \in [{"DRY_RUN", "DEPLOY"} -> {"none", "ok", "failed"}] /\ answer["DEPLOY"] = "none"
      /\ "DEPLOY" \notin sent
  BY <1>1 DEF CommandInv, CommandTypes, PhasesInOrder, IsOver
<1>3. /\ answer' \in [{"DRY_RUN", "DEPLOY"} -> {"none", "ok", "failed"}]
      /\ answer'["DRY_RUN"] = answer["DRY_RUN"]
      /\ at' = "before deploy" => answer'["DEPLOY"] = "none"
  BY <1>1, <1>2
<1>4. CommandTypes'
  BY <1>1, <1>3 DEF CommandInv, CommandTypes, HasBoth, Deploys, IsOver
<1>5. HashedFirst'
  BY <1>1, LaterKeeps DEF HasBoth, Deploys, IsOver
<1>6. PhasesInOrder'
  BY <1>1, <1>2, <1>3 DEF CommandInv, PhasesInOrder, Deploys, IsOver, Command!DeployedAsAsked
<1> QED  BY <1>4, <1>5, <1>6 DEF CommandInv

LEMMA CleanupKeeps ==
  ASSUME CommandInv, Command!Cleanup
  PROVE  CommandInv'
<1>1. /\ at = "cleanup" /\ at' = "out"
      /\ UNCHANGED <<options, side, payload, digest, compared, sent, answer, covered, result>>
      /\ workspace' \in {"removed", "left", workspace}
  BY DEF Command!Cleanup, Command!Keep, Command!Payload, Command!Exchanged
<1>2. CommandTypes'
  BY <1>1 DEF CommandInv, CommandTypes, IsOver
<1>3. HashedFirst'
  BY <1>1 DEF CommandInv, HashedFirst, HasBoth, Deploys, Command!Working
<1>4. PhasesInOrder'
  BY <1>1 DEF CommandInv, PhasesInOrder, Deploys, IsOver, Command!DeployedAsAsked
<1> QED  BY <1>2, <1>3, <1>4 DEF CommandInv

LEMMA CommandInvStep ==
  ASSUME CommandInv, Command!CommandNext
  PROVE  CommandInv'
BY StartKeeps, PrepareKeeps, SettledKeeps, CompareKeeps, ReportKeeps, FirstCheckKeeps, CoverageKeeps,
   LastCheckKeeps, CleanupKeeps, FailKeeps, SnapshotKeeps, SubmitKeeps, AnsweredKeeps, AlterKeeps,
   PlacesAre
   DEF Command!CommandNext, Command!Proceed

LEMMA CommandInvGives ==
  CommandInv => /\ Command!CommandTypeOK /\ Command!DeployedAsAsked /\ Command!NothingOutlivesTheRun
                /\ Command!DeployedIsDone
<1> SUFFICES ASSUME CommandInv
             PROVE  /\ Command!CommandTypeOK /\ Command!DeployedAsAsked /\ Command!NothingOutlivesTheRun
                    /\ Command!DeployedIsDone
  OBVIOUS
<1>1. Command!CommandTypeOK
  BY CommandTypesAre DEF CommandInv
<1>2. Command!DeployedAsAsked /\ Command!NothingOutlivesTheRun /\ Command!DeployedIsDone
  BY DEF CommandInv, HashedFirst, PhasesInOrder, Command!NothingOutlivesTheRun, Command!DeployedIsDone
<1> QED  BY <1>1, <1>2

(* A payload goes to the place before its submission only from a check     *)
(* that found it as it was hashed, so as it was compared.                  *)
LEMMA CommandSends ==
  ASSUME CommandInv, Command!CommandNext,
         NEW p \in {"DRY_RUN", "DEPLOY"}, at # Command!Before[p], at' = Command!Before[p]
  PROVE  payload' = compared'
<1>1. at' \in {"before dry run", "before deploy"} /\ at' # at
  BY PlacesAre
<1>2. Command!FirstCheck \/ Command!LastCheck
  <2> USE DEF Command!Keep, Command!Ended
  <2>1. ~Command!Start /\ ~Command!Cleanup /\ ~Command!Fail /\ ~Command!Alter
    BY <1>1 DEF Command!Start, Command!Cleanup, Command!Fail, Command!Alter
  <2>2. ~Command!Prepare /\ ~Command!Settled /\ ~Command!Compare /\ ~Command!Report /\ ~Command!Coverage
    BY <1>1 DEF Command!Prepare, Command!Settled, Command!Compare, Command!Report, Command!Coverage
  <2>3. \A s \in Command!Sides : ~Command!Snapshot(s)
    BY <1>1 DEF Command!Snapshot
  <2>4. \A q \in Command!Phases : ~Command!Submit(q) /\ ~Command!Answered(q)
    BY <1>1, PlacesAre DEF Command!Submit, Command!Answered
  <2> QED  BY <2>1, <2>2, <2>3, <2>4 DEF Command!CommandNext, Command!Proceed
<1>3. payload = digest /\ payload' = payload /\ compared' = compared /\ at \in {"first check", "last check"}
  BY <1>2 DEF Command!FirstCheck, Command!LastCheck, Command!Unchanged, Command!Digest, Command!Keep,
              Command!Payload
<1>4. at \in HasBoth /\ at # "compare"
  BY <1>3 DEF HasBoth, Deploys
<1>5. payload \in 0 .. MaxVersion /\ compared \in digest .. payload
  BY <1>4, NumbersInOrder
<1>6. compared = payload
  <2>1. payload \in Nat
    BY ONLY <1>5, VersionsAssumption
  <2>2. compared \in payload .. payload
    BY ONLY <1>3, <1>5
  <2> QED  BY ONLY <2>1, <2>2
<1> QED  BY <1>3, <1>6
-----------------------------------------------------------------------------
(* A run of the command line and an external command, side by side with    *)
(* the others.                                                             *)
RunInv == CommandInv /\ ProcessInv

LEMMA RunInvInit == MCInit => RunInv
BY CommandInvInit, ProcessInvInit DEF MCInit, RunInv

LEMMA CommandRests ==
  ASSUME CommandInv, UNCHANGED commandVars
  PROVE  CommandInv'
<1> USE DEF commandVars, CommandInv
<1>1. CommandTypes' /\ HashedFirst'
  BY DEF CommandTypes, HashedFirst, Command!Working
<1>2. Command!Valid(options)' = Command!Valid(options)
  BY DEF Command!Valid
<1>3. PhasesInOrder'
  BY <1>2 DEF PhasesInOrder, Command!DeployedAsAsked
<1> QED  BY <1>1, <1>3

LEMMA ProcessRests ==
  ASSUME ProcessInv, UNCHANGED processVars
  PROVE  ProcessInv'
BY DEF processVars, ProcessInv, ProcessTypes, Process!NotStartedIsTrue, Process!SuccessIsWhole

LEMMA RunInvStep == RunInv /\ [MCNext]_allVars => RunInv'
<1> SUFFICES ASSUME RunInv, [MCNext]_allVars
             PROVE  RunInv'
  OBVIOUS
<1>1. CASE CommandStep(Command!CommandNext)
  <2>1. Command!CommandNext /\ UNCHANGED processVars
    BY <1>1 DEF CommandStep
  <2> QED  BY <2>1, CommandInvStep, ProcessRests DEF RunInv
<1>2. CASE ProcessStep(Process!ProcessNext)
  <2>1. Process!ProcessNext /\ UNCHANGED commandVars
    BY <1>2 DEF ProcessStep
  <2> QED  BY <2>1, ProcessInvStep, CommandRests DEF RunInv
<1>3. CASE QueueStep(Next) \/ CompareStep(Compare!Next) \/ UNCHANGED allVars
  <2>1. UNCHANGED commandVars /\ UNCHANGED processVars
    BY <1>3 DEF QueueStep, CompareStep, allVars
  <2> QED  BY <2>1, CommandRests, ProcessRests DEF RunInv
<1> QED  BY <1>1, <1>2, <1>3 DEF MCNext

LEMMA RunInvariance == MCSpec => []RunInv
BY RunInvInit, RunInvStep, PTL DEF MCSpec

(* A run deploys only what it was asked to deploy, validated and covered   *)
(* as it was asked; nothing of it goes on when it has its outcome, and     *)
(* what was deployed is reported as deployed. A command said not to have   *)
(* started never ran, a success is of a command nobody ended with all of   *)
(* its output, and no process outlives a Git command that was ended.       *)
THEOREM RunsStayAccounted == MCSpec => []RunsAreAccounted
<1>1. RunInv => RunsAreAccounted
  BY CommandInvGives, ProcessInvGives DEF RunInv, RunsAreAccounted
<1> QED  BY <1>1, RunInvariance, PTL

(* What is validated and what is deployed is what was compared: each       *)
(* submission is prepared by a check that found the directory as it was    *)
(* when its snapshot was hashed, and no alteration is undone.              *)
THEOREM OnlyTheComparedIsSent == MCSpec => SendsWhatWasCompared
<1>1. RunInv /\ [MCNext]_allVars
        => [\A p \in Command!Phases : at # Command!Before[p] /\ at' = Command!Before[p]
                                        => payload' = compared']_(Command!commandVars)
  <2> SUFFICES ASSUME RunInv, [MCNext]_allVars, ~UNCHANGED Command!commandVars,
                      NEW p \in Command!Phases, at # Command!Before[p], at' = Command!Before[p]
               PROVE  payload' = compared'
    OBVIOUS
  <2>1. ~UNCHANGED commandVars
    BY DEF commandVars, Command!commandVars
  <2>2. Command!CommandNext
    BY <2>1 DEF MCNext, CommandStep, QueueStep, CompareStep, ProcessStep, allVars
  <2>3. p \in {"DRY_RUN", "DEPLOY"}
    BY PlacesAre
  <2> QED  BY <2>2, <2>3, CommandSends DEF RunInv
<1> QED  BY <1>1, RunInvariance, PTL DEF MCSpec, SendsWhatWasCompared, Command!SendsWhatWasCompared
-----------------------------------------------------------------------------
(* The comparisons are those of ComparisonsProofs, whose definitions are   *)
(* the same word for word.                                                 *)
CP == INSTANCE ComparisonsProofs
  WITH Comparisons <- Compared, Projects <- Sources, Uses <- SourcesOf,
       Concurrency <- CompareLanes, MaximumQueued <- ComparePlaces

LEMMA SameAssumption == CP!ComparisonsAssumption
BY ComparisonsAssumed DEF Compare!ComparisonsAssumption, CP!ComparisonsAssumption

LEMMA SameInit == Compare!Init => CP!Init
BY Zenon DEF Compare!Init, CP!Init, Compare!Fresh, CP!Fresh

LEMMA SameRequest ==
  ASSUME NEW c \in Compared
  PROVE  /\ Compare!Reserve(c) => CP!Reserve(c)
         /\ Compare!Prepare(c) => CP!Prepare(c)
         /\ Compare!PrepareFails(c) => CP!PrepareFails(c)
         /\ Compare!PinPrepared(c) => CP!PinPrepared(c)
         /\ Compare!Resolve(c) => CP!Resolve(c)
         /\ Compare!InsertFails(c) => CP!InsertFails(c)
         /\ Compare!Insert(c) => CP!Insert(c)
         /\ Compare!ReadBackFails(c) => CP!ReadBackFails(c)
         /\ Compare!Enqueue(c) => CP!Enqueue(c)
         /\ Compare!Reject(c) => CP!Reject(c)
         /\ Compare!Discard(c) => CP!Discard(c)
         /\ Compare!Removed(c) => CP!Removed(c)
<1>1. Compare!Reserve(c) => CP!Reserve(c)
  BY Zenon DEF Compare!Reserve, CP!Reserve, Compare!Cardinality, CP!Cardinality, Compare!storageVars,
         CP!storageVars, Compare!Reserved, CP!Reserved, Compare!accepting, CP!accepting, Compare!At,
         CP!At
<1>2. Compare!Prepare(c) => CP!Prepare(c)
  BY Zenon DEF Compare!Prepare, CP!Prepare, Compare!Goto, CP!Goto, Compare!Own, CP!Own, Compare!At, CP!At
<1>3. Compare!PrepareFails(c) => CP!PrepareFails(c)
  BY Zenon DEF Compare!PrepareFails, CP!PrepareFails, Compare!storageVars, CP!storageVars, Compare!Goto,
         CP!Goto, Compare!Fault, CP!Fault, Compare!Own, CP!Own, Compare!At, CP!At
<1>4. Compare!PinPrepared(c) => CP!PinPrepared(c)
  BY Zenon DEF Compare!PinPrepared, CP!PinPrepared, Compare!Goto, CP!Goto, Compare!PinProject,
         CP!PinProject, Compare!Own, CP!Own, Compare!At, CP!At
<1>5. Compare!Resolve(c) => CP!Resolve(c)
  BY Zenon DEF Compare!Resolve, CP!Resolve, Compare!Goto, CP!Goto, Compare!PinAll, CP!PinAll,
         Compare!accepting, CP!accepting, Compare!At, CP!At
<1>6. Compare!InsertFails(c) => CP!InsertFails(c)
  BY Zenon DEF Compare!InsertFails, CP!InsertFails, Compare!Goto, CP!Goto, Compare!Released, CP!Released,
         Compare!Unpinned, CP!Unpinned, Compare!Fault, CP!Fault, Compare!At, CP!At
<1>7. Compare!Insert(c) => CP!Insert(c)
  BY Zenon DEF Compare!Insert, CP!Insert, Compare!storageVars, CP!storageVars, Compare!Goto, CP!Goto,
         Compare!Works, CP!Works, Compare!At, CP!At
<1>8. Compare!ReadBackFails(c) => CP!ReadBackFails(c)
  BY Zenon DEF Compare!ReadBackFails, CP!ReadBackFails, Compare!Goto, CP!Goto, Compare!Released,
         CP!Released, Compare!Unpinned, CP!Unpinned, Compare!Fault, CP!Fault, Compare!At, CP!At
<1>9. Compare!Enqueue(c) => CP!Enqueue(c)
  BY Zenon DEF Compare!Enqueue, CP!Enqueue, Compare!Released, CP!Released, Compare!Unpinned, CP!Unpinned,
         Compare!Drain, CP!Drain, Compare!Cardinality, CP!Cardinality, Compare!Working, CP!Working,
         Compare!Ended, CP!Ended, Compare!accepting, CP!accepting, Compare!Works, CP!Works,
         Compare!At, CP!At
<1>10. Compare!Reject(c) => CP!Reject(c)
  BY Zenon DEF Compare!Reject, CP!Reject, Compare!storageVars, CP!storageVars, Compare!Goto, CP!Goto,
         Compare!Fault, CP!Fault, Compare!MarkedFailed, CP!MarkedFailed, Compare!Works, CP!Works,
         Compare!At, CP!At
<1>11. Compare!Discard(c) => CP!Discard(c)
  BY Zenon DEF Compare!Discard, CP!Discard, Compare!Ended, CP!Ended, Compare!Unpinned, CP!Unpinned,
         Compare!At, CP!At
<1>12. Compare!Removed(c) => CP!Removed(c)
  BY Zenon DEF Compare!Removed, CP!Removed, Compare!Goto, CP!Goto, Compare!DeletionEnds, CP!DeletionEnds,
         Compare!Fault, CP!Fault, Compare!At, CP!At
<1> QED  BY <1>1, <1>2, <1>3, <1>4, <1>5, <1>6, <1>7, <1>8, <1>9, <1>10, <1>11, <1>12

LEMMA SameTask ==
  ASSUME NEW c \in Compared
  PROVE  /\ Compare!MarkRunning(c) => CP!MarkRunning(c)
         /\ Compare!Compare(c) => CP!Compare(c)
         /\ Compare!WriteArtifact(c) => CP!WriteArtifact(c)
         /\ Compare!Commit(c) => CP!Commit(c)
         /\ Compare!MarkFailed(c) => CP!MarkFailed(c)
<1>1. Compare!MarkRunning(c) => CP!MarkRunning(c)
  BY Zenon DEF Compare!MarkRunning, CP!MarkRunning, Compare!TaskEnds, CP!TaskEnds, Compare!Drain,
         CP!Drain, Compare!Cardinality, CP!Cardinality, Compare!Working, CP!Working,
         Compare!Released, CP!Released, Compare!Unpinned, CP!Unpinned, Compare!Fault, CP!Fault,
         Compare!Works, CP!Works
<1>2. Compare!Compare(c) => CP!Compare(c)
  BY Zenon DEF Compare!Compare, CP!Compare, Compare!storageVars, CP!storageVars, Compare!Step, CP!Step,
         Compare!Fault, CP!Fault
<1>3. Compare!WriteArtifact(c) => CP!WriteArtifact(c)
  BY Zenon DEF Compare!WriteArtifact, CP!WriteArtifact, Compare!storageVars, CP!storageVars, Compare!Step,
         CP!Step, Compare!Fault, CP!Fault
<1>4. Compare!Commit(c) => CP!Commit(c)
  BY Zenon DEF Compare!Commit, CP!Commit, Compare!Step, CP!Step, Compare!Fault, CP!Fault,
         Compare!TaskEnds, CP!TaskEnds, Compare!Drain, CP!Drain, Compare!Cardinality,
         CP!Cardinality, Compare!Working, CP!Working, Compare!Released, CP!Released,
         Compare!Unpinned, CP!Unpinned, Compare!Works, CP!Works
<1>5. Compare!MarkFailed(c) => CP!MarkFailed(c)
  BY Zenon DEF Compare!MarkFailed, CP!MarkFailed, Compare!TaskEnds, CP!TaskEnds, Compare!Drain, CP!Drain,
         Compare!Cardinality, CP!Cardinality, Compare!Working, CP!Working, Compare!Released,
         CP!Released, Compare!Unpinned, CP!Unpinned, Compare!Fault, CP!Fault, Compare!MarkedFailed,
         CP!MarkedFailed, Compare!Works, CP!Works
<1> QED  BY <1>1, <1>2, <1>3, <1>4, <1>5

LEMMA SameServer ==
  ASSUME NEW p \in Sources
  PROVE  Compare!RemoveSource(p) => CP!RemoveSource(p)
BY Zenon DEF Compare!RemoveSource, CP!RemoveSource, Compare!Discardable, CP!Discardable

LEMMA SameNext == Compare!Next => CP!Next
<1>1. ASSUME NEW c \in Compared, Compare!Reserve(c) \/ Compare!Request(c)
      PROVE  CP!Reserve(c) \/ CP!Request(c)
  BY <1>1, SameRequest DEF Compare!Request, CP!Request
<1>2. ASSUME NEW c \in Compared, Compare!Execute(c)
      PROVE  CP!Execute(c)
  BY <1>2, SameTask DEF Compare!Execute, CP!Execute
<1>3. ASSUME NEW p \in Sources, Compare!RemoveSource(p)
      PROVE  CP!RemoveSource(p)
  BY <1>3, SameServer
<1>4. Compare!Stop => CP!Stop
  BY Zenon DEF Compare!Stop, CP!Stop, Compare!storageVars, CP!storageVars
<1>5. Compare!Abort => CP!Abort
  BY Zenon DEF Compare!Abort, CP!Abort, Compare!storageVars, CP!storageVars, Compare!Idle, CP!Idle,
         Compare!Lanes, CP!Lanes, Compare!Working, CP!Working
<1>6. Compare!Recover => CP!Recover
  BY Zenon DEF Compare!Recover, CP!Recover, Compare!storageVars, CP!storageVars,
         Compare!RecoverInterrupted, CP!RecoverInterrupted, Compare!Idle, CP!Idle, Compare!Lanes,
         CP!Lanes, Compare!Working, CP!Working
<1>7. Compare!Close => CP!Close
  BY Zenon DEF Compare!Close, CP!Close, Compare!storageVars, CP!storageVars, Compare!CloseStorage,
         CP!CloseStorage
<1>8. Compare!Restart => CP!Restart
  BY Zenon DEF Compare!Restart, CP!Restart, Compare!Fresh, CP!Fresh, Compare!RecoverInterrupted,
         CP!RecoverInterrupted
<1> QED  BY <1>1, <1>2, <1>3, <1>4, <1>5, <1>6, <1>7, <1>8 DEF Compare!Next, CP!Next

(* The comparisons take the steps of their own module, and rest otherwise. *)
LEMMA ComparisonsStep == [MCNext]_allVars => [CP!Next]_(CP!vars)
<1>1. CASE CompareStep(Compare!Next)
  BY <1>1, SameNext DEF CompareStep
<1>2. CASE \/ QueueStep(Next) \/ CommandStep(Command!CommandNext) \/ ProcessStep(Process!ProcessNext)
           \/ UNCHANGED allVars
  BY <1>2 DEF QueueStep, CommandStep, ProcessStep, allVars, compareVars, CP!vars, CP!storageVars
<1> QED  BY <1>1, <1>2 DEF MCNext

LEMMA ComparisonsRun == MCSpec => CP!Spec
<1>1. MCInit => CP!Init
  BY SameInit DEF MCInit
<1> QED  BY <1>1, ComparisonsStep, PTL DEF MCSpec, CP!Spec

LEMMA SameProperties ==
  CP!TypeOK /\ CP!SourcesArePresent /\ CP!PinsAreHeld /\ CP!NothingIsLeft
    /\ CP!JobIsCarried /\ CP!SuccessHasResult /\ CP!LanesWithinLimit
  => ComparisonsAreSound
<1>1. CP!TypeOK => Compare!TypeOK
  BY Zenon DEF Compare!TypeOK, CP!TypeOK, Compare!Working, CP!Working, Compare!Status, CP!Status,
         Compare!Steps, CP!Steps, Compare!StorageTypeOK, CP!StorageTypeOK, Compare!Directory,
         CP!Directory
<1>2. CP!SourcesArePresent => Compare!SourcesArePresent
  BY Zenon DEF Compare!SourcesArePresent, CP!SourcesArePresent, Compare!Working, CP!Working, Compare!At,
         CP!At
<1>3. CP!PinsAreHeld => Compare!PinsAreHeld
  BY Zenon DEF Compare!PinsAreHeld, CP!PinsAreHeld, Compare!Cardinality, CP!Cardinality
<1>4. CP!NothingIsLeft => Compare!NothingIsLeft
  BY Zenon DEF Compare!NothingIsLeft, CP!NothingIsLeft, Compare!Working, CP!Working, Compare!At, CP!At
<1>5. CP!JobIsCarried => Compare!JobIsCarried
  BY Zenon DEF Compare!JobIsCarried, CP!JobIsCarried, Compare!Working, CP!Working, Compare!At, CP!At
<1>6. CP!SuccessHasResult => Compare!SuccessHasResult
  BY Zenon DEF Compare!SuccessHasResult, CP!SuccessHasResult
<1>7. CP!LanesWithinLimit => Compare!LanesWithinLimit
  BY Zenon DEF Compare!LanesWithinLimit, CP!LanesWithinLimit, Compare!Cardinality, CP!Cardinality,
         Compare!Lanes, CP!Lanes, Compare!Working, CP!Working
<1> QED  BY <1>1, <1>2, <1>3, <1>4, <1>5, <1>6, <1>7 DEF ComparisonsAreSound

(* The sources of a comparison stay from the INSERT of its job to the end  *)
(* of its task, each pin on a source has its holder, a request that ended  *)
(* leaves nothing, a job is carried by its request or its task, a success  *)
(* has its result file, and the queue keeps to its lanes.                  *)
THEOREM ComparisonsStay == MCSpec => []ComparisonsAreSound
<1>1. CP!Spec => [](/\ CP!TypeOK /\ CP!SourcesArePresent /\ CP!PinsAreHeld /\ CP!NothingIsLeft
                    /\ CP!JobIsCarried /\ CP!SuccessHasResult /\ CP!LanesWithinLimit)
  BY SameAssumption, CP!ComparisonsStaySound
<1> QED  BY <1>1, ComparisonsRun, SameProperties, PTL

(* A comparison that ended keeps its status, whatever reports late, and a  *)
(* server that starts again finds none that waits or runs.                 *)
THEOREM PastStays == MCSpec => HistoryIsKept
<1>1. MCSpec => []CP!ComparisonInv
  <2>1. CP!Spec => []CP!ComparisonInv
    BY SameAssumption, CP!Invariance
  <2> QED  BY <2>1, ComparisonsRun, PTL
<1>2. [MCNext]_allVars => [CP!Next]_(CP!vars)
  BY ComparisonsStep
<1>3. CP!ComparisonInv /\ [MCNext]_allVars
        => [\A c \in Compared : row[c] \in {"SUCCEEDED", "FAILED"} => row'[c] = row[c]]_(Compare!vars)
  BY <1>2, CP!FinalStep
<1>4. CP!ComparisonInv /\ [MCNext]_allVars
        => [bounds'.restarts > bounds.restarts
              => \A c \in Compared : row'[c] \notin {"QUEUED", "RUNNING"}]_(Compare!vars)
  BY <1>2, SameAssumption, CP!RestartStep
<1> QED
  BY <1>1, <1>3, <1>4, PTL DEF MCSpec, HistoryIsKept, Compare!FinalIsFinal, Compare!RestartEndsJobs
=============================================================================
