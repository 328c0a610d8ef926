----------------------------- MODULE LeaseProofs ----------------------------
(***************************************************************************)
(* Types, the capacity of the rows and, for punctual processes, the        *)
(* exclusion of working tasks, for any jobs, processes and durations.      *)
(***************************************************************************)
EXTENDS ExecutionLease, FiniteSetTheorems, TLAPS

(* Only a serving process has tasks.                                       *)
TasksServed == \A j \in Jobs : pc[j] \in {"queued"} \cup Lane => Serving(j)

(* A row that is being looked at is new; the row of a working task that is *)
(* not aborted outlives its timer.                                         *)
RowsLast ==
  \A j \in Jobs :
    /\ pc[j] = "confirming" => row[j] \in {LeaseTicks, None}
    /\ pc[j] \in Working /\ ~aborted[j] =>
         row[j] \in 0..LeaseTicks /\ row[j] >= timer[j] + (LeaseTicks - BeatTicks)

(* A job has no row before its task asks for one.                          *)
NoRowsYet ==
  \A j \in Jobs :
    /\ status[j] = "ABSENT" => pc[j] = "none"
    /\ pc[j] \in {"none", "queued", "waiting"} => row[j] = None

RowsCounted == IsFiniteSet(Rows) /\ RowsWithinCapacity

NoneFacts ==
  /\ LeaseTicks \in Nat /\ None \in Nat /\ None = LeaseTicks + 1
  /\ LeaseTicks \in 0..None /\ None \in 0..None /\ None \notin 0..LeaseTicks
  /\ 0 \in 0..BeatTicks /\ BeatTicks \in 0..BeatTicks

LEMMA NoneIsNoTick == NoneFacts
  BY LeaseAssumption DEF None, NoneFacts

LEMMA TypeInit == Init => TypeOK
  BY LeaseAssumption DEF Init, TypeOK, None, Nothing, Lane, Alive

LEMMA TypeNext == TypeOK /\ [Next]_allVars => TypeOK'
<1> SUFFICES ASSUME TypeOK, [Next]_allVars PROVE TypeOK'
  OBVIOUS
<1>0. NoneFacts
  BY NoneIsNoTick
<1>00. /\ timer \in [Jobs -> 0..BeatTicks] /\ aborted \in [Jobs -> BOOLEAN]
       /\ 0 \in 0..BeatTicks /\ BeatTicks \in 0..BeatTicks
  BY <1>0 DEF TypeOK, NoneFacts
<1>1. ASSUME NEW j \in Jobs, Create(j) PROVE TypeOK'
  BY <1>1 DEF TypeOK, Create, Write, Goto
<1>2. ASSUME NEW j \in Jobs, Drain(j) PROVE TypeOK'
  <2>1. aborted' \in [Jobs -> BOOLEAN]
    <3> DEFINE told == phase[Home[j]] = "aborting"
    <3>1. told \in BOOLEAN /\ aborted' = [aborted EXCEPT ![j] = told]
      BY <1>2 DEF Drain
    <3> HIDE DEF told
    <3> QED  BY <1>00, <3>1
  <2> QED  BY <1>2, <2>1 DEF TypeOK, Drain, Goto, Lane
<1>3. ASSUME NEW j \in Jobs, Acquire(j) PROVE TypeOK'
  <2>1. row' \in [Jobs -> 0..None]
    BY <1>0, <1>3 DEF TypeOK, Acquire, NoneFacts
  <2>2. pc' \in [Jobs -> {"none", "queued", "ended"} \cup Lane]
    BY <1>3 DEF TypeOK, Acquire, Goto, End, Lane
  <2>3. aborted' = aborted \/ aborted' = [aborted EXCEPT ![j] = FALSE]
    BY <1>3 DEF Acquire, End
  <2>4. timer' = timer \/ timer' = [timer EXCEPT ![j] = 0]
    BY <1>3 DEF Acquire, End
  <2>5. timer' \in [Jobs -> 0..BeatTicks] /\ aborted' \in [Jobs -> BOOLEAN]
    BY <1>00, <2>3, <2>4
  <2> QED  BY <1>3, <2>1, <2>2, <2>5 DEF TypeOK, Acquire
<1>4. ASSUME NEW j \in Jobs, Confirm(j) PROVE TypeOK'
  <2>1. pc' \in [Jobs -> {"none", "queued", "ended"} \cup Lane]
    BY <1>4 DEF TypeOK, Confirm, Goto, End, Lane
  <2>2. aborted' = aborted \/ aborted' = [aborted EXCEPT ![j] = FALSE]
    BY <1>4 DEF Confirm, End
  <2>3. \/ timer' = timer
        \/ timer' = [timer EXCEPT ![j] = 0]
        \/ timer' = [timer EXCEPT ![j] = BeatTicks]
    BY <1>4 DEF Confirm, End
  <2>4. timer' \in [Jobs -> 0..BeatTicks] /\ aborted' \in [Jobs -> BOOLEAN]
    BY <1>00, <2>2, <2>3
  <2> QED  BY <1>4, <2>1, <2>4 DEF TypeOK, Confirm
<1>5. ASSUME NEW j \in Jobs, Heartbeat(j) PROVE TypeOK'
  <2>1. row' \in [Jobs -> 0..None]
    BY <1>0, <1>5 DEF TypeOK, Heartbeat, NoneFacts
  <2>2. timer' \in [Jobs -> 0..BeatTicks] /\ aborted' \in [Jobs -> BOOLEAN]
    BY <1>0, <1>5 DEF TypeOK, Heartbeat, NoneFacts
  <2> QED  BY <1>5, <2>1, <2>2 DEF TypeOK, Heartbeat
<1>6. ASSUME NEW j \in Jobs, StartJob(j) PROVE TypeOK'
  BY <1>6 DEF TypeOK, StartJob, Goto, Write, Lane
<1>7. ASSUME NEW j \in Jobs, Work(j) PROVE TypeOK'
  BY <1>7 DEF TypeOK, Work, Goto, Write, Lane
<1>8. ASSUME NEW j \in Jobs, Release(j) PROVE TypeOK'
  <2>1. row' \in [Jobs -> 0..None] /\ timer' \in [Jobs -> 0..BeatTicks]
    BY <1>0, <1>8 DEF TypeOK, Release, End, NoneFacts
  <2> QED  BY <1>8, <2>1 DEF TypeOK, Release, Goto, End
<1>9. ASSUME NEW j \in Jobs, Submit(j) \/ Finish(j) PROVE TypeOK'
  BY <1>9 DEF TypeOK, Submit, Finish
<1>10. ASSUME NEW p \in Processes, Stop(p) \/ AbortAll(p) PROVE TypeOK'
  <2>1. CASE Stop(p)
    BY <2>1 DEF TypeOK, Stop, Alive
  <2>2. CASE AbortAll(p)
    <3>1. aborted' \in [Jobs -> BOOLEAN]
      BY <2>2 DEF AbortAll
    <3>2. phase' \in [Processes -> Alive \cup {"starting", "closing", "down"}]
      BY <2>2 DEF TypeOK, AbortAll, Alive
    <3> QED  BY <2>2, <3>1, <3>2 DEF TypeOK, AbortAll
  <2> QED  BY <1>10, <2>1, <2>2
<1>11. ASSUME NEW p \in Processes, Boot(p) \/ Settle(p) PROVE TypeOK'
  <2>1. Interrupted \in [Jobs -> {"none", "QUEUED", "RUNNING"}]
    BY DEF TypeOK, Interrupted
  <2>2. phase' \in [Processes -> Alive \cup {"starting", "closing", "down"}]
    BY <1>11 DEF TypeOK, Boot, Settle
  <2> QED  BY <1>11, <2>1, <2>2 DEF TypeOK, Boot, Settle
<1>12. ASSUME NEW p \in Processes, RecoverFails(p) \/ Recovered(p) PROVE TypeOK'
  <2>1. Nothing \in [Jobs -> {"none", "QUEUED", "RUNNING"}]
    BY DEF Nothing
  <2>2. listed' \in [Processes -> [Jobs -> {"none", "QUEUED", "RUNNING"}]]
    BY <1>12, <2>1 DEF TypeOK, RecoverFails, Recovered
  <2>3. phase' \in [Processes -> Alive \cup {"starting", "closing", "down"}]
    BY <1>12 DEF TypeOK, RecoverFails, Recovered, Alive
  <2> QED  BY <1>12, <2>2, <2>3 DEF TypeOK, RecoverFails, Recovered
<1>13. ASSUME NEW p \in Processes, Crash(p) PROVE TypeOK'
  <2>1. Nothing \in [Jobs -> {"none", "QUEUED", "RUNNING"}]
    BY DEF Nothing
  <2>2. timer' \in [Jobs -> 0..BeatTicks] /\ aborted' \in [Jobs -> BOOLEAN]
    BY <1>0, <1>13 DEF TypeOK, Crash, NoneFacts
  <2> QED  BY <1>13, <2>1, <2>2 DEF TypeOK, Crash
<1>14. ASSUME NEW p \in Processes, NEW j \in Jobs, Recover(p, j) PROVE TypeOK'
  BY <1>14 DEF TypeOK, Recover, Write
<1>15. CASE Tick
  <2>1. row' \in [Jobs -> 0..None]
    <3>1. \A j \in Jobs : row[j] \in 0..None
      BY DEF TypeOK
    <3>2. \A j \in Jobs : row[j] \notin {0, None} => row[j] - 1 \in 0..None
      BY <1>0, <3>1 DEF NoneFacts
    <3>3. \A j \in Jobs : (IF row[j] \in {0, None} THEN row[j] ELSE row[j] - 1) \in 0..None
      BY <3>1, <3>2
    <3> QED  BY <1>15, <3>3 DEF Tick
  <2>2. timer' \in [Jobs -> 0..BeatTicks]
    <3>1. \A j \in Jobs : timer[j] \in 0..BeatTicks
      BY DEF TypeOK
    <3>2. \A j \in Jobs : (IF timer[j] = 0 THEN 0 ELSE timer[j] - 1) \in 0..BeatTicks
      BY <3>1, LeaseAssumption
    <3> QED  BY <1>15, <3>2 DEF Tick
  <2> QED  BY <1>15, <2>1, <2>2 DEF TypeOK, Tick
<1>16. CASE UNCHANGED allVars
  BY <1>16 DEF TypeOK, allVars, vars
<1> QED
  BY <1>1, <1>2, <1>3, <1>4, <1>5, <1>6, <1>7, <1>8, <1>9, <1>10, <1>11, <1>12, <1>13, <1>14, <1>15, <1>16
  DEF Next, TaskStep, ProcessStep

(* Statuses, rows, tasks, timers, operations, processes and recoveries     *)
(* keep their types.                                                       *)
THEOREM LeaseTypes == Spec => []TypeOK
  BY TypeInit, TypeNext, PTL DEF Spec

-----------------------------------------------------------------------------
(* A step that adds a row has found room for it.                           *)
LEMMA RowsNext == TypeOK /\ RowsCounted /\ [Next]_allVars => RowsCounted'
<1> SUFFICES ASSUME TypeOK, RowsCounted, [Next]_allVars PROVE RowsCounted'
  OBVIOUS
<1>0. NoneFacts
  BY NoneIsNoTick
<1>1. ASSUME Rows' \subseteq Rows PROVE RowsCounted'
  <2>1. IsFiniteSet(Rows') /\ Cardinality(Rows') <= Cardinality(Rows)
    BY <1>1, FS_Subset DEF RowsCounted
  <2>2. Cardinality(Rows) \in Nat /\ Cardinality(Rows') \in Nat
    BY <2>1, FS_CardinalityType DEF RowsCounted
  <2> QED  BY <2>1, <2>2, LeaseAssumption DEF RowsCounted, RowsWithinCapacity
<1>2. ASSUME NEW j \in Jobs, Acquire(j) PROVE RowsCounted'
  <2> DEFINE kept == Rows \ Expired
  <2>1. IsFiniteSet(kept) /\ Cardinality(kept) \in Nat
    BY FS_Subset, FS_CardinalityType DEF RowsCounted
  <2>2. CASE Rows' \subseteq Rows
    BY <1>1, <2>2
  <2>3. CASE ~(Rows' \subseteq Rows)
    <3>1. Cardinality(kept) < Maximum
      BY <1>2, <2>3 DEF Acquire, Rows
    <3>2. Rows' \subseteq kept \cup {j}
      <4>1. row' = [k \in Jobs |-> IF k = j THEN LeaseTicks ELSE IF k \in kept THEN row[k] ELSE None]
        BY <1>2, <2>3, <3>1 DEF Acquire, Rows
      <4> QED  BY <4>1 DEF Rows
    <3>3. IsFiniteSet(kept \cup {j}) /\ Cardinality(kept \cup {j}) <= Cardinality(kept) + 1
      <4> HIDE DEF kept
      <4> QED  BY <2>1, FS_AddElement
    <3>4. IsFiniteSet(Rows') /\ Cardinality(Rows') <= Cardinality(kept \cup {j})
      BY <3>2, <3>3, FS_Subset
    <3>5. Cardinality(Rows') \in Nat /\ Cardinality(kept \cup {j}) \in Nat
      BY <3>3, <3>4, FS_CardinalityType
    <3> QED  BY <2>1, <3>1, <3>3, <3>4, <3>5, LeaseAssumption DEF RowsCounted, RowsWithinCapacity
  <2> QED  BY <2>2, <2>3
<1>3. ASSUME NEW j \in Jobs, Heartbeat(j) PROVE Rows' \subseteq Rows
  <2>1. row[j] \in 1..LeaseTicks => row[j] # None
    BY <1>0 DEF NoneFacts
  <2> QED  BY <1>3, <2>1 DEF TypeOK, Heartbeat, Rows
<1>4. ASSUME NEW j \in Jobs, Release(j) PROVE Rows' \subseteq Rows
  BY <1>4 DEF TypeOK, Release, Rows
<1>5. ASSUME Tick PROVE Rows' \subseteq Rows
  BY <1>5 DEF TypeOK, Tick, Rows
<1>6. ASSUME NEW j \in Jobs, \/ Create(j) \/ Drain(j) \/ Confirm(j) \/ StartJob(j)
                              \/ Work(j) \/ Submit(j) \/ Finish(j)
      PROVE  row' = row
  BY <1>6 DEF Create, Drain, Confirm, StartJob, Work, Submit, Finish
<1>7. ASSUME NEW p \in Processes, ProcessStep(p) PROVE row' = row
  BY <1>7 DEF ProcessStep, Stop, AbortAll, Boot, Settle, RecoverFails, Recovered, Crash, Recover
<1>8. row' = row => Rows' \subseteq Rows
  BY DEF Rows
<1>9. UNCHANGED allVars => row' = row
  BY DEF allVars, vars
<1> QED
  BY <1>1, <1>2, <1>3, <1>4, <1>5, <1>6, <1>7, <1>8, <1>9 DEF Next, TaskStep

(* The rows are finitely many and within the maximum.                      *)
LEMMA LeaseRowsCounted == Spec => []RowsCounted
<1>1. Init => RowsCounted
  <2>1. Init => Rows = {}
    BY DEF Init, Rows
  <2>2. IsFiniteSet({}) /\ Cardinality({}) = 0
    BY FS_EmptySet
  <2> QED  BY <2>1, <2>2, LeaseAssumption DEF RowsCounted, RowsWithinCapacity
<1> QED  BY <1>1, RowsNext, LeaseTypes, PTL DEF Spec

(* The rows never exceed the maximum, whatever crashes, fails or stalls.   *)
THEOREM LeaseCapacity == Spec => []RowsWithinCapacity
<1>1. RowsCounted => RowsWithinCapacity
  BY DEF RowsCounted
<1> QED  BY <1>1, LeaseRowsCounted, PTL

-----------------------------------------------------------------------------
(* Tasks end with their process.                                           *)
LEMMA ServedNext == TypeOK /\ TasksServed /\ [Next]_allVars => TasksServed'
<1> SUFFICES ASSUME TypeOK, TasksServed, [Next]_allVars PROVE TasksServed'
  OBVIOUS
<1>1. ASSUME phase' = phase, NEW j \in Jobs, Serving(j), NEW x, pc' = [pc EXCEPT ![j] = x] \/ pc' = pc
      PROVE  TasksServed'
  BY <1>1 DEF TypeOK, TasksServed, Serving
<1>2. ASSUME NEW j \in Jobs, Create(j) \/ TaskStep(j) PROVE TasksServed'
  <2>1. phase' = phase
    BY <1>2 DEF TaskStep, Create, Drain, Acquire, Confirm, Heartbeat, StartJob, Work, Release
  <2>2. Serving(j)
    BY <1>2 DEF TaskStep, Create, Drain, Acquire, Confirm, Heartbeat, StartJob, Work, Release,
                At, Serving, Alive
  <2>3. pc' = pc \/ \E x : pc' = [pc EXCEPT ![j] = x]
    BY <1>2 DEF TaskStep, Create, Drain, Acquire, Confirm, Heartbeat, StartJob, Work, Release,
                Goto, End
  <2> QED  BY <1>1, <2>1, <2>2, <2>3
<1>3. ASSUME phase' = phase, pc' = pc PROVE TasksServed'
  BY <1>3 DEF TasksServed, Serving
<1>4. ASSUME NEW p \in Processes, Stop(p) \/ AbortAll(p) \/ Crash(p) PROVE TasksServed'
  <2> SUFFICES ASSUME NEW j \in Jobs, pc'[j] \in {"queued"} \cup Lane PROVE Serving(j)'
    BY DEF TasksServed
  <2>1. Home[j] \in Processes /\ pc'[j] = pc[j]
    BY <1>4, LeaseAssumption DEF Stop, AbortAll, Crash, Lane
  <2>2. Serving(j)
    BY <2>1 DEF TasksServed
  <2>3. CASE Stop(p)
    BY <2>1, <2>2, <2>3 DEF Stop, TypeOK, Serving, Alive
  <2>4. CASE AbortAll(p)
    BY <2>1, <2>2, <2>4 DEF AbortAll, TypeOK, Serving, Alive
  <2>5. CASE Crash(p)
    <3>1. Home[j] # p
      BY <2>1, <2>5 DEF Crash, Lane
    <3> QED  BY <2>1, <2>2, <2>5, <3>1 DEF Crash, TypeOK, Serving
  <2> QED  BY <1>4, <2>3, <2>4, <2>5
<1>5. ASSUME NEW p \in Processes, Boot(p) \/ RecoverFails(p) \/ Recovered(p) PROVE TasksServed'
  <2>1. phase[p] \notin Alive /\ pc' = pc
    BY <1>5 DEF Boot, RecoverFails, Recovered, Alive
  <2>2. \A r \in Processes \ {p} : phase'[r] = phase[r]
    BY <1>5 DEF Boot, RecoverFails, Recovered, TypeOK
  <2> QED  BY <2>1, <2>2, LeaseAssumption DEF TasksServed, Serving
<1>6. ASSUME NEW p \in Processes, Settle(p) PROVE TasksServed'
  <2>1. \A r \in Processes \ {p} : phase'[r] = phase[r]
    BY <1>6 DEF Settle, TypeOK
  <2>2. \A j \in Jobs : Home[j] = p => pc'[j] \in {"none", "ended"}
    BY <1>6 DEF Settle
  <2> QED  BY <1>6, <2>1, <2>2, LeaseAssumption DEF Settle, TasksServed, Serving, Lane
<1>7. ASSUME NEW p \in Processes, \E j \in Jobs : Recover(p, j) PROVE TasksServed'
  BY <1>3, <1>7 DEF Recover
<1>8. ASSUME NEW j \in Jobs, Submit(j) \/ Finish(j) PROVE TasksServed'
  BY <1>3, <1>8 DEF Submit, Finish
<1>9. CASE Tick \/ UNCHANGED allVars
  BY <1>3, <1>9 DEF Tick, allVars, vars
<1> QED  BY <1>2, <1>4, <1>5, <1>6, <1>7, <1>8, <1>9 DEF Next, ProcessStep

(* Only the transaction of its task gives a job a row.                     *)
LEMMA NoRowsNext == TypeOK /\ NoRowsYet /\ [Next]_allVars => NoRowsYet'
<1> DEFINE Fresh(j) ==
             /\ status[j] = "ABSENT" => pc[j] = "none"
             /\ pc[j] \in {"none", "queued", "waiting"} => row[j] = None
<1> SUFFICES ASSUME TypeOK, NoRowsYet, [Next]_allVars, NEW i \in Jobs PROVE Fresh(i)'
  BY DEF NoRowsYet
<1>0. Fresh(i) /\ NoneFacts
  BY NoneIsNoTick DEF NoRowsYet
<1>1. ASSUME NEW j \in Jobs, Create(j) \/ Drain(j) \/ StartJob(j) \/ Work(j) PROVE Fresh(i)'
  BY <1>0, <1>1 DEF Create, Drain, StartJob, Work, Goto, Write, At, TypeOK
<1>2. ASSUME NEW j \in Jobs, Acquire(j) PROVE Fresh(i)'
  <2>1. status' = status /\ pc[j] = "waiting"
    BY <1>2 DEF Acquire, At
  <2>2. CASE i = j
    BY <1>0, <1>2, <2>1, <2>2 DEF Acquire, Goto, End, TypeOK
  <2>3. CASE i # j
    <3>1. pc'[i] = pc[i] /\ row'[i] \in {row[i], None}
      BY <1>2, <2>3 DEF Acquire, Goto, End, TypeOK
    <3> QED  BY <1>0, <2>1, <3>1
  <2> QED  BY <2>2, <2>3
<1>3. ASSUME NEW j \in Jobs, Confirm(j) PROVE Fresh(i)'
  BY <1>0, <1>3 DEF Confirm, Goto, End, At, TypeOK
<1>4. ASSUME NEW j \in Jobs, Heartbeat(j) PROVE Fresh(i)'
  <2>1. pc' = pc /\ status' = status /\ pc[j] \in {"starting", "running"}
    BY <1>4 DEF Heartbeat, Working
  <2>2. i # j => row'[i] = row[i]
    BY <1>4 DEF Heartbeat, TypeOK
  <2> QED  BY <1>0, <2>1, <2>2
<1>5. ASSUME NEW j \in Jobs, Release(j) PROVE Fresh(i)'
  BY <1>0, <1>5 DEF Release, End, Goto, At, TypeOK
<1>6. ASSUME NEW j \in Jobs, Submit(j) \/ Finish(j) PROVE Fresh(i)'
  BY <1>0, <1>6 DEF Submit, Finish
<1>7. ASSUME NEW p \in Processes, ProcessStep(p) PROVE Fresh(i)'
  <2>1. CASE Stop(p) \/ Crash(p)
    BY <1>0, <2>1 DEF Stop, Crash, TypeOK
  <2>2. CASE \/ AbortAll(p) \/ Boot(p) \/ Settle(p) \/ RecoverFails(p) \/ Recovered(p)
    BY <1>0, <2>2 DEF AbortAll, Boot, Settle, RecoverFails, Recovered
  <2>3. ASSUME NEW j \in Jobs, Recover(p, j) PROVE Fresh(i)'
    BY <1>0, <2>3 DEF Recover, Write, TypeOK
  <2> QED  BY <1>7, <2>1, <2>2, <2>3 DEF ProcessStep
<1>8. CASE Tick
  BY <1>0, <1>8 DEF Tick
<1>9. CASE UNCHANGED allVars
  BY <1>0, <1>9 DEF allVars, vars
<1> QED
  BY <1>1, <1>2, <1>3, <1>4, <1>5, <1>6, <1>7, <1>8, <1>9 DEF Next, TaskStep

(* A punctual heartbeat renews its row long before it expires.             *)
LEMMA RowsLastNext ==
  ASSUME punctual, TypeOK, TasksServed, NoRowsYet, RowsLast, [Next]_allVars
  PROVE  RowsLast'
<1> DEFINE Lasts(j) ==
             /\ pc[j] = "confirming" => row[j] \in {LeaseTicks, None}
             /\ pc[j] \in Working /\ ~aborted[j] =>
                  row[j] \in 0..LeaseTicks /\ row[j] >= timer[j] + (LeaseTicks - BeatTicks)
           Same(j) == pc'[j] = pc[j] /\ row'[j] = row[j] /\ timer'[j] = timer[j] /\ (aborted[j] => aborted'[j])
<1> SUFFICES ASSUME NEW i \in Jobs PROVE Lasts(i)'
  BY DEF RowsLast
<1>0. NoneFacts /\ Lasts(i) /\ BeatTicks < LeaseTicks /\ BeatTicks \in Nat \ {0}
  BY NoneIsNoTick, LeaseAssumption DEF RowsLast
<1>1. ASSUME Same(i) PROVE Lasts(i)'
  BY <1>0, <1>1 DEF TypeOK
<1>2. ASSUME pc'[i] \notin Working \cup {"confirming"} PROVE Lasts(i)'
  BY <1>2 DEF Working
<1>3. ASSUME NEW j \in Jobs, \/ Create(j) \/ Drain(j) \/ Submit(j) \/ Finish(j) \/ Work(j) \/ Release(j)
      PROVE  Lasts(i)'
  <2>1. CASE i = j
    BY <1>1, <1>2, <1>3, <2>1
    DEF Create, Drain, Submit, Finish, Work, Release, Goto, End, Working, TypeOK
  <2>2. CASE i # j
    BY <1>1, <1>3, <2>2
    DEF Create, Drain, Submit, Finish, Work, Release, Goto, End, TypeOK
  <2> QED  BY <2>1, <2>2
<1>4. ASSUME NEW j \in Jobs, Acquire(j) PROVE Lasts(i)'
  <2>1. CASE i = j
    <3>1. row[i] = None
      BY <1>4, <2>1 DEF Acquire, At, NoRowsYet
    <3>2. pc'[i] = "ended" \/ (pc'[i] = "confirming" /\ row'[i] \in {LeaseTicks, None})
      BY <1>4, <2>1, <3>1 DEF Acquire, Goto, End, TypeOK
    <3> QED  BY <3>2 DEF Working
  <2>2. CASE i # j
    <3>1. /\ pc'[i] = pc[i] /\ timer'[i] = timer[i] /\ aborted'[i] = aborted[i]
          /\ row'[i] = row[i] \/ (row'[i] = None /\ row[i] \in {0, None})
      BY <1>4, <2>2 DEF Acquire, Goto, End, TypeOK, Rows, Expired
    <3>2. timer[i] \in 0..BeatTicks
      BY DEF TypeOK
    <3>3. ~(pc[i] \in Working /\ ~aborted[i] /\ row[i] \in {0, None})
      BY <1>0, <3>2 DEF NoneFacts
    <3>4. row'[i] = None \/ row'[i] = row[i]
      BY <3>1
    <3> QED  BY <1>0, <3>1, <3>3, <3>4
  <2> QED  BY <2>1, <2>2
<1>5. ASSUME NEW j \in Jobs, Confirm(j) PROVE Lasts(i)'
  <2>1. CASE i = j
    <3>1. CASE pc'[i] = "starting"
      <4>1. row'[i] = LeaseTicks /\ timer'[i] = BeatTicks
        BY <1>0, <1>5, <2>1, <3>1 DEF Confirm, Goto, End, At, TypeOK
      <4> QED  BY <1>0, <3>1, <4>1 DEF NoneFacts, Working
    <3>2. CASE pc'[i] # "starting"
      BY <1>2, <1>5, <2>1, <3>2 DEF Confirm, Goto, End, TypeOK, Working
    <3> QED  BY <3>1, <3>2
  <2>2. CASE i # j
    BY <1>1, <1>5, <2>2 DEF Confirm, Goto, End, TypeOK
  <2> QED  BY <2>1, <2>2
<1>6. ASSUME NEW j \in Jobs, Heartbeat(j) PROVE Lasts(i)'
  <2>1. CASE i = j
    <3>1. pc'[i] # "confirming" /\ timer'[i] = BeatTicks
      BY <1>6, <2>1 DEF Heartbeat, TypeOK, Working
    <3>2. aborted'[i] \/ row'[i] = LeaseTicks
      BY <1>6, <2>1 DEF Heartbeat, TypeOK
    <3> QED  BY <1>0, <3>1, <3>2 DEF NoneFacts
  <2>2. CASE i # j
    BY <1>1, <1>6, <2>2 DEF Heartbeat, TypeOK
  <2> QED  BY <2>1, <2>2
<1>7. ASSUME NEW j \in Jobs, StartJob(j) PROVE Lasts(i)'
  <2>1. CASE i = j
    <3>1. /\ pc'[i] \in {"running", "releasing"} /\ pc[i] = "starting"
          /\ row'[i] = row[i] /\ timer'[i] = timer[i] /\ aborted'[i] = aborted[i]
      BY <1>7, <2>1 DEF StartJob, Goto, At, TypeOK
    <3> QED  BY <1>0, <3>1 DEF Working
  <2>2. CASE i # j
    BY <1>1, <1>7, <2>2 DEF StartJob, Goto, TypeOK
  <2> QED  BY <2>1, <2>2
<1>8. ASSUME NEW p \in Processes, ProcessStep(p) PROVE Lasts(i)'
  <2>1. CASE Stop(p) \/ Crash(p)
    <3>1. pc'[i] \in {"none", "ended"} \/ Same(i)
      BY <1>8, <2>1 DEF Stop, Crash, TypeOK
    <3> QED  BY <1>1, <1>2, <3>1 DEF Working
  <2>2. CASE AbortAll(p)
    BY <1>1, <2>2 DEF AbortAll, TypeOK
  <2>3. CASE \/ Boot(p) \/ Settle(p) \/ RecoverFails(p) \/ Recovered(p) \/ \E j \in Jobs : Recover(p, j)
    BY <1>1, <2>3 DEF Boot, Settle, RecoverFails, Recovered, Recover
  <2> QED  BY <1>8, <2>1, <2>2, <2>3 DEF ProcessStep
<1>9. CASE Tick
  <2>1. /\ pc[i] # "confirming" /\ (pc[i] \in Working => timer[i] > 0)
    BY <1>9 DEF Tick, OnTime, TasksServed, Lane, Working
  <2>2. /\ pc'[i] = pc[i] /\ aborted'[i] = aborted[i]
        /\ row'[i] = IF row[i] \in {0, None} THEN row[i] ELSE row[i] - 1
        /\ timer'[i] = IF timer[i] = 0 THEN 0 ELSE timer[i] - 1
    BY <1>9 DEF Tick
  <2>3. timer[i] \in 0..BeatTicks
    BY DEF TypeOK
  <2>4. ASSUME pc[i] \in Working, ~aborted[i]
        PROVE  row'[i] \in 0..LeaseTicks /\ row'[i] >= timer'[i] + (LeaseTicks - BeatTicks)
    <3>1. row[i] \in 0..LeaseTicks /\ row[i] # None /\ row[i] > 0 /\ timer[i] > 0
      BY <1>0, <2>1, <2>3, <2>4 DEF NoneFacts
    <3>2. row'[i] = row[i] - 1 /\ timer'[i] = timer[i] - 1
      BY <2>2, <3>1
    <3> QED  BY <1>0, <2>3, <2>4, <3>1, <3>2 DEF NoneFacts
  <2> QED  BY <2>1, <2>2, <2>4
<1>10. CASE UNCHANGED allVars
  BY <1>1, <1>10 DEF allVars, vars
<1> QED
  BY <1>3, <1>4, <1>5, <1>6, <1>7, <1>8, <1>9, <1>10 DEF Next, TaskStep

(* No more tasks than the maximum work at a time in all processes, as long *)
(* as processes are punctual: each holds a row.                            *)
THEOREM OneHolder == Spec => []Exclusive
<1> DEFINE Timely == punctual => RowsLast
<1>1. Init => TasksServed /\ NoRowsYet /\ Timely
  BY DEF Init, TasksServed, NoRowsYet, RowsLast, Lane, Working
<1>2. TypeOK /\ TasksServed /\ NoRowsYet /\ Timely /\ [Next]_allVars
        => TasksServed' /\ NoRowsYet' /\ Timely'
  <2> SUFFICES ASSUME TypeOK, TasksServed, NoRowsYet, Timely, [Next]_allVars
               PROVE  TasksServed' /\ NoRowsYet' /\ Timely'
    OBVIOUS
  <2>1. punctual' = punctual
    BY DEF Next, allVars
  <2>2. punctual => RowsLast'
    BY RowsLastNext
  <2> QED  BY <2>1, <2>2, ServedNext, NoRowsNext
<1>3. Timely /\ RowsCounted => Exclusive
  <2> DEFINE Workers == {j \in Jobs : pc[j] \in Working /\ ~aborted[j]}
  <2> SUFFICES ASSUME RowsLast, RowsCounted PROVE Cardinality(Workers) <= Maximum
    BY DEF Exclusive
  <2>1. Workers \subseteq Rows
    BY NoneIsNoTick DEF RowsLast, Rows, NoneFacts
  <2> HIDE DEF Workers
  <2>2. IsFiniteSet(Workers) /\ Cardinality(Workers) <= Cardinality(Rows)
    BY <2>1, FS_Subset DEF RowsCounted
  <2>3. Cardinality(Workers) \in Nat /\ Cardinality(Rows) \in Nat
    BY <2>2, FS_CardinalityType DEF RowsCounted
  <2> QED  BY <2>2, <2>3, LeaseAssumption DEF RowsCounted, RowsWithinCapacity
<1> HIDE DEF Timely
<1> QED  BY <1>1, <1>2, <1>3, LeaseRowsCounted, LeaseTypes, PTL DEF Spec
=============================================================================
