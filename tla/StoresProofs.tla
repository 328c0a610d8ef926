---------------------------- MODULE StoresProofs ---------------------------
(***************************************************************************)
(* The Git imports of a process for any number of imports and lanes and    *)
(* any limits. What holds of an import is one predicate of its entry, its  *)
(* row, its directory and its calls (Sound); a drain moves at most one     *)
(* more import than the action it belongs to (DrainStep).                  *)
(*                                                                         *)
(* Then the stores of MCStores: the lines of the keyed tails (Lined), the  *)
(* cache and what it sums up, the calls about branches and what they are   *)
(* counted for, the clean-up of the run directories.                       *)
(***************************************************************************)
EXTENDS GitImports, MCStores, FiniteSetTheorems, NaturalsInduction, WellFoundedInduction, TLAPS

(* The values of an import.                                                *)
Row == [pc : {"new", "idle", "ended"} \cup Admitting \cup Working,
        entry : BOOLEAN, aborted : BOOLEAN, timer : BOOLEAN, selecting : BOOLEAN,
        exec : {"none", "running", "resolved", "rejected"}, lease : BOOLEAN,
        cleanup : {"none", "running", "done"}, source : BOOLEAN]
Item == [id : Imports, work : {"start", "mark"}]

Unstarted == {"new", "begin", "insert"}
Outside   == Unstarted \cup {"ended"}
Left      == {"deleting", "undeleted", "gone"}

(* What holds of an entry m, which waits for a lane or not (w), whose row  *)
(* says s and whose directory is in state d, with its calls c.             *)
WorkSound(m, w) ==
  /\ m.pc \in Working <=> m.exec = "running"
  /\ m.pc \in Working => m.entry /\ ~w /\ ~m.selecting
  /\ m.pc \in Outside => ~m.entry /\ ~w /\ ~m.selecting /\ m.cleanup = "none"
  /\ w => ~m.selecting
  /\ (w \/ m.selecting) /\ ~m.aborted => m.entry /\ m.cleanup = "none"

SourceSound(m, s, d) ==
  /\ m.source => m.pc = "idle" /\ ~m.entry /\ ~m.aborted
  /\ m.source \/ m.pc = "publish" => s = "READY" \/ d \in Left
  /\ m.source \/ m.pc \in {"ready", "publish"} => d \in Left \cup {"ready"}

CleanSound(m, d) ==
  /\ m.cleanup # "none" => m.pc \in {"idle", "clean"} /\ ~m.lease
  /\ m.pc = "clean" => m.cleanup = "running"
  /\ m.cleanup = "running" => d \in {"deleting", "gone"}
  /\ m.cleanup = "done" => ~m.entry
  /\ m.pc \in {"complete", "ready", "publish", "retract"} => ~m.lease
  /\ m.pc = "idle" /\ ~m.entry => ~m.lease /\ (m.source \/ d \in Left)

CallSound(m, s, d, c) ==
  /\ m.pc \in Unstarted => s = "ABSENT" /\ \A k \in Callers : c[k] = "no"
  /\ m.pc = "insert" => d \in {"pending", "gone"}
  /\ \A k \in Callers : c[k] = "wait" => m.aborted /\ m.pc \notin Outside
  /\ \A k \in Callers : c[k] = "write" => d = "gone"

Sound(m, w, s, d, c) ==
  WorkSound(m, w) /\ SourceSound(m, s, d) /\ CleanSound(m, d) /\ CallSound(m, s, d, c)

Waits(q, i) == \E k \in DOMAIN q : q[k].id = i
Once(q) == \A k, l \in DOMAIN q : q[k].id = q[l].id => k = l

ProjectSound(p) ==
  /\ p.pins > 0 => p.state = "ready"
  /\ p.timer => p.state = "ready"
  /\ p.state = "ready" => p.pins > 0 \/ p.timer

(* Items of work nobody cancelled, and the lanes they may wait for.        *)
Due(f, q) == {k \in DOMAIN q : ~f[q[k].id].aborted}
LanesSound(f, q) ==
  /\ IsFiniteSet(Running(f)) /\ Cardinality(Running(f)) <= Concurrency
  /\ Due(f, q) # {} => Cardinality(Running(f)) = Concurrency

Holding(f) == {i \in Imports : f[i].entry \/ f[i].pc \in Admitting}

ImportInv ==
  /\ TypeOK
  /\ \A i \in Imports : ProjectSound(project[i])
  /\ \A i \in Imports : Sound(imp[i], Waits(queue, i), status[i], project[i].state, call[i])
  /\ Once(queue) /\ LanesSound(imp, queue)
  /\ IsFiniteSet(Holding(imp)) /\ WithinQuota

-----------------------------------------------------------------------------
Statuses == [Imports -> InProgress \cup {"ABSENT", "READY", "FAILED", "CANCELLED", "EXPIRED", "DELETED"}]
Places   == [Projects -> [state : Directory, pins : Nat, timer : BOOLEAN]]
CallRow  == [Callers -> {"no", "wait", "clean", "discard", "write", "done", "failed"}]
Calls    == [Imports -> CallRow]
Rows     == [Imports -> Row]

LEMMA Types ==
  TypeOK <=> /\ project \in Places /\ storage \in {"open", "closed"}
             /\ status \in Statuses /\ imp \in Rows /\ queue \in Seq(Item) /\ call \in Calls
             /\ closed \in BOOLEAN /\ scenario \in Scenarios
             /\ faults \in 0 .. scenario.faults /\ restarts \in 0 .. scenario.restarts
BY DEF TypeOK, StorageTypeOK, Places, Statuses, Rows, Row, Item, Calls, CallRow

(* A set of numbers has a least one.                                       *)
LEMMA LeastExists ==
  ASSUME NEW S \in SUBSET Nat, S # {}
  PROVE  Min(S) \in S /\ \A y \in S : Min(S) <= y
<1> DEFINE Less == {ss \in Nat \X Nat : ss[1] < ss[2]}
<1>1. IsWellFoundedOn(Less, Nat)
  BY NatLessThanWellFounded DEF OpToRel
<1>2. PICK x \in S : \A y \in S : ~ (<<y, x>> \in Less)
  <2> HIDE DEF Less
  <2> QED  BY <1>1, WFMin
<1>3. \A y \in S : x <= y
  <2> TAKE y \in S
  <2>1. <<y, x>> \in Nat \X Nat /\ <<y, x>>[1] = y /\ <<y, x>>[2] = x
    OBVIOUS
  <2>2. ~ (y < x)
    BY <1>2, <2>1
  <2> QED  BY <2>2
<1> QED  BY <1>3 DEF Min

(* What a drain does to a queue that fits the lanes: it takes at most one  *)
(* item, of an import that is idle.                                        *)
Fits(f, q) ==
  /\ IsFiniteSet(Running(f)) /\ Cardinality(Running(f)) <= Concurrency
  /\ Cardinality(Running(f)) >= Concurrency - 1 \/ \A k, l \in Due(f, q) : k = l

Takes(f, q, j, work) ==
  /\ Waits(q, j) /\ ~f[j].aborted
  /\ imp' = [f EXCEPT ![j].exec = "running", ![j].pc = work]
  /\ queue' \in Seq(Item) /\ Once(queue') /\ ~Waits(queue', j)
  /\ \A i \in Imports : Waits(queue', i) => Waits(q, i)
  /\ \A k \in DOMAIN queue' : \E l \in DOMAIN q : queue'[k] = q[l] /\ q[l].id # j
  /\ \E l \in Due(f, q) : q[l].id = j
  /\ Cardinality(Running(f)) < Concurrency

LEMMA DrainTakes ==
  ASSUME NEW f \in Rows, NEW q \in Seq(Item), Once(q), Fits(f, q), Drain(f, q),
         \A i \in Imports : f[i].pc \in Working <=> f[i].exec = "running",
         \A i \in Imports : f[i].pc \in Working => ~Waits(q, i)
  PROVE  \/ /\ imp' = f /\ queue' = q
            /\ Cardinality(Running(f)) = Concurrency
         \/ /\ imp' = f /\ queue' = <<>>
         \/ \E j \in Imports, work \in {"start", "mark"} : Takes(f, q, j, work)
<1> DEFINE due == Due(f, q)
           n == Min(due)
           j == q[n].id
<1>0. DOMAIN q = 1 .. Len(q) /\ Len(q) \in Nat /\ \A k \in DOMAIN q : q[k] \in Item
  OBVIOUS
<1>1. Cardinality(Running(f)) \in Nat /\ Concurrency \in Nat
  BY FS_CardinalityType, ImportsAssumption DEF Fits
<1>2. CASE Cardinality(Running(f)) >= Concurrency
  BY <1>1, <1>2 DEF Drain, Fits
<1>3. CASE Cardinality(Running(f)) < Concurrency /\ due = {}
  BY <1>1, <1>3 DEF Drain, Due
<1>4. CASE Cardinality(Running(f)) < Concurrency /\ due # {}
  <2>1. n \in due /\ due \subseteq DOMAIN q
    <3>1. due \subseteq DOMAIN q /\ due \in SUBSET Nat
      BY <1>0 DEF Due
    <3> QED  BY <1>4, <3>1, LeastExists
  <2>0. ~(Cardinality(Running(f)) >= Concurrency)
    BY <1>1, <1>4
  <2>2. /\ imp' = [f EXCEPT ![j].exec = "running", ![j].pc = q[n].work]
        /\ queue' = SubSeq(q, n + 1, Len(q))
    BY <2>0, <1>4, Zenon DEF Drain, Due
  <2>3. j \in Imports /\ q[n].work \in {"start", "mark"} /\ ~f[j].aborted /\ n \in 1 .. Len(q)
    BY <1>0, <2>1 DEF Due, Item
  <2> HIDE DEF n
  <2>4. /\ queue' \in Seq(Item) /\ DOMAIN queue' = 1 .. Len(q) - n
        /\ \A k \in DOMAIN queue' : queue'[k] = q[k + n] /\ k + n \in DOMAIN q /\ k + n # n
    BY <1>0, <2>2, <2>3
  <2>5. \A k \in DOMAIN queue' : \E l \in DOMAIN q : queue'[k] = q[l] /\ q[l].id # j
    BY <2>3, <2>4, <1>0 DEF Once
  <2>6. Once(queue')
    BY <2>4, <1>0, <2>3 DEF Once
  <2>7. ~Waits(queue', j) /\ \A i \in Imports : Waits(queue', i) => Waits(q, i)
    BY <2>5 DEF Waits
  <2>8. Waits(q, j)
    BY <2>3, <1>0 DEF Waits
  <2>9. Takes(f, q, j, q[n].work)
    BY <2>1, <2>2, <2>3, <2>4, <2>5, <2>6, <2>7, <2>8, <1>4 DEF Takes
  <2> QED  BY <2>3, <2>9
<1> QED  BY <1>1, <1>2, <1>3, <1>4

LEMMA WaitsNoMore ==
  ASSUME NEW m, NEW w, NEW v, NEW s, NEW d, NEW c, Sound(m, w, s, d, c), v => w
  PROVE  Sound(m, v, s, d, c)
BY DEF Sound, WorkSound

LEMMA StartSound ==
  ASSUME NEW m \in Row, NEW work \in {"start", "mark"}, NEW w, NEW s, NEW d, NEW c,
         Sound(m, w, s, d, c), w, ~m.aborted
  PROVE  /\ m.pc = "idle" /\ m.entry
         /\ Sound([m EXCEPT !.exec = "running", !.pc = work], FALSE, s, d, c)
<1> DEFINE x == [m EXCEPT !.exec = "running", !.pc = work]
<1>1. m.pc = "idle" /\ m.entry /\ m.cleanup = "none" /\ ~m.selecting /\ ~m.source
  BY DEF Sound, WorkSound, SourceSound, Row, Outside, Unstarted, Working, Admitting
<1>2. /\ x.pc = work /\ x.exec = "running" /\ x.entry = m.entry /\ x.aborted = m.aborted
      /\ x.selecting = m.selecting /\ x.lease = m.lease /\ x.cleanup = m.cleanup /\ x.source = m.source
  BY DEF Row
<1>3. CallSound(m, s, d, c)
  BY DEF Sound
<1> HIDE DEF x
<1>4. WorkSound(x, FALSE)
  BY <1>1, <1>2 DEF WorkSound, Working, Outside, Unstarted
<1>5. SourceSound(x, s, d) /\ CleanSound(x, d)
  BY <1>1, <1>2 DEF SourceSound, CleanSound
<1>6. CallSound(x, s, d, c)
  BY <1>1, <1>2, <1>3 DEF CallSound, Outside, Unstarted
<1>7. Sound(x, FALSE, s, d, c)
  BY <1>4, <1>5, <1>6 DEF Sound
<1> QED  BY <1>1, <1>7 DEF x

(* A drain keeps what holds of every import: the one it starts was idle    *)
(* and waited.                                                             *)
LEMMA DrainStep ==
  ASSUME NEW f \in Rows, NEW q \in Seq(Item), Once(q), Fits(f, q), Drain(f, q),
         NEW s, NEW d, NEW c,
         \A i \in Imports : Sound(f[i], Waits(q, i), s[i], d[i], c[i])
  PROVE  /\ imp' \in Rows /\ queue' \in Seq(Item) /\ Once(queue') /\ LanesSound(imp', queue')
         /\ Holding(imp') = Holding(f)
         /\ \A i \in Imports : Sound(imp'[i], Waits(queue', i), s[i], d[i], c[i])
<1>1. \A i \in Imports : WorkSound(f[i], Waits(q, i))
  BY DEF Sound
<1>2. \/ /\ imp' = f /\ queue' = q
         /\ Cardinality(Running(f)) = Concurrency
      \/ /\ imp' = f /\ queue' = <<>>
      \/ \E j \in Imports, work \in {"start", "mark"} : Takes(f, q, j, work)
  BY <1>1, DrainTakes DEF WorkSound
<1>3. Cardinality(Running(f)) \in Nat /\ Concurrency \in Nat
  BY FS_CardinalityType, ImportsAssumption DEF Fits
<1>4. CASE imp' = f /\ queue' = q /\ Cardinality(Running(f)) = Concurrency
  BY <1>4, <1>3 DEF Fits, LanesSound
<1>5. CASE imp' = f /\ queue' = <<>>
  <2>1. queue' \in Seq(Item) /\ DOMAIN queue' = {}
    BY <1>5
  <2>2. Once(queue') /\ LanesSound(imp', queue')
    BY <1>5, <2>1 DEF Once, LanesSound, Due, Fits
  <2>3. \A i \in Imports : Sound(imp'[i], Waits(queue', i), s[i], d[i], c[i])
    BY <1>5, <2>1, WaitsNoMore DEF Waits
  <2> QED  BY <1>5, <2>1, <2>2, <2>3
<1>6. CASE \E j \in Imports, work \in {"start", "mark"} : Takes(f, q, j, work)
  <2>1. PICK j \in Imports, work \in {"start", "mark"} : Takes(f, q, j, work)
    BY <1>6
  <2> DEFINE x == [f[j] EXCEPT !.exec = "running", !.pc = work]
  <2>2. f[j] \in Row /\ x \in Row /\ x.exec = "running" /\ x.pc = work
        /\ x.entry = f[j].entry /\ x.aborted = f[j].aborted
    BY DEF Rows, Row, Working
  <2>3. /\ f[j].pc = "idle" /\ f[j].entry
        /\ Sound(x, FALSE, s[j], d[j], c[j])
    BY <2>1, <2>2, StartSound DEF Takes
  <2>4. imp' = [f EXCEPT ![j] = x]
    BY <2>1 DEF Takes, Rows
  <2> HIDE DEF x
  <2>5. imp' \in Rows /\ imp'[j] = x /\ \A i \in Imports \ {j} : imp'[i] = f[i]
    BY <2>2, <2>4 DEF Rows
  <2>6. \A i \in Imports : Sound(imp'[i], Waits(queue', i), s[i], d[i], c[i])
    <3> TAKE i \in Imports
    <3>1. CASE i = j
      <4>1. Waits(queue', i) => FALSE
        BY <3>1, <2>1 DEF Takes
      <4> QED  BY <3>1, <4>1, <2>3, <2>5, WaitsNoMore
    <3>2. CASE i # j
      BY <3>2, <2>1, <2>5, WaitsNoMore DEF Takes
    <3> QED  BY <3>1, <3>2
  <2>7. Holding(imp') = Holding(f)
    BY <2>2, <2>3, <2>5 DEF Holding
  <2>8. /\ IsFiniteSet(Running(imp')) /\ Cardinality(Running(imp')) = Cardinality(Running(f)) + 1
    <3>1. f[j].exec # "running"
      BY <1>1, <2>3 DEF WorkSound, Working
    <3>2. Running(imp') = Running(f) \cup {j} /\ j \notin Running(f)
      BY <2>2, <2>5, <3>1 DEF Running
    <3> QED  BY <3>2, FS_AddElement DEF Fits
  <2>9. ASSUME NEW k \in Due(imp', queue')
        PROVE  Cardinality(Running(imp')) = Concurrency
    <3>1. k \in DOMAIN queue' /\ ~imp'[queue'[k].id].aborted
      BY DEF Due
    <3>2. PICK l \in DOMAIN q : queue'[k] = q[l] /\ q[l].id # j
      BY <2>1, <3>1 DEF Takes
    <3>3. q[l].id \in Imports
      <4>1. \A a \in DOMAIN q : q[a] \in Item
        OBVIOUS
      <4> QED  BY <3>2, <4>1 DEF Item
    <3>4. l \in Due(f, q)
      BY <3>1, <3>2, <3>3, <2>5 DEF Due
    <3>5. PICK n \in Due(f, q) : q[n].id = j
      BY <2>1 DEF Takes
    <3>6. Cardinality(Running(f)) >= Concurrency - 1
      BY <3>2, <3>4, <3>5 DEF Fits
    <3> QED  BY <1>3, <2>1, <2>8, <3>6 DEF Takes
  <2>10. LanesSound(imp', queue')
    <3>1. Cardinality(Running(imp')) <= Concurrency
      BY <1>3, <2>1, <2>8 DEF Takes
    <3>2. Due(imp', queue') # {} => Cardinality(Running(imp')) = Concurrency
      BY <2>9
    <3> QED  BY <3>1, <3>2, <2>8 DEF LanesSound
  <2> QED  BY <2>1, <2>5, <2>6, <2>7, <2>10 DEF Takes
<1> QED  BY <1>2, <1>4, <1>5, <1>6

-----------------------------------------------------------------------------
(* The queue with or without one more item of import i.                    *)
Grown(q, i) ==
  \/ q = queue
  \/ ~Waits(queue, i) /\ \E work \in {"start", "mark"} : q = Append(queue, [id |-> i, work |-> work])

LEMMA GrownQueue ==
  ASSUME queue \in Seq(Item), Once(queue), NEW i \in Imports, NEW q, Grown(q, i)
  PROVE  /\ q \in Seq(Item) /\ Once(q)
         /\ \A j \in Imports \ {i} : Waits(q, j) <=> Waits(queue, j)
         /\ \A k \in DOMAIN q : (k \in DOMAIN queue /\ q[k] = queue[k]) \/ (q # queue /\ k = Len(q))
         /\ q = queue \/ Waits(q, i)
<1>1. CASE q = queue
  BY <1>1
<1>2. CASE ~Waits(queue, i) /\ \E work \in {"start", "mark"} : q = Append(queue, [id |-> i, work |-> work])
  <2>1. PICK item \in Item : q = Append(queue, item) /\ item.id = i
    BY <1>2 DEF Item
  <2>2. /\ q \in Seq(Item) /\ Len(queue) \in Nat /\ Len(q) = Len(queue) + 1
        /\ DOMAIN q = 1 .. Len(queue) + 1 /\ DOMAIN queue = 1 .. Len(queue)
        /\ q[Len(queue) + 1] = item /\ \A k \in 1 .. Len(queue) : q[k] = queue[k]
    BY <2>1
  <2>3. \A k \in DOMAIN queue : queue[k].id # i
    BY <1>2 DEF Waits
  <2>4. Once(q)
    BY <2>1, <2>2, <2>3 DEF Once
  <2>5. \A j \in Imports \ {i} : Waits(q, j) <=> Waits(queue, j)
    BY <2>1, <2>2 DEF Waits
  <2>6. Waits(q, i)
    BY <2>1, <2>2 DEF Waits
  <2> QED  BY <2>2, <2>4, <2>5, <2>6
<1> QED  BY <1>1, <1>2 DEF Grown

(* Whom create admits finds room for one more.                             *)
LEMMA AdmitsBelow ==
  ASSUME ImportInv, Admits
  PROVE  Cardinality(Holding(imp)) + 1 <= scenario.maximum
<1> DEFINE adm == {j \in Imports : imp[j].pc \in Admitting}
<1>1. Holding(imp) = Live \cup adm /\ IsFiniteSet(Holding(imp))
  BY DEF Holding, Live, ImportInv
<1>2. IsFiniteSet(Live) /\ IsFiniteSet(adm)
  BY <1>1, FS_Subset
<1>3. /\ Cardinality(Holding(imp)) = Cardinality(Live) + Cardinality(adm) - Cardinality(Live \cap adm)
      /\ Cardinality(Live) + Cardinality(adm) < scenario.maximum
  BY <1>1, <1>2, FS_Union DEF Admits
<1>4. /\ Cardinality(Live) \in Nat /\ Cardinality(adm) \in Nat /\ Cardinality(Live \cap adm) \in Nat
      /\ scenario.maximum \in Nat
  <2>1. IsFiniteSet(Live \cap adm)
    BY <1>2, FS_Subset
  <2>2. scenario \in Scenarios
    BY DEF ImportInv, TypeOK
  <2> QED  BY <1>2, <2>1, <2>2, FS_CardinalityType, ImportsAssumption
<1> HIDE DEF adm
<1> QED  BY <1>3, <1>4

(* An action of one import i, whose entry becomes x and which may queue    *)
(* work and drain, keeps the invariant when it keeps what holds of i.      *)
LEMMA EntryStep ==
  ASSUME ImportInv, scenario' = scenario, faults' \in 0 .. scenario.faults, restarts' = restarts,
         storage' \in {"open", "closed"}, closed' \in BOOLEAN,
         status' \in Statuses, project' \in Places, call' \in Calls,
         NEW i \in Imports, NEW x \in Row, NEW q, Grown(q, i),
         \A j \in Imports \ {i} : status'[j] = status[j] /\ project'[j] = project[j] /\ call'[j] = call[j],
         ProjectSound(project'[i]),
         Sound(x, Waits(q, i), status'[i], project'[i].state, call'[i]),
         imp[i].aborted => x.aborted,
         \/ x.entry \/ x.pc \in Admitting => imp[i].entry \/ imp[i].pc \in Admitting
         \/ Admits,
         x.exec = "running" => imp[i].exec = "running",
         \/ /\ imp' = [imp EXCEPT ![i] = x] /\ queue' = queue /\ q = queue
            /\ imp[i].exec = "running" => x.exec = "running"
         \/ Drain([imp EXCEPT ![i] = x], q)
  PROVE  ImportInv'
<1> DEFINE f == [imp EXCEPT ![i] = x]
<1>1. /\ imp \in Rows /\ queue \in Seq(Item) /\ scenario \in Scenarios
      /\ restarts \in 0 .. scenario.restarts
  BY Types DEF ImportInv
<1>2. f \in Rows /\ f[i] = x /\ \A j \in Imports \ {i} : f[j] = imp[j]
  BY <1>1 DEF Rows
<1> HIDE DEF f
<1>3. /\ q \in Seq(Item) /\ Once(q)
      /\ \A j \in Imports \ {i} : Waits(q, j) <=> Waits(queue, j)
      /\ \A k \in DOMAIN q : (k \in DOMAIN queue /\ q[k] = queue[k]) \/ (q # queue /\ k = Len(q))
  BY <1>1, GrownQueue DEF ImportInv
<1>4. \A j \in Imports : Sound(f[j], Waits(q, j), status'[j], project'[j].state, call'[j])
  <2> TAKE j \in Imports
  <2>1. CASE j = i
    BY <1>2, <2>1
  <2>2. CASE j # i
    <3>1. Sound(imp[j], Waits(queue, j), status[j], project[j].state, call[j])
      BY DEF ImportInv
    <3>2. Waits(q, j) => Waits(queue, j)
      BY <1>3, <2>2
    <3>3. Sound(imp[j], Waits(q, j), status[j], project[j].state, call[j])
      BY <3>1, <3>2, WaitsNoMore
    <3> QED  BY <3>3, <1>2, <2>2
  <2> QED  BY <2>1, <2>2
<1>5. /\ Running(f) \subseteq Running(imp) /\ Running(imp) \subseteq Running(f) \cup {i}
      /\ Holding(f) \subseteq Holding(imp) \/ (Admits /\ Holding(f) \subseteq Holding(imp) \cup {i})
  BY <1>2 DEF Running, Holding
<1>6. /\ IsFiniteSet(Running(imp)) /\ Cardinality(Running(imp)) \in Nat
      /\ Cardinality(Running(imp)) <= Concurrency /\ Concurrency \in Nat
  BY FS_CardinalityType, ImportsAssumption DEF ImportInv, LanesSound
<1>7. /\ IsFiniteSet(Running(f)) /\ Cardinality(Running(f)) \in Nat
      /\ Cardinality(Running(f)) <= Cardinality(Running(imp))
      /\ Cardinality(Running(imp)) <= Cardinality(Running(f)) + 1
  <2>1. IsFiniteSet(Running(f)) /\ Cardinality(Running(f)) <= Cardinality(Running(imp))
    BY <1>5, <1>6, FS_Subset
  <2>2. /\ IsFiniteSet(Running(f) \cup {i})
        /\ Cardinality(Running(f) \cup {i}) \in {Cardinality(Running(f)), Cardinality(Running(f)) + 1}
    BY <2>1, FS_AddElement
  <2>3. Cardinality(Running(imp)) <= Cardinality(Running(f) \cup {i})
    BY <1>5, <2>2, FS_Subset
  <2>4. Cardinality(Running(f)) \in Nat
    BY <2>1, FS_CardinalityType
  <2> QED  BY <2>1, <2>2, <2>3, <2>4, <1>6
<1>8. \A k \in Due(f, q) : k \in Due(imp, queue) \/ (q # queue /\ k = Len(q))
  <2> TAKE k \in Due(f, q)
  <2>1. k \in DOMAIN q /\ ~f[q[k].id].aborted /\ q[k].id \in Imports
    <3>1. \A a \in DOMAIN q : q[a] \in Item
      BY <1>3
    <3> QED  BY <3>1 DEF Due, Item
  <2>2. ~imp[q[k].id].aborted
    BY <1>2, <2>1
  <2> QED  BY <1>3, <2>1, <2>2 DEF Due
<1>9. Due(imp, queue) # {} => Cardinality(Running(imp)) = Concurrency
  BY DEF ImportInv, LanesSound
<1>10. /\ imp' \in Rows /\ queue' \in Seq(Item) /\ Once(queue') /\ LanesSound(imp', queue')
       /\ Holding(imp') = Holding(f)
       /\ \A j \in Imports : Sound(imp'[j], Waits(queue', j), status'[j], project'[j].state, call'[j])
  <2>1. CASE imp' = f /\ queue' = queue /\ q = queue /\ (imp[i].exec = "running" => x.exec = "running")
    <3>1. Running(f) = Running(imp)
      BY <1>2, <1>5, <2>1 DEF Running
    <3>2. LanesSound(f, q)
      BY <1>6, <1>8, <1>9, <2>1, <3>1 DEF LanesSound
    <3> QED  BY <1>2, <1>3, <1>4, <2>1, <3>2
  <2>2. CASE Drain(f, q)
    <3>1. Fits(f, q)
      <4>1. CASE Due(imp, queue) # {}
        BY <1>6, <1>7, <1>9, <4>1 DEF Fits
      <4>2. CASE Due(imp, queue) = {}
        BY <1>6, <1>7, <1>8, <4>2 DEF Fits
      <4> QED  BY <4>1, <4>2
    <3> DEFINE s == status'
               d == [j \in Imports |-> project'[j].state]
               c == call'
    <3>2. \A j \in Imports : d[j] = project'[j].state
      OBVIOUS
    <3> HIDE DEF s, d, c
    <3>3. \A j \in Imports : Sound(f[j], Waits(q, j), s[j], d[j], c[j])
      BY <1>4, <3>2 DEF s, c
    <3>4. /\ imp' \in Rows /\ queue' \in Seq(Item) /\ Once(queue') /\ LanesSound(imp', queue')
          /\ Holding(imp') = Holding(f)
          /\ \A j \in Imports : Sound(imp'[j], Waits(queue', j), s[j], d[j], c[j])
      BY <1>2, <1>3, <2>2, <3>1, <3>3, DrainStep
    <3> QED  BY <3>2, <3>4 DEF s, c
  <2> QED  BY <2>1, <2>2 DEF f
<1>11. IsFiniteSet(Holding(imp')) /\ Cardinality(Holding(imp')) <= scenario.maximum
  <2>1. IsFiniteSet(Holding(imp)) /\ Cardinality(Holding(imp)) <= scenario.maximum
    BY DEF ImportInv, WithinQuota, Holding
  <2>2. scenario.maximum \in Nat /\ Cardinality(Holding(imp)) \in Nat
    BY <1>1, <2>1, FS_CardinalityType, ImportsAssumption
  <2>3. CASE Holding(f) \subseteq Holding(imp)
    <3>1. IsFiniteSet(Holding(f)) /\ Cardinality(Holding(f)) <= Cardinality(Holding(imp))
      BY <2>1, <2>3, FS_Subset
    <3> QED  BY <1>10, <2>1, <2>2, <3>1, FS_CardinalityType
  <2>4. CASE Admits /\ Holding(f) \subseteq Holding(imp) \cup {i}
    <3>1. /\ IsFiniteSet(Holding(imp) \cup {i})
          /\ Cardinality(Holding(imp) \cup {i}) <= scenario.maximum
      BY <2>1, <2>2, <2>4, AdmitsBelow, FS_AddElement DEF ImportInv
    <3>2. IsFiniteSet(Holding(f)) /\ Cardinality(Holding(f)) <= Cardinality(Holding(imp) \cup {i})
      BY <2>4, <3>1, FS_Subset
    <3> QED  BY <1>10, <2>2, <3>1, <3>2, FS_CardinalityType
  <2> QED  BY <1>5, <2>3, <2>4
<1>12. TypeOK'
  BY <1>1, <1>10 DEF TypeOK, StorageTypeOK, Places, Statuses, Rows, Row, Item, Calls, CallRow
<1>13. \A j \in Imports : ProjectSound(project'[j])
  BY DEF ImportInv
<1>14. WithinQuota'
  BY <1>11 DEF WithinQuota, Holding
<1> QED  BY <1>10, <1>11, <1>12, <1>13, <1>14 DEF ImportInv, Holding

-----------------------------------------------------------------------------
(* What an action of import i may touch.                                   *)
OnlyOf(i) ==
  /\ status' \in Statuses /\ project' \in Places /\ call' \in Calls
  /\ \A j \in Imports \ {i} : status'[j] = status[j] /\ project'[j] = project[j] /\ call'[j] = call[j]
  /\ storage' \in {"open", "closed"} /\ closed' \in BOOLEAN
  /\ scenario' = scenario /\ restarts' = restarts /\ faults' \in 0 .. scenario.faults

LEMMA InvAt ==
  ASSUME ImportInv, NEW i \in Imports
  PROVE  /\ imp \in Rows /\ imp[i] \in Row /\ queue \in Seq(Item)
         /\ status \in Statuses /\ project \in Places /\ call \in Calls /\ call[i] \in CallRow
         /\ storage \in {"open", "closed"} /\ closed \in BOOLEAN /\ scenario \in Scenarios
         /\ project[i] \in [state : Directory, pins : Nat, timer : BOOLEAN]
         /\ ProjectSound(project[i])
         /\ Sound(imp[i], Waits(queue, i), status[i], project[i].state, call[i])
BY Types DEF ImportInv, Rows, Places, Calls, Imports

LEMMA Bounded ==
  ASSUME ImportInv, UNCHANGED bounds \/ Fault
  PROVE  restarts' = restarts /\ faults' \in 0 .. scenario.faults
<1>1. scenario \in Scenarios /\ faults \in 0 .. scenario.faults
  BY DEF ImportInv, TypeOK
<1>2. scenario.faults \in Nat
  BY <1>1, ImportsAssumption
<1> QED  BY <1>1, <1>2 DEF bounds, Fault

(* A step of the work, and its end.                                        *)
SameBesides(x, m) ==
  /\ x.entry = m.entry /\ x.aborted = m.aborted /\ x.cleanup = m.cleanup /\ x.source = m.source

LEMMA MoveSound ==
  ASSUME NEW m \in Row, NEW x \in Row, NEW w, NEW s, NEW d, NEW c, NEW s2, NEW d2,
         Sound(m, w, s, d, c), m.pc \in Working \ {"clean"}, x.pc \in Working \ {"clean"},
         SameBesides(x, m), x.exec = m.exec, x.selecting = m.selecting,
         x.pc \in {"complete", "ready", "publish", "retract"} => ~x.lease,
         x.pc = "publish" => s2 = "READY" \/ d2 \in Left,
         x.pc \in {"ready", "publish"} => d2 \in Left \cup {"ready"},
         d2 = d \/ d # "gone"
  PROVE  Sound(x, w, s2, d2, c)
<1>1. /\ m.entry /\ ~w /\ ~m.selecting /\ m.exec = "running" /\ m.cleanup = "none" /\ ~m.source
  BY DEF Sound, WorkSound, SourceSound, CleanSound, Working, Row
<1>2. x.pc \notin Outside /\ m.pc \notin Outside /\ x.pc \notin Unstarted
  BY DEF Outside, Unstarted, Working
<1>3. WorkSound(x, w)
  BY <1>1, <1>2 DEF WorkSound, SameBesides
<1>4. SourceSound(x, s2, d2) /\ CleanSound(x, d2)
  BY <1>1 DEF SourceSound, CleanSound, SameBesides, Working
<1>5. CallSound(x, s2, d2, c)
  <2>1. CallSound(m, s, d, c)
    BY DEF Sound
  <2> QED  BY <1>1, <1>2, <2>1 DEF CallSound, SameBesides, Unstarted
<1> QED  BY <1>3, <1>4, <1>5 DEF Sound

LEMMA SettleSound ==
  ASSUME NEW m \in Row, NEW x \in Row, NEW w, NEW s, NEW d, NEW c, NEW s2, NEW d2,
         Sound(m, w, s, d, c), m.pc \in Working \ {"clean"}, x.pc = "idle",
         SameBesides(x, m), x.exec \in {"resolved", "rejected"},
         d2 = d \/ d # "gone"
  PROVE  Sound(x, w, s2, d2, c)
<1>1. /\ m.entry /\ ~w /\ ~m.selecting /\ m.exec = "running" /\ m.cleanup = "none" /\ ~m.source
  BY DEF Sound, WorkSound, SourceSound, CleanSound, Working, Row
<1>2. x.pc \notin Outside /\ m.pc \notin Outside /\ x.pc \notin Unstarted /\ x.pc \notin Working
  BY DEF Outside, Unstarted, Working, Admitting
<1>3. WorkSound(x, w)
  BY <1>1, <1>2 DEF WorkSound, SameBesides
<1>4. SourceSound(x, s2, d2) /\ CleanSound(x, d2)
  BY <1>1 DEF SourceSound, CleanSound, SameBesides
<1>5. CallSound(x, s2, d2, c)
  <2>1. CallSound(m, s, d, c)
    BY DEF Sound
  <2> QED  BY <1>1, <1>2, <2>1 DEF CallSound, SameBesides, Unstarted
<1> QED  BY <1>3, <1>4, <1>5 DEF Sound

(* The steps of the work the actions are made of: on, to the end, and      *)
(* whatever throws.                                                        *)
LEMMA MoveStep ==
  ASSUME ImportInv, NEW i \in Imports, OnlyOf(i), call' = call, ProjectSound(project'[i]),
         imp[i].pc \in Working \ {"clean"}, NEW x \in Row, x.pc \in Working \ {"clean"},
         SameBesides(x, imp[i]), x.exec = imp[i].exec, x.selecting = imp[i].selecting,
         x.pc \in {"complete", "ready", "publish", "retract"} => ~x.lease,
         x.pc = "publish" => status'[i] = "READY" \/ project'[i].state \in Left,
         x.pc \in {"ready", "publish"} => project'[i].state \in Left \cup {"ready"},
         project'[i].state = project[i].state \/ project[i].state # "gone",
         imp' = [imp EXCEPT ![i] = x], queue' = queue
  PROVE  ImportInv'
<1>1. Sound(x, Waits(queue, i), status'[i], project'[i].state, call'[i])
  BY InvAt, MoveSound
<1>2. /\ imp[i].aborted => x.aborted
      /\ x.entry \/ x.pc \in Admitting => imp[i].entry
      /\ Grown(queue, i)
  BY DEF SameBesides, Working, Admitting, Grown
<1> QED  BY <1>1, <1>2, EntryStep DEF OnlyOf

LEMMA EndStep ==
  ASSUME ImportInv, NEW i \in Imports, OnlyOf(i), call' = call, ProjectSound(project'[i]),
         imp[i].pc \in Working \ {"clean"}, NEW x \in Row, x.pc = "idle",
         SameBesides(x, imp[i]), x.exec \in {"resolved", "rejected"},
         project'[i].state = project[i].state \/ project[i].state # "gone",
         Drain([imp EXCEPT ![i] = x], queue)
  PROVE  ImportInv'
<1>1. Sound(x, Waits(queue, i), status'[i], project'[i].state, call'[i])
  BY InvAt, SettleSound
<1>2. /\ imp[i].aborted => x.aborted
      /\ x.entry \/ x.pc \in Admitting => imp[i].entry
      /\ Grown(queue, i) /\ x.exec # "running"
  BY DEF SameBesides, Working, Admitting, Grown
<1> QED  BY <1>1, <1>2, EntryStep DEF OnlyOf

LEMMA GotoStep ==
  ASSUME ImportInv, NEW i \in Imports, OnlyOf(i), call' = call, ProjectSound(project'[i]),
         imp[i].pc \in Working \ {"clean"}, NEW pc \in Working \ {"clean"}, Goto(i, pc),
         pc \in {"complete", "ready", "publish", "retract"} => ~imp[i].lease,
         pc = "publish" => status'[i] = "READY" \/ project'[i].state \in Left,
         pc \in {"ready", "publish"} => project'[i].state \in Left \cup {"ready"},
         project'[i].state = project[i].state \/ project[i].state # "gone"
  PROVE  ImportInv'
<1> DEFINE x == [imp[i] EXCEPT !.pc = pc]
<1>1. imp \in Rows /\ imp[i] \in Row
  BY InvAt
<1>2. /\ x \in Row /\ x.pc = pc /\ SameBesides(x, imp[i]) /\ x.exec = imp[i].exec
      /\ x.selecting = imp[i].selecting /\ x.lease = imp[i].lease
  BY <1>1 DEF Row, SameBesides
<1>3. imp' = [imp EXCEPT ![i] = x] /\ queue' = queue
  BY <1>1 DEF Goto, Rows
<1> HIDE DEF x
<1> QED  BY <1>2, <1>3, MoveStep

LEMMA SettleStep ==
  ASSUME ImportInv, NEW i \in Imports, OnlyOf(i), call' = call, ProjectSound(project'[i]),
         imp[i].pc \in Working \ {"clean"}, NEW outcome \in {"resolved", "rejected"}, Settle(i, outcome),
         project'[i].state = project[i].state \/ project[i].state # "gone"
  PROVE  ImportInv'
<1> DEFINE x == [imp[i] EXCEPT !.exec = outcome, !.pc = "idle"]
<1>1. imp \in Rows /\ imp[i] \in Row
  BY InvAt
<1>2. x \in Row /\ x.pc = "idle" /\ SameBesides(x, imp[i]) /\ x.exec = outcome
  BY <1>1 DEF Row, SameBesides
<1>3. [imp EXCEPT ![i].exec = outcome, ![i].pc = "idle"] = [imp EXCEPT ![i] = x]
  BY <1>1 DEF Rows
<1>4. Drain([imp EXCEPT ![i] = x], queue)
  BY <1>3 DEF Settle
<1> HIDE DEF x
<1> QED  BY <1>2, <1>4, EndStep

LEMMA ThrowStep ==
  ASSUME ImportInv, NEW i \in Imports, OnlyOf(i), call' = call, ProjectSound(project'[i]),
         imp[i].pc \in Working \ {"clean"}, Throw(i),
         project'[i].state = project[i].state \/ project[i].state # "gone"
  PROVE  ImportInv'
<1>1. CASE imp[i].aborted
  BY <1>1, SettleStep DEF Throw
<1>2. CASE ~imp[i].aborted
  BY <1>2, GotoStep DEF Throw, Working
<1> QED  BY <1>1, <1>2

LEMMA TransitionFailsStep ==
  ASSUME ImportInv, NEW i \in Imports, scenario' = scenario,
         imp[i].pc \in Working \ {"clean"}, NEW from, TransitionFails(i, from)
  PROVE  ImportInv'
<1>1. UNCHANGED bounds \/ Fault
  BY DEF TransitionFails
<1>2. OnlyOf(i) /\ call' = call /\ project' = project /\ Throw(i)
  BY <1>1, Bounded, InvAt DEF OnlyOf, TransitionFails, storageVars
<1> QED  BY <1>2, InvAt, ThrowStep

LEMMA TransitionStep ==
  ASSUME ImportInv, NEW i \in Imports, scenario' = scenario, NEW from, NEW to,
         Transition(i, from, to), to \in InProgress \cup {"READY", "FAILED", "CANCELLED"},
         UNCHANGED <<storageVars, call, closed, bounds>>
  PROVE  /\ OnlyOf(i) /\ call' = call /\ project' = project
         /\ status[i] \in from /\ status'[i] = to /\ ProjectSound(project'[i])
<1>1. status \in Statuses /\ status' = [status EXCEPT ![i] = to] /\ status[i] \in from
  BY InvAt DEF Transition
<1>2. status' \in Statuses /\ status'[i] = to /\ \A j \in Imports \ {i} : status'[j] = status[j]
  BY <1>1 DEF Statuses
<1> QED  BY <1>1, <1>2, Bounded, InvAt DEF OnlyOf, storageVars

-----------------------------------------------------------------------------
(* The work of an import.                                                  *)
LEMMA StartKeeps ==
  ASSUME ImportInv, NEW i \in Imports, scenario' = scenario, Start(i)
  PROVE  ImportInv'
<1>1. imp[i].pc \in Working \ {"clean"}
  BY DEF Start, Awaited, Working
<1>2. CASE /\ Transition(i, {"QUEUED"}, "FETCHING") /\ Goto(i, "fetch")
           /\ UNCHANGED <<storageVars, call, closed, bounds>>
  <2>1. OnlyOf(i) /\ call' = call /\ project' = project /\ ProjectSound(project'[i])
    BY <1>2, TransitionStep DEF InProgress
  <2> QED  BY <1>1, <1>2, <2>1, GotoStep DEF Working
<1>3. CASE TransitionFails(i, {"QUEUED"})
  BY <1>1, <1>3, TransitionFailsStep
<1> QED  BY <1>2, <1>3 DEF Start

LEMMA FetchKeeps ==
  ASSUME ImportInv, NEW i \in Imports, scenario' = scenario, Fetch(i)
  PROVE  ImportInv'
<1>1. imp[i].pc \in Working \ {"clean"} /\ imp \in Rows /\ imp[i] \in Row
  BY InvAt DEF Fetch, Awaited, Working
<1>2. OnlyOf(i) /\ call' = call /\ project' = project /\ ProjectSound(project'[i])
  BY Bounded, InvAt DEF OnlyOf, Fetch, storageVars
<1>3. CASE ~imp[i].aborted /\ \E found \in {"mark", "select"} :
             imp' = [imp EXCEPT ![i].pc = found, ![i].lease = TRUE] /\ queue' = queue
  <2>1. PICK found \in {"mark", "select"} : imp' = [imp EXCEPT ![i].pc = found, ![i].lease = TRUE]
    BY <1>3
  <2> DEFINE x == [imp[i] EXCEPT !.pc = found, !.lease = TRUE]
  <2>2. /\ x \in Row /\ x.pc = found /\ SameBesides(x, imp[i]) /\ x.exec = imp[i].exec
        /\ x.selecting = imp[i].selecting
    BY <1>1 DEF Row, SameBesides, Working
  <2>3. imp' = [imp EXCEPT ![i] = x]
    BY <1>1, <2>1 DEF Rows
  <2>4. found \in Working \ {"clean"}
    BY DEF Working
  <2> HIDE DEF x
  <2> QED  BY <1>1, <1>2, <1>3, <2>2, <2>3, <2>4, MoveStep
<1>4. ASSUME imp[i].aborted, NEW leased \in BOOLEAN,
             Drain([imp EXCEPT ![i].exec = "resolved", ![i].pc = "idle", ![i].lease = leased], queue)
      PROVE  ImportInv'
  <2> DEFINE x == [imp[i] EXCEPT !.exec = "resolved", !.pc = "idle", !.lease = leased]
  <2>1. /\ x \in Row /\ x.pc = "idle" /\ SameBesides(x, imp[i]) /\ x.exec = "resolved"
    BY <1>1 DEF Row, SameBesides
  <2>2. [imp EXCEPT ![i].exec = "resolved", ![i].pc = "idle", ![i].lease = leased] = [imp EXCEPT ![i] = x]
    BY <1>1 DEF Rows
  <2>3. Drain([imp EXCEPT ![i] = x], queue)
    BY <1>4, <2>2
  <2> HIDE DEF x
  <2> QED  BY <1>1, <1>2, <2>1, <2>3, EndStep
<1>5. ASSUME NEW leased \in BOOLEAN, queue' = queue,
             imp' = [imp EXCEPT ![i].pc = "fail", ![i].lease = leased]
      PROVE  ImportInv'
  <2> DEFINE x == [imp[i] EXCEPT !.pc = "fail", !.lease = leased]
  <2>1. /\ x \in Row /\ x.pc = "fail" /\ SameBesides(x, imp[i]) /\ x.exec = imp[i].exec
        /\ x.selecting = imp[i].selecting /\ x.pc \in Working \ {"clean"}
    BY <1>1 DEF Row, SameBesides, Working
  <2>2. imp' = [imp EXCEPT ![i] = x]
    BY <1>1, <1>5 DEF Rows
  <2> HIDE DEF x
  <2> QED  BY <1>1, <1>2, <1>5, <2>1, <2>2, MoveStep
<1> QED  BY <1>3, <1>4, <1>5 DEF Fetch

LEMMA AskUserKeeps ==
  ASSUME ImportInv, NEW i \in Imports, scenario' = scenario, AskUser(i)
  PROVE  ImportInv'
<1>1. imp[i].pc \in Working \ {"clean"} /\ imp \in Rows /\ imp[i] \in Row
  BY InvAt DEF AskUser, Awaited, Working
<1>2. CASE /\ Transition(i, {"FETCHING"}, "SELECTING")
           /\ Drain([imp EXCEPT ![i].exec = "resolved", ![i].pc = "idle", ![i].selecting = TRUE], queue)
           /\ UNCHANGED <<storageVars, call, closed, bounds>>
  <2> DEFINE x == [imp[i] EXCEPT !.exec = "resolved", !.pc = "idle", !.selecting = TRUE]
  <2>1. OnlyOf(i) /\ call' = call /\ project' = project /\ ProjectSound(project'[i])
    BY <1>2, TransitionStep DEF InProgress
  <2>2. /\ x \in Row /\ x.pc = "idle" /\ SameBesides(x, imp[i]) /\ x.exec = "resolved"
    BY <1>1 DEF Row, SameBesides
  <2>3. [imp EXCEPT ![i].exec = "resolved", ![i].pc = "idle", ![i].selecting = TRUE] = [imp EXCEPT ![i] = x]
    BY <1>1 DEF Rows
  <2>4. Drain([imp EXCEPT ![i] = x], queue)
    BY <1>2, <2>3
  <2> HIDE DEF x
  <2> QED  BY <1>1, <2>1, <2>2, <2>4, EndStep
<1>3. CASE TransitionFails(i, {"FETCHING"})
  BY <1>1, <1>3, TransitionFailsStep
<1> QED  BY <1>2, <1>3 DEF AskUser

LEMMA MarkKeeps ==
  ASSUME ImportInv, NEW i \in Imports, scenario' = scenario, Mark(i)
  PROVE  ImportInv'
<1>1. imp[i].pc \in Working \ {"clean"}
  BY DEF Mark, Awaited, Working
<1>2. CASE /\ Transition(i, {"FETCHING", "SELECTING"}, "MATERIALIZING") /\ Goto(i, "copy")
           /\ UNCHANGED <<storageVars, call, closed, bounds>>
  <2>1. OnlyOf(i) /\ call' = call /\ project' = project /\ ProjectSound(project'[i])
    BY <1>2, TransitionStep DEF InProgress
  <2> QED  BY <1>1, <1>2, <2>1, GotoStep DEF Working
<1>3. CASE TransitionFails(i, {"FETCHING", "SELECTING"})
  BY <1>1, <1>3, TransitionFailsStep
<1> QED  BY <1>2, <1>3 DEF Mark

LEMMA CopyKeeps ==
  ASSUME ImportInv, NEW i \in Imports, scenario' = scenario, Copy(i)
  PROVE  ImportInv'
<1>1. imp[i].pc \in Working \ {"clean"} /\ imp \in Rows /\ imp[i] \in Row
  BY InvAt DEF Copy, Awaited, Working
<1>2. OnlyOf(i) /\ call' = call /\ project' = project /\ ProjectSound(project'[i])
  BY Bounded, InvAt DEF OnlyOf, Copy, storageVars
<1>3. CASE imp' = [imp EXCEPT ![i].pc = "complete", ![i].lease = FALSE] /\ queue' = queue
  <2> DEFINE x == [imp[i] EXCEPT !.pc = "complete", !.lease = FALSE]
  <2>1. /\ x \in Row /\ x.pc = "complete" /\ SameBesides(x, imp[i]) /\ x.exec = imp[i].exec
        /\ x.selecting = imp[i].selecting /\ x.pc \in Working \ {"clean"} /\ ~x.lease
    BY <1>1 DEF Row, SameBesides, Working
  <2>2. imp' = [imp EXCEPT ![i] = x]
    BY <1>1, <1>3 DEF Rows
  <2> HIDE DEF x
  <2> QED  BY <1>1, <1>2, <1>3, <2>1, <2>2, MoveStep
<1>4. CASE Throw(i)
  BY <1>1, <1>2, <1>4, ThrowStep
<1> QED  BY <1>3, <1>4 DEF Copy

LEMMA CompleteKeeps ==
  ASSUME ImportInv, NEW i \in Imports, scenario' = scenario, Complete(i)
  PROVE  ImportInv'
<1>1. imp[i].pc \in Working \ {"clean"} /\ ~imp[i].lease
  BY InvAt DEF Complete, Awaited, Working, Sound, CleanSound
<1>2. CASE CompleteProject(i) /\ IF imp[i].aborted THEN Throw(i) ELSE Goto(i, "ready")
  <2>1. /\ project' \in Places /\ project'[i].state = "ready" /\ project'[i].timer
        /\ \A j \in Imports \ {i} : project'[j] = project[j]
        /\ project[i].state = "pending"
    BY <1>2, InvAt DEF CompleteProject, Pending, Places, Directory, Imports
  <2>2. OnlyOf(i) /\ call' = call /\ ProjectSound(project'[i])
    BY <2>1, Bounded, InvAt DEF OnlyOf, Complete, ProjectSound
  <2>3. CASE imp[i].aborted
    BY <1>1, <1>2, <2>1, <2>2, <2>3, ThrowStep
  <2>4. CASE ~imp[i].aborted
    BY <1>1, <1>2, <2>1, <2>2, <2>4, GotoStep DEF Working
  <2> QED  BY <2>3, <2>4
<1>3. CASE Throw(i) /\ UNCHANGED project
  <2>1. OnlyOf(i) /\ call' = call /\ ProjectSound(project'[i])
    BY <1>3, Bounded, InvAt DEF OnlyOf, Complete
  <2> QED  BY <1>1, <1>3, <2>1, ThrowStep
<1> QED  BY <1>2, <1>3 DEF Complete

LEMMA ReadyKeeps ==
  ASSUME ImportInv, NEW i \in Imports, scenario' = scenario, Ready(i)
  PROVE  ImportInv'
<1>1. imp[i].pc \in Working \ {"clean"} /\ ~imp[i].lease /\ project[i].state \in Left \cup {"ready"}
  BY InvAt DEF Ready, Awaited, Working, Sound, CleanSound, SourceSound
<1>2. CASE /\ Transition(i, {"MATERIALIZING"}, "READY") /\ Goto(i, "publish")
           /\ UNCHANGED <<storageVars, call, closed, bounds>>
  <2>1. OnlyOf(i) /\ call' = call /\ project' = project /\ ProjectSound(project'[i]) /\ status'[i] = "READY"
    BY <1>2, TransitionStep
  <2> QED  BY <1>1, <1>2, <2>1, GotoStep DEF Working
<1>3. CASE TransitionFails(i, {"MATERIALIZING"})
  BY <1>1, <1>3, TransitionFailsStep
<1> QED  BY <1>2, <1>3 DEF Ready

LEMMA PublishKeeps ==
  ASSUME ImportInv, NEW i \in Imports, scenario' = scenario, Publish(i)
  PROVE  ImportInv'
<1>1. /\ imp[i].pc = "publish" /\ imp[i].pc \in Working \ {"clean"} /\ imp \in Rows /\ imp[i] \in Row
      /\ Sound(imp[i], Waits(queue, i), status[i], project[i].state, call[i])
  BY InvAt DEF Publish, Awaited, Working
<1>2. OnlyOf(i) /\ UNCHANGED <<call, project, status>> /\ ProjectSound(project'[i])
  BY Bounded, InvAt DEF OnlyOf, Publish, storageVars
<1>3. ~imp[i].lease /\ imp[i].cleanup = "none" /\ ~imp[i].selecting /\ ~Waits(queue, i)
  BY <1>1 DEF Sound, WorkSound, CleanSound, Row, Working
<1>4. CASE imp[i].aborted
  <2>1. Goto(i, "retract")
    BY <1>4 DEF Publish
  <2> QED  BY <1>1, <1>2, <1>3, <2>1, GotoStep DEF Working
<1>5. CASE ~imp[i].aborted
  <2> DEFINE x == [imp[i] EXCEPT !.exec = "resolved", !.pc = "idle", !.source = TRUE,
                                 !.timer = FALSE, !.entry = FALSE]
  <2>1. /\ x \in Row /\ x.pc = "idle" /\ x.exec = "resolved" /\ x.source /\ ~x.entry
        /\ ~x.aborted /\ ~x.lease /\ x.cleanup = "none" /\ ~x.selecting
    BY <1>1, <1>3, <1>5 DEF Row
  <2>2. [imp EXCEPT ![i].exec = "resolved", ![i].pc = "idle", ![i].source = TRUE,
                    ![i].timer = FALSE, ![i].entry = FALSE] = [imp EXCEPT ![i] = x]
    BY <1>1 DEF Rows
  <2>3. Drain([imp EXCEPT ![i] = x], queue)
    BY <1>5, <2>2 DEF Publish
  <2> HIDE DEF x
  <2>4. WorkSound(x, Waits(queue, i)) /\ x.pc \notin Admitting
    BY <1>3, <2>1 DEF WorkSound, Working, Outside, Unstarted, Admitting
  <2>5. SourceSound(x, status[i], project[i].state) /\ CleanSound(x, project[i].state)
    BY <1>1, <2>1 DEF Sound, SourceSound, CleanSound
  <2>6. CallSound(x, status[i], project[i].state, call[i])
    BY <1>1, <1>5, <2>1 DEF Sound, CallSound, Outside, Unstarted
  <2>7. Sound(x, Waits(queue, i), status'[i], project'[i].state, call'[i])
    BY <1>2, <2>4, <2>5, <2>6 DEF Sound
  <2> QED  BY <1>2, <1>5, <2>1, <2>3, <2>4, <2>7, EntryStep DEF OnlyOf, Grown
<1> QED  BY <1>4, <1>5

LEMMA RetractKeeps ==
  ASSUME ImportInv, NEW i \in Imports, scenario' = scenario, Retract(i)
  PROVE  ImportInv'
<1>1. imp[i].pc \in Working \ {"clean"}
  BY DEF Retract, Awaited, Working
<1>2. CASE /\ Transition(i, {"READY"}, "CANCELLED") /\ Settle(i, "resolved")
           /\ UNCHANGED <<storageVars, call, closed, bounds>>
  <2>1. OnlyOf(i) /\ call' = call /\ project' = project /\ ProjectSound(project'[i])
    BY <1>2, TransitionStep
  <2> QED  BY <1>1, <1>2, <2>1, SettleStep
<1>3. CASE TransitionFails(i, {"READY"})
  BY <1>1, <1>3, TransitionFailsStep
<1> QED  BY <1>2, <1>3 DEF Retract

-----------------------------------------------------------------------------
(* The admission.                                                          *)
LEMMA CreateKeeps ==
  ASSUME ImportInv, NEW i \in Imports, scenario' = scenario, Create(i)
  PROVE  ImportInv'
<1> DEFINE x == [imp[i] EXCEPT !.pc = "begin"]
<1>1. /\ imp \in Rows /\ imp[i] \in Row /\ imp[i].pc = "new" /\ Admits
      /\ Sound(imp[i], Waits(queue, i), status[i], project[i].state, call[i])
  BY InvAt DEF Create
<1>2. OnlyOf(i) /\ UNCHANGED <<call, project, status, queue>> /\ ProjectSound(project'[i])
  BY Bounded, InvAt DEF OnlyOf, Create, storageVars
<1>3. /\ x \in Row /\ x.pc = "begin" /\ SameBesides(x, imp[i]) /\ x.exec = imp[i].exec
      /\ x.selecting = imp[i].selecting /\ x.lease = imp[i].lease
  BY <1>1 DEF Row, SameBesides, Admitting
<1>4. imp' = [imp EXCEPT ![i] = x]
  BY <1>1 DEF Rows, Create
<1> HIDE DEF x
<1>5. WorkSound(x, Waits(queue, i)) /\ x.exec # "running"
  BY <1>1, <1>3 DEF Sound, WorkSound, SameBesides, Working, Outside, Unstarted
<1>6. SourceSound(x, status[i], project[i].state) /\ CleanSound(x, project[i].state)
  BY <1>1, <1>3 DEF Sound, SourceSound, WorkSound, CleanSound, SameBesides, Outside, Unstarted
<1>7. CallSound(x, status[i], project[i].state, call[i])
  BY <1>1, <1>3 DEF Sound, CallSound, SameBesides, Unstarted
<1>8. Sound(x, Waits(queue, i), status'[i], project'[i].state, call'[i])
  BY <1>2, <1>5, <1>6, <1>7 DEF Sound
<1> QED  BY <1>1, <1>2, <1>3, <1>4, <1>5, <1>8, EntryStep DEF OnlyOf, Grown, SameBesides, WorkSound, Sound, Working

(* What is known of an import that is being admitted.                      *)
LEMMA AdmittingIsBare ==
  ASSUME ImportInv, NEW i \in Imports, imp[i].pc \in Admitting
  PROVE  /\ ~imp[i].entry /\ ~Waits(queue, i) /\ ~imp[i].selecting /\ imp[i].cleanup = "none"
         /\ imp[i].exec # "running" /\ ~imp[i].source
         /\ status[i] = "ABSENT" /\ \A k \in Callers : call[i][k] = "no"
         /\ imp[i].pc = "insert" => project[i].state \in {"pending", "gone"}
BY InvAt DEF Sound, WorkSound, SourceSound, CallSound, Admitting, Working, Outside, Unstarted

(* create gives up.                                                        *)
LEMMA GivesUpStep ==
  ASSUME ImportInv, NEW i \in Imports, imp[i].pc \in Admitting, OnlyOf(i), ProjectSound(project'[i]),
         UNCHANGED <<queue, call>>, imp' = [imp EXCEPT ![i].pc = "ended"]
  PROVE  ImportInv'
<1> DEFINE x == [imp[i] EXCEPT !.pc = "ended"]
<1>1. imp \in Rows /\ imp[i] \in Row
  BY InvAt
<1>2. /\ x \in Row /\ x.pc = "ended" /\ SameBesides(x, imp[i]) /\ x.exec = imp[i].exec
      /\ x.selecting = imp[i].selecting
  BY <1>1 DEF Row, SameBesides
<1>3. imp' = [imp EXCEPT ![i] = x]
  BY <1>1 DEF Rows
<1> HIDE DEF x
<1>4. Sound(x, Waits(queue, i), status'[i], project'[i].state, call'[i])
  BY <1>2, AdmittingIsBare DEF Sound, WorkSound, SourceSound, CleanSound, CallSound, SameBesides,
                               Working, Outside, Unstarted
<1>5. x.exec # "running" /\ imp[i].exec # "running" /\ ~x.entry /\ x.pc \notin Admitting
  BY <1>2, AdmittingIsBare DEF SameBesides, Admitting
<1> QED  BY <1>2, <1>3, <1>4, <1>5, EntryStep DEF OnlyOf, Grown, SameBesides

LEMMA BeginKeeps ==
  ASSUME ImportInv, NEW i \in Imports, scenario' = scenario, Begin(i)
  PROVE  ImportInv'
<1>1. imp[i].pc \in Admitting /\ imp \in Rows /\ imp[i] \in Row
  BY InvAt DEF Begin, Awaited, Admitting
<1>2. restarts' = restarts /\ faults' \in 0 .. scenario.faults
  BY Bounded DEF Begin
<1>3. CASE BeginProject(i) /\ imp' = [imp EXCEPT ![i].pc = "insert"]
  <2> DEFINE x == [imp[i] EXCEPT !.pc = "insert"]
  <2>1. /\ project' \in Places /\ project'[i].state = "pending" /\ ProjectSound(project'[i])
        /\ \A j \in Imports \ {i} : project'[j] = project[j]
    BY <1>3, InvAt DEF BeginProject, Places, Directory, Imports, ProjectSound
  <2>2. OnlyOf(i) /\ UNCHANGED <<call, status, queue>>
    BY <1>2, <2>1, InvAt DEF OnlyOf, Begin
  <2>3. /\ x \in Row /\ x.pc = "insert" /\ SameBesides(x, imp[i]) /\ x.exec = imp[i].exec
        /\ x.selecting = imp[i].selecting
    BY <1>1 DEF Row, SameBesides, Admitting
  <2>4. imp' = [imp EXCEPT ![i] = x]
    BY <1>1, <1>3 DEF Rows
  <2> HIDE DEF x
  <2>5. WorkSound(x, Waits(queue, i)) /\ SourceSound(x, status[i], "pending") /\ CleanSound(x, "pending")
    BY <1>1, <2>3, AdmittingIsBare DEF WorkSound, SourceSound, CleanSound, SameBesides, Working, Outside, Unstarted
  <2>6. CallSound(x, status[i], "pending", call[i])
    BY <1>1, <2>3, AdmittingIsBare DEF CallSound, SameBesides, Unstarted
  <2>7. Sound(x, Waits(queue, i), status'[i], project'[i].state, call'[i])
    BY <2>1, <2>2, <2>5, <2>6 DEF Sound
  <2>8. x.exec # "running" /\ imp[i].exec # "running"
    BY <1>1, <2>3, AdmittingIsBare
  <2> QED  BY <1>1, <2>1, <2>2, <2>3, <2>4, <2>7, <2>8, EntryStep DEF OnlyOf, Grown, SameBesides
<1>4. CASE imp' = [imp EXCEPT ![i].pc = "ended"] /\ UNCHANGED project
  <2>1. OnlyOf(i) /\ ProjectSound(project'[i])
    BY <1>2, <1>4, InvAt DEF OnlyOf, Begin
  <2> QED  BY <1>1, <1>4, <2>1, GivesUpStep DEF Begin
<1> QED  BY <1>3, <1>4 DEF Begin

LEMMA InsertKeeps ==
  ASSUME ImportInv, NEW i \in Imports, scenario' = scenario, Insert(i)
  PROVE  ImportInv'
<1>1. /\ imp[i].pc \in Admitting /\ imp[i].pc = "insert" /\ imp \in Rows /\ imp[i] \in Row
      /\ project \in Places /\ call \in Calls /\ status \in Statuses /\ closed \in BOOLEAN
  BY InvAt DEF Insert, Awaited, Admitting
<1>2. restarts' = restarts /\ faults' \in 0 .. scenario.faults
  BY Bounded DEF Insert
<1>3. CASE /\ status' = [status EXCEPT ![i] = "QUEUED"] /\ closed /\ UNCHANGED <<project, queue>>
           /\ imp' = [imp EXCEPT ![i].pc = "idle", ![i].entry = TRUE, ![i].aborted = TRUE]
           /\ call' = [call EXCEPT ![i]["user"] = "wait"]
  <2> DEFINE x == [imp[i] EXCEPT !.pc = "idle", !.entry = TRUE, !.aborted = TRUE]
  <2>1. /\ status' \in Statuses /\ call' \in Calls /\ \A k \in Callers : call'[i][k] \in {"no", "wait"}
        /\ \A j \in Imports \ {i} : call'[j] = call[j] /\ status'[j] = status[j]
    BY <1>1, <1>3, AdmittingIsBare DEF Calls, CallRow, Statuses, InProgress, Callers
  <2>2. OnlyOf(i) /\ ProjectSound(project'[i])
    BY <1>2, <1>3, <2>1, InvAt DEF OnlyOf, Insert
  <2>3. /\ x \in Row /\ x.pc = "idle" /\ x.entry /\ x.aborted /\ x.exec = imp[i].exec
        /\ x.selecting = imp[i].selecting /\ x.cleanup = imp[i].cleanup /\ x.source = imp[i].source
    BY <1>1 DEF Row
  <2>4. imp' = [imp EXCEPT ![i] = x]
    BY <1>1, <1>3 DEF Rows
  <2> HIDE DEF x
  <2>5. /\ WorkSound(x, Waits(queue, i)) /\ SourceSound(x, status'[i], project'[i].state)
        /\ CleanSound(x, project'[i].state)
    BY <1>1, <2>3, AdmittingIsBare DEF WorkSound, SourceSound, CleanSound, Working, Outside, Unstarted
  <2>6. CallSound(x, status'[i], project'[i].state, call'[i])
    BY <2>1, <2>3 DEF CallSound, Outside, Unstarted
  <2>7. Sound(x, Waits(queue, i), status'[i], project'[i].state, call'[i])
    BY <2>5, <2>6 DEF Sound
  <2>8. x.exec # "running" /\ imp[i].exec # "running"
    BY <1>1, <2>3, AdmittingIsBare
  <2> QED  BY <1>1, <1>3, <2>2, <2>3, <2>4, <2>7, <2>8, EntryStep DEF OnlyOf, Grown
<1>4. CASE /\ status' = [status EXCEPT ![i] = "QUEUED"] /\ UNCHANGED <<project, call>>
           /\ Enqueue(i, "start", [imp EXCEPT ![i].pc = "idle", ![i].entry = TRUE, ![i].timer = TRUE])
  <2> DEFINE x == [imp[i] EXCEPT !.pc = "idle", !.entry = TRUE, !.timer = TRUE]
             q == Append(queue, [id |-> i, work |-> "start"])
  <2>1. status' \in Statuses /\ \A j \in Imports \ {i} : status'[j] = status[j]
    BY <1>1, <1>4 DEF Statuses, InProgress
  <2>2. OnlyOf(i) /\ ProjectSound(project'[i])
    BY <1>2, <1>4, <2>1, InvAt DEF OnlyOf, Insert
  <2>3. /\ x \in Row /\ x.pc = "idle" /\ x.entry /\ x.aborted = imp[i].aborted /\ x.exec = imp[i].exec
        /\ x.selecting = imp[i].selecting /\ x.cleanup = imp[i].cleanup /\ x.source = imp[i].source
    BY <1>1 DEF Row
  <2>4. [imp EXCEPT ![i].pc = "idle", ![i].entry = TRUE, ![i].timer = TRUE] = [imp EXCEPT ![i] = x]
    BY <1>1 DEF Rows
  <2>5. Drain([imp EXCEPT ![i] = x], q)
    BY <1>4, <2>4 DEF Enqueue
  <2>6. Grown(q, i)
    BY <1>1, AdmittingIsBare DEF Grown
  <2> HIDE DEF x, q
  <2>7. /\ WorkSound(x, Waits(q, i)) /\ SourceSound(x, status'[i], project'[i].state)
        /\ CleanSound(x, project'[i].state)
    BY <1>1, <2>3, AdmittingIsBare DEF WorkSound, SourceSound, CleanSound, Working, Outside, Unstarted
  <2>8. CallSound(x, status'[i], project'[i].state, call'[i])
    BY <1>1, <1>4, <2>3, AdmittingIsBare DEF CallSound, Unstarted
  <2>9. Sound(x, Waits(q, i), status'[i], project'[i].state, call'[i])
    BY <2>7, <2>8 DEF Sound
  <2>10. x.exec # "running"
    BY <1>1, <2>3, AdmittingIsBare
  <2> QED  BY <1>1, <2>2, <2>3, <2>5, <2>6, <2>9, <2>10, EntryStep DEF OnlyOf
<1>5. CASE /\ \E written \in {"ABSENT", "QUEUED"} : status' = [status EXCEPT ![i] = written]
           /\ imp' = [imp EXCEPT ![i].pc = "ended"]
           /\ project' = Discarded(i)
           /\ UNCHANGED <<queue, call>>
  <2>1. status' \in Statuses /\ \A j \in Imports \ {i} : status'[j] = status[j]
    BY <1>1, <1>5 DEF Statuses, InProgress
  <2>2. /\ project' \in Places /\ ProjectSound(project'[i])
        /\ \A j \in Imports \ {i} : project'[j] = project[j]
    <3>1. ~(project[i].pins > 0)
      BY <1>1, AdmittingIsBare, InvAt DEF ProjectSound
    <3>2. /\ project' \in Places /\ project'[i].pins = project[i].pins
          /\ ~project'[i].timer /\ project'[i].state = "deleting"
          /\ \A j \in Imports \ {i} : project'[j] = project[j]
      BY <1>1, <1>5 DEF Discarded, Places, Directory, Imports
    <3> QED  BY <3>1, <3>2 DEF ProjectSound
  <2>3. OnlyOf(i)
    BY <1>2, <1>5, <2>1, <2>2, InvAt DEF OnlyOf, Insert
  <2> QED  BY <1>1, <1>5, <2>2, <2>3, GivesUpStep
<1> QED
  <2>1. CASE closed
    BY <1>3, <1>5, <2>1 DEF Insert
  <2>2. CASE ~closed
    BY <1>4, <1>5, <2>2 DEF Insert
  <2> QED  BY <2>1, <2>2

LEMMA SelectKeeps ==
  ASSUME ImportInv, NEW i \in Imports, scenario' = scenario, Select(i)
  PROVE  ImportInv'
<1> DEFINE x == [imp[i] EXCEPT !.selecting = FALSE]
           q == Append(queue, [id |-> i, work |-> "mark"])
<1>1. /\ imp \in Rows /\ imp[i] \in Row /\ imp[i].entry /\ imp[i].selecting /\ ~imp[i].aborted
      /\ Sound(imp[i], Waits(queue, i), status[i], project[i].state, call[i])
  BY InvAt DEF Select, MaySelect
<1>2. OnlyOf(i) /\ UNCHANGED <<call, project, status>> /\ ProjectSound(project'[i])
  BY Bounded, InvAt DEF OnlyOf, Select, storageVars
<1>3. /\ ~Waits(queue, i) /\ imp[i].cleanup = "none" /\ imp[i].pc \notin Working \cup Outside
      /\ imp[i].exec # "running"
  BY <1>1 DEF Sound, WorkSound, Working
<1>4. /\ x \in Row /\ x.pc = imp[i].pc /\ SameBesides(x, imp[i]) /\ x.exec = imp[i].exec
      /\ ~x.selecting /\ x.lease = imp[i].lease
  BY <1>1 DEF Row, SameBesides
<1>5. [imp EXCEPT ![i].selecting = FALSE] = [imp EXCEPT ![i] = x]
  BY <1>1 DEF Rows
<1>6. Drain([imp EXCEPT ![i] = x], q)
  BY <1>5 DEF Select, Enqueue
<1>7. Grown(q, i)
  BY <1>3 DEF Grown
<1> HIDE DEF x, q
<1>8. WorkSound(x, Waits(q, i))
  BY <1>1, <1>3, <1>4 DEF WorkSound, SameBesides
<1>9. SourceSound(x, status[i], project[i].state) /\ CleanSound(x, project[i].state)
  BY <1>1, <1>4 DEF Sound, SourceSound, CleanSound, SameBesides
<1>10. CallSound(x, status[i], project[i].state, call[i])
  BY <1>1, <1>4 DEF Sound, CallSound, SameBesides
<1>11. Sound(x, Waits(q, i), status'[i], project'[i].state, call'[i])
  BY <1>2, <1>8, <1>9, <1>10 DEF Sound
<1> QED  BY <1>1, <1>2, <1>3, <1>4, <1>6, <1>7, <1>11, EntryStep DEF OnlyOf, SameBesides

-----------------------------------------------------------------------------
(* Cancellations, deletions and removals. An action that leaves the entry  *)
(* as it is, and one that only takes its source.                           *)
LEMMA StillStep ==
  ASSUME ImportInv, NEW i \in Imports, OnlyOf(i), UNCHANGED <<imp, queue>>, ProjectSound(project'[i]),
         Sound(imp[i], Waits(queue, i), status'[i], project'[i].state, call'[i])
  PROVE  ImportInv'
<1>1. imp \in Rows /\ imp[i] \in Row
  BY InvAt
<1>2. imp' = [imp EXCEPT ![i] = imp[i]]
  BY <1>1 DEF Rows
<1> QED  BY <1>1, <1>2, EntryStep DEF OnlyOf, Grown

LEMMA UnsourcedStep ==
  ASSUME ImportInv, NEW i \in Imports, OnlyOf(i), UNCHANGED <<queue, project>>,
         imp' = [imp EXCEPT ![i].source = FALSE],
         status[i] # "ABSENT", status[i] # "READY" \/ project[i].state \in Left,
         \A k \in Callers : call'[i][k] \in {call[i][k], "no"}
  PROVE  ImportInv'
<1> DEFINE x == [imp[i] EXCEPT !.source = FALSE]
<1>1. /\ imp \in Rows /\ imp[i] \in Row
      /\ Sound(imp[i], Waits(queue, i), status[i], project[i].state, call[i])
  BY InvAt
<1>2. /\ x \in Row /\ x.pc = imp[i].pc /\ x.entry = imp[i].entry /\ x.aborted = imp[i].aborted
      /\ x.exec = imp[i].exec /\ x.selecting = imp[i].selecting /\ x.lease = imp[i].lease
      /\ x.cleanup = imp[i].cleanup /\ ~x.source
  BY <1>1 DEF Row
<1>3. imp' = [imp EXCEPT ![i] = x]
  BY <1>1 DEF Rows
<1> HIDE DEF x
<1>4. WorkSound(x, Waits(queue, i))
  BY <1>1, <1>2 DEF Sound, WorkSound
<1>5. SourceSound(x, status'[i], project[i].state) /\ CleanSound(x, project[i].state)
  BY <1>1, <1>2 DEF Sound, SourceSound, CleanSound
<1>6. CallSound(x, status'[i], project[i].state, call'[i])
  BY <1>1, <1>2 DEF Sound, CallSound
<1>7. Sound(x, Waits(queue, i), status'[i], project'[i].state, call'[i])
  BY <1>4, <1>5, <1>6 DEF Sound
<1>8. ProjectSound(project'[i])
  BY InvAt
<1>9. /\ imp[i].aborted => x.aborted
      /\ x.entry \/ x.pc \in Admitting => imp[i].entry \/ imp[i].pc \in Admitting
      /\ x.exec = "running" <=> imp[i].exec = "running"
      /\ Grown(queue, i)
  BY <1>2 DEF Grown
<1> QED  BY <1>2, <1>3, <1>7, <1>8, <1>9, EntryStep DEF OnlyOf

(* What cleanup and discard do to the directory.                           *)
LEMMA DiscardedSound ==
  ASSUME ImportInv, NEW i \in Imports, Discardable(i)
  PROVE  /\ Discarded(i) \in Places /\ Discarded(i)[i].state = "deleting" /\ ProjectSound(Discarded(i)[i])
         /\ \A j \in Imports \ {i} : Discarded(i)[j] = project[j]
         /\ project[i].state \in {"pending", "ready", "undeleted"}
<1>1. project \in Places /\ project[i].pins = 0 /\ project[i].state \in {"pending", "ready", "undeleted"}
  BY InvAt DEF Discardable
<1>2. /\ Discarded(i) \in Places /\ Discarded(i)[i].pins = project[i].pins
      /\ ~Discarded(i)[i].timer /\ Discarded(i)[i].state = "deleting"
      /\ \A j \in Imports \ {i} : Discarded(i)[j] = project[j]
  BY <1>1 DEF Discarded, Places, Directory, Imports
<1> QED  BY <1>1, <1>2 DEF ProjectSound

LEMMA DeletingSound ==
  ASSUME ImportInv, NEW i \in Imports
  PROVE  /\ Deleting(i) \in Places /\ ProjectSound(Deleting(i)[i])
         /\ \A j \in Imports \ {i} : Deleting(i)[j] = project[j]
         /\ \/ Deleting(i)[i].state = project[i].state
            \/ Deleting(i)[i].state = "deleting" /\ project[i].state # "gone"
         /\ imp[i].cleanup = "none" /\ MayClean(i) => Deleting(i)[i].state = "deleting"
         /\ imp[i].cleanup # "none" => Deleting(i)[i].state = project[i].state
<1>1. CASE imp[i].cleanup = "none" /\ Discardable(i)
  BY <1>1, DiscardedSound DEF Deleting
<1>2. CASE ~(imp[i].cleanup = "none" /\ Discardable(i))
  BY <1>2, InvAt DEF Deleting, MayClean
<1> QED  BY <1>1, <1>2

LEMMA CleaningSound ==
  ASSUME ImportInv, NEW i \in Imports
  PROVE  /\ Cleaning(i) \in Row
         /\ Cleaning(i).entry = imp[i].entry /\ Cleaning(i).aborted = imp[i].aborted
         /\ Cleaning(i).source = imp[i].source /\ Cleaning(i).pc = imp[i].pc
         /\ Cleaning(i).exec = imp[i].exec /\ Cleaning(i).selecting = imp[i].selecting
         /\ ~Cleaning(i).lease
         /\ Cleaning(i).cleanup = IF imp[i].cleanup = "none" THEN "running" ELSE imp[i].cleanup
BY InvAt DEF Cleaning, Row

LEMMA FailKeeps ==
  ASSUME ImportInv, NEW i \in Imports, scenario' = scenario, Fail(i)
  PROVE  ImportInv'
<1>1. /\ imp[i].pc = "fail" /\ imp[i].pc \in Working \ {"clean"} /\ imp \in Rows /\ imp[i] \in Row
      /\ Sound(imp[i], Waits(queue, i), status[i], project[i].state, call[i])
  BY InvAt DEF Fail, Awaited, Working
<1>2. restarts' = restarts /\ faults' \in 0 .. scenario.faults
  BY Bounded DEF Fail
<1>3. status' \in Statuses /\ \A j \in Imports \ {i} : status'[j] = status[j]
  BY InvAt DEF Fail, Transition, Statuses
<1>4. CASE /\ imp' = [imp EXCEPT ![i] = [Cleaning(i) EXCEPT !.pc = "clean"]]
           /\ project' = Deleting(i) /\ UNCHANGED queue /\ MayClean(i)
  <2> DEFINE x == [Cleaning(i) EXCEPT !.pc = "clean"]
  <2>1. imp[i].cleanup = "none" /\ imp[i].entry /\ ~Waits(queue, i) /\ ~imp[i].selecting
        /\ imp[i].exec = "running" /\ ~imp[i].source
    BY <1>1 DEF Sound, WorkSound, CleanSound, SourceSound, Row
  <2>2. /\ x \in Row /\ x.pc = "clean" /\ x.entry /\ x.aborted = imp[i].aborted /\ ~x.source
        /\ x.exec = "running" /\ ~x.selecting /\ ~x.lease /\ x.cleanup = "running"
    BY <2>1, CleaningSound DEF Row, Working
  <2>3. OnlyOf(i) /\ ProjectSound(project'[i]) /\ project'[i].state = "deleting" /\ call' = call
    BY <1>2, <1>3, <1>4, <2>1, DeletingSound, InvAt DEF OnlyOf, Fail
  <2>4. project[i].state # "gone"
    BY <1>4, <2>1 DEF MayClean, Discardable
  <2> HIDE DEF x
  <2>5. /\ WorkSound(x, Waits(queue, i)) /\ SourceSound(x, status'[i], "deleting")
        /\ CleanSound(x, "deleting")
    BY <2>1, <2>2 DEF WorkSound, SourceSound, CleanSound, Working, Outside, Unstarted, Left
  <2>6. CallSound(x, status'[i], "deleting", call[i])
    BY <1>1, <2>2, <2>4 DEF Sound, CallSound, Outside, Unstarted
  <2>7. Sound(x, Waits(queue, i), status'[i], project'[i].state, call'[i])
    BY <2>3, <2>5, <2>6 DEF Sound
  <2> QED  BY <1>4, <2>1, <2>2, <2>3, <2>7, EntryStep DEF OnlyOf, Grown, x
<1>5. CASE Settle(i, "rejected") /\ UNCHANGED project
  <2>1. OnlyOf(i) /\ call' = call /\ ProjectSound(project'[i])
    BY <1>2, <1>3, <1>5, InvAt DEF OnlyOf, Fail
  <2> QED  BY <1>1, <1>5, <2>1, SettleStep
<1> QED  BY <1>4, <1>5 DEF Fail

LEMMA CancelKeeps ==
  ASSUME ImportInv, NEW i \in Imports, NEW k \in Callers, scenario' = scenario, Cancel(i, k)
  PROVE  ImportInv'
<1> DEFINE x == [imp[i] EXCEPT !.aborted = TRUE, !.timer = FALSE]
<1>1. /\ imp \in Rows /\ imp[i] \in Row /\ imp[i].entry /\ call \in Calls
      /\ Sound(imp[i], Waits(queue, i), status[i], project[i].state, call[i])
  BY InvAt DEF Cancel
<1>2. /\ x \in Row /\ x.pc = imp[i].pc /\ x.entry = imp[i].entry /\ x.aborted
      /\ x.exec = imp[i].exec /\ x.selecting = imp[i].selecting /\ x.lease = imp[i].lease
      /\ x.cleanup = imp[i].cleanup /\ x.source = imp[i].source
  BY <1>1 DEF Row
<1>3. imp' = [imp EXCEPT ![i] = x]
  BY <1>1 DEF Rows, Cancel, Cancelled
<1>4. /\ call' \in Calls /\ \A j \in Imports \ {i} : call'[j] = call[j]
      /\ \A l \in Callers : call'[i][l] \in {call[i][l], "wait"}
  BY <1>1 DEF Cancel, Calls, CallRow
<1>5. OnlyOf(i) /\ UNCHANGED <<status, project, queue>> /\ ProjectSound(project'[i])
  BY <1>4, Bounded, InvAt DEF OnlyOf, Cancel, storageVars
<1> HIDE DEF x
<1>6. WorkSound(x, Waits(queue, i)) /\ imp[i].pc \notin Outside
  BY <1>1, <1>2 DEF Sound, WorkSound
<1>7. ~imp[i].source /\ SourceSound(x, status[i], project[i].state) /\ CleanSound(x, project[i].state)
  BY <1>1, <1>2 DEF Sound, SourceSound, CleanSound
<1>8. CallSound(x, status[i], project[i].state, call'[i])
  BY <1>1, <1>2, <1>4, <1>6 DEF Sound, CallSound, Outside
<1>9. Sound(x, Waits(queue, i), status'[i], project'[i].state, call'[i])
  BY <1>5, <1>6, <1>7, <1>8 DEF Sound
<1> QED  BY <1>1, <1>2, <1>3, <1>5, <1>9, EntryStep DEF OnlyOf, Grown

LEMMA CancelEndsKeeps ==
  ASSUME ImportInv, NEW i \in Imports, NEW k \in Callers, scenario' = scenario, CancelEnds(i, k)
  PROVE  ImportInv'
<1>1. /\ imp \in Rows /\ imp[i] \in Row /\ call \in Calls /\ call[i][k] = "wait"
      /\ Sound(imp[i], Waits(queue, i), status[i], project[i].state, call[i])
  BY InvAt DEF CancelEnds, CancelWrites, CancelRethrows
<1>2. restarts' = restarts /\ faults' \in 0 .. scenario.faults
  BY Bounded DEF CancelEnds, CancelWrites, CancelRethrows
<1>3. imp[i].aborted /\ imp[i].pc \notin Outside /\ ~imp[i].source
  BY <1>1 DEF Sound, CallSound, SourceSound
<1>4. CASE /\ imp[i].exec # "running"
           /\ Transition(i, InProgress, IF k = "timer" THEN "FAILED" ELSE "CANCELLED") \/ UNCHANGED status
           /\ imp' = [imp EXCEPT ![i] = IF MayClean(i) THEN Cleaning(i)
                                        ELSE [Cleaning(i) EXCEPT !.cleanup = "none"]]
           /\ project' = Deleting(i)
           /\ call' = [call EXCEPT ![i][k] = CASE imp[i].cleanup = "done" -> "done"
                                               [] imp[i].cleanup # "done" /\ MayClean(i) -> "clean"
                                               [] OTHER -> "failed"]
           /\ UNCHANGED <<storage, queue, closed>>
  <2> DEFINE x == IF MayClean(i) THEN Cleaning(i) ELSE [Cleaning(i) EXCEPT !.cleanup = "none"]
             res == CASE imp[i].cleanup = "done" -> "done" [] imp[i].cleanup # "done" /\ MayClean(i) -> "clean" [] OTHER -> "failed"
  <2>1. imp[i].pc = "idle"
    BY <1>1, <1>3, <1>4 DEF Sound, WorkSound, Row, Outside, Unstarted, Admitting
  <2>2. /\ x \in Row /\ x.pc = "idle" /\ x.entry = imp[i].entry /\ x.aborted = imp[i].aborted
        /\ x.source = imp[i].source /\ x.exec = imp[i].exec /\ x.selecting = imp[i].selecting /\ ~x.lease
        /\ x.cleanup # imp[i].cleanup => x.cleanup = "running" /\ imp[i].cleanup = "none" /\ MayClean(i)
    <3>1. CASE MayClean(i)
      BY <2>1, <3>1, CleaningSound
    <3>2. CASE ~MayClean(i)
      <4>1. imp[i].cleanup = "none" /\ x = [Cleaning(i) EXCEPT !.cleanup = "none"]
        BY <3>2 DEF MayClean
      <4> QED  BY <2>1, <4>1, CleaningSound DEF Row
    <3> QED  BY <3>1, <3>2
  <2>3. res \in {"done", "clean", "failed"} /\ call' = [call EXCEPT ![i][k] = res]
    BY <1>4
  <2>4. imp' = [imp EXCEPT ![i] = x]
    BY <1>4
  <2> HIDE DEF x, res
  <2>5. /\ call' \in Calls /\ \A j \in Imports \ {i} : call'[j] = call[j]
        /\ \A l \in Callers : call'[i][l] \in {call[i][l], "done", "clean", "failed"}
    BY <1>1, <2>3 DEF Calls, CallRow
  <2>6. status' \in Statuses /\ \A j \in Imports \ {i} : status'[j] = status[j]
    BY <1>4, InvAt DEF Transition, Statuses
  <2>7. OnlyOf(i) /\ ProjectSound(project'[i])
    BY <1>2, <1>4, <2>5, <2>6, DeletingSound, InvAt DEF OnlyOf
  <2>8. WorkSound(x, Waits(queue, i))
    BY <1>1, <1>3, <2>1, <2>2 DEF Sound, WorkSound
  <2>9. SourceSound(x, status'[i], project'[i].state)
    BY <1>3, <2>2 DEF SourceSound
  <2>10. CleanSound(x, project'[i].state)
    <3>1. CleanSound(imp[i], project[i].state)
      BY <1>1 DEF Sound
    <3>2. project'[i].state = project[i].state \/ project'[i].state = "deleting"
      BY <1>4, DeletingSound
    <3>3. x.cleanup # imp[i].cleanup => project'[i].state = "deleting"
      BY <1>4, <2>2, DeletingSound
    <3> QED  BY <1>3, <2>1, <2>2, <3>1, <3>2, <3>3 DEF CleanSound, Left
  <2>11. CallSound(x, status'[i], project'[i].state, call'[i])
    <3>1. CallSound(imp[i], status[i], project[i].state, call[i])
      BY <1>1 DEF Sound
    <3>2. project'[i].state = project[i].state \/ project[i].state # "gone"
      BY <1>4, DeletingSound
    <3> QED  BY <1>3, <2>2, <2>5, <3>1, <3>2 DEF CallSound, Outside, Unstarted
  <2>12. Sound(x, Waits(queue, i), status'[i], project'[i].state, call'[i])
    BY <2>8, <2>9, <2>10, <2>11 DEF Sound
  <2> QED  BY <1>4, <2>1, <2>2, <2>4, <2>7, <2>12, EntryStep DEF OnlyOf, Grown, Admitting
<1>5. CASE /\ call' = [call EXCEPT ![i][k] = "failed"]
           /\ UNCHANGED <<storageVars, status, imp, queue, closed>>
  <2>1. /\ call' \in Calls /\ \A j \in Imports \ {i} : call'[j] = call[j]
        /\ \A l \in Callers : call'[i][l] \in {call[i][l], "failed"}
    BY <1>1, <1>5 DEF Calls, CallRow
  <2>2. OnlyOf(i) /\ ProjectSound(project'[i])
    BY <1>2, <1>5, <2>1, InvAt DEF OnlyOf, storageVars
  <2>3. CallSound(imp[i], status[i], project[i].state, call'[i])
    BY <1>1, <1>3, <2>1 DEF Sound, CallSound, Outside
  <2> QED  BY <1>1, <1>5, <2>2, <2>3, StillStep DEF Sound, storageVars
<1> QED  BY <1>4, <1>5 DEF CancelEnds, CancelWrites, CancelRethrows, storageVars

LEMMA DeletedKeeps ==
  ASSUME ImportInv, NEW i \in Imports, scenario' = scenario, Deleted(i)
  PROVE  ImportInv'
<1>1. PICK ok \in BOOLEAN :
       /\ IF ok THEN UNCHANGED bounds ELSE Fault
       /\ DeletionEnds(i, ok)
       /\ LET after == [imp EXCEPT ![i].cleanup = IF @ # "running" THEN @ ELSE IF ok THEN "done" ELSE "none",
                                   ![i].entry = @ /\ ~(ok /\ imp[i].cleanup = "running")]
          IN  IF imp[i].pc = "clean"
              THEN Drain([after EXCEPT ![i].pc = "idle",
                                       ![i].exec = IF ok THEN "resolved" ELSE "rejected"], queue)
              ELSE imp' = after /\ UNCHANGED queue
       /\ call' = [call EXCEPT ![i] = [k \in Callers |->
                     CASE @[k] = "clean" -> (IF ok THEN "done" ELSE "failed")
                       [] @[k] = "discard" -> (IF ok THEN "write" ELSE "no")
                       [] OTHER -> @[k]]]
  BY Zenon DEF Deleted
<1>2. /\ imp \in Rows /\ imp[i] \in Row /\ call \in Calls /\ call[i] \in CallRow /\ project \in Places
      /\ Sound(imp[i], Waits(queue, i), status[i], project[i].state, call[i])
      /\ project[i].state = "deleting" /\ ProjectSound(project[i])
  BY <1>1, InvAt DEF DeletionEnds
<1> DEFINE gone == IF ok THEN "gone" ELSE "undeleted"
           cl == IF imp[i].cleanup # "running" THEN imp[i].cleanup ELSE IF ok THEN "done" ELSE "none"
           en == imp[i].entry /\ ~(ok /\ imp[i].cleanup = "running")
           answer(k) == CASE call[i][k] = "clean" -> (IF ok THEN "done" ELSE "failed")
                          [] call[i][k] = "discard" -> (IF ok THEN "write" ELSE "no")
                          [] OTHER -> call[i][k]
           y == [imp[i] EXCEPT !.cleanup = cl, !.entry = en]
           outcome == IF ok THEN "resolved" ELSE "rejected"
<1>3. /\ cl \in {"none", "running", "done"} /\ en \in BOOLEAN
      /\ cl # "running" /\ (imp[i].cleanup # "running" => cl = imp[i].cleanup)
      /\ imp[i].cleanup = "running" => (cl = IF ok THEN "done" ELSE "none")
      /\ cl = "done" => ~en \/ imp[i].cleanup = "done"
      /\ en => imp[i].entry
      /\ imp[i].entry => en \/ imp[i].cleanup = "running"
  <2>1. /\ cl \in {"none", "running", "done"} /\ cl # "running"
        /\ imp[i].cleanup # "running" => cl = imp[i].cleanup
        /\ imp[i].cleanup = "running" => (cl = IF ok THEN "done" ELSE "none")
    <3>1. imp[i].cleanup \in {"none", "running", "done"}
      BY <1>2 DEF Row
    <3>2. CASE imp[i].cleanup # "running"
      BY <3>1, <3>2
    <3>3. CASE imp[i].cleanup = "running" /\ ok
      BY <3>3
    <3>4. CASE imp[i].cleanup = "running" /\ ~ok
      BY <3>4
    <3> QED  BY <3>2, <3>3, <3>4
  <2>2. imp[i].cleanup = "running" => ~(cl = "done" /\ en)
    <3>1. CASE ok
      BY <3>1
    <3>2. CASE ~ok
      BY <2>1, <3>2
    <3> QED  BY <3>1, <3>2
  <2>3. /\ en \in BOOLEAN /\ (en => imp[i].entry)
        /\ imp[i].entry => en \/ imp[i].cleanup = "running"
    BY Zenon
  <2> HIDE DEF cl, en
  <2> QED  BY <2>1, <2>2, <2>3
<1>4. /\ project' \in Places /\ project'[i].state = gone /\ ProjectSound(project'[i])
      /\ \A j \in Imports \ {i} : project'[j] = project[j]
  <2>1. project' = [project EXCEPT ![i].state = gone]
    BY <1>1 DEF DeletionEnds
  <2>2. project'[i].pins = project[i].pins /\ project'[i].timer = project[i].timer
        /\ project' \in Places /\ project'[i].state = gone
        /\ \A j \in Imports \ {i} : project'[j] = project[j]
    BY <1>2, <2>1 DEF Places, Directory, Imports
  <2> QED  BY <1>2, <2>2 DEF ProjectSound
<1>5. /\ call' \in Calls /\ \A j \in Imports \ {i} : call'[j] = call[j]
      /\ \A k \in Callers : call'[i][k] = answer(k)
  <2>1. call' = [call EXCEPT ![i] = [k \in Callers |-> answer(k)]]
    BY <1>1, Zenon
  <2>2. \A k \in Callers : answer(k) \in {"no", "wait", "clean", "discard", "write", "done", "failed"}
    BY <1>2 DEF CallRow
  <2> HIDE DEF answer
  <2>3. [k \in Callers |-> answer(k)] \in CallRow
    BY <2>2 DEF CallRow
  <2> QED  BY <1>2, <2>1, <2>3 DEF Calls
<1>6. \A k \in Callers : /\ call'[i][k] = "wait" => call[i][k] = "wait"
                         /\ call[i][k] = "no" => call'[i][k] = "no"
                         /\ call'[i][k] = "write" => gone = "gone" \/ call[i][k] = "write"
  BY <1>5
<1> HIDE DEF answer
<1>7. restarts' = restarts /\ faults' \in 0 .. scenario.faults
  BY <1>1, Bounded
<1>8. OnlyOf(i)
  BY <1>4, <1>5, <1>7, InvAt DEF OnlyOf, Deleted
<1>9. /\ y \in Row /\ y.cleanup = cl /\ y.entry = en /\ y.pc = imp[i].pc /\ y.exec = imp[i].exec
      /\ y.aborted = imp[i].aborted /\ y.selecting = imp[i].selecting /\ y.lease = imp[i].lease
      /\ y.source = imp[i].source
  <2> HIDE DEF cl, en
  <2> QED  BY <1>2, <1>3 DEF Row
<1>10. [imp EXCEPT ![i].cleanup = IF @ # "running" THEN @ ELSE IF ok THEN "done" ELSE "none",
                   ![i].entry = @ /\ ~(ok /\ imp[i].cleanup = "running")] = [imp EXCEPT ![i] = y]
  <2>1. [imp EXCEPT ![i].cleanup = cl, ![i].entry = en] = [imp EXCEPT ![i] = y]
    <3> HIDE DEF cl, en
    <3> QED  BY <1>2 DEF Rows
  <2> QED  BY <2>1, Zenon
<1>11. gone \in Left /\ outcome \in {"resolved", "rejected"}
  BY DEF Left
<1>12. IF imp[i].pc = "clean"
       THEN Drain([[imp EXCEPT ![i] = y] EXCEPT ![i].pc = "idle", ![i].exec = outcome], queue)
       ELSE imp' = [imp EXCEPT ![i] = y] /\ UNCHANGED queue
  BY <1>1, <1>10, Zenon
<1> HIDE DEF y, cl, en, outcome
(* The entry after its cleanup, whether the work went on meanwhile or not. *)
<1>13. ASSUME NEW x \in Row, x.cleanup = cl, x.entry = en, x.aborted = imp[i].aborted,
              x.selecting = imp[i].selecting, x.lease = imp[i].lease, x.source = imp[i].source,
              \/ x.pc = imp[i].pc /\ x.exec = imp[i].exec /\ imp[i].pc # "clean"
              \/ x.pc = "idle" /\ x.exec = outcome /\ imp[i].pc = "clean"
       PROVE  Sound(x, Waits(queue, i), status'[i], project'[i].state, call'[i])
  <2>1. imp[i].pc \in Working => imp[i].cleanup = "none" \/ imp[i].pc = "clean"
    BY <1>2 DEF Sound, CleanSound, Working
  <2>2. WorkSound(x, Waits(queue, i))
    <3>1. WorkSound(imp[i], Waits(queue, i)) /\ CleanSound(imp[i], project[i].state)
      BY <1>2 DEF Sound
    <3>2. CASE x.pc = imp[i].pc /\ x.exec = imp[i].exec /\ imp[i].pc # "clean"
      BY <1>3, <1>13, <2>1, <3>1, <3>2 DEF WorkSound, CleanSound
    <3>3. CASE x.pc = "idle" /\ x.exec = outcome /\ imp[i].pc = "clean"
      BY <1>3, <1>11, <1>13, <3>1, <3>3 DEF WorkSound, CleanSound, Working, Outside, Unstarted, Admitting
    <3> QED  BY <1>13, <3>2, <3>3
  <2>3. SourceSound(x, status'[i], gone)
    <3>1. SourceSound(imp[i], status[i], project[i].state)
      BY <1>2 DEF Sound
    <3> QED  BY <1>3, <1>11, <1>13, <3>1 DEF SourceSound
  <2>4. CleanSound(x, gone)
    <3>1. CleanSound(imp[i], project[i].state)
      BY <1>2 DEF Sound
    <3> QED  BY <1>3, <1>11, <1>13, <3>1 DEF CleanSound
  <2>5. CallSound(x, status'[i], gone, call'[i])
    <3>1. CallSound(imp[i], status[i], project[i].state, call[i]) /\ status' = status
      BY <1>2 DEF Sound, Deleted
    <3> QED  BY <1>2, <1>6, <1>13, <3>1 DEF CallSound, Unstarted, Outside
  <2> QED  BY <1>4, <2>2, <2>3, <2>4, <2>5 DEF Sound
<1>14. CASE imp[i].pc = "clean"
  <2> DEFINE x == [y EXCEPT !.pc = "idle", !.exec = outcome]
  <2>1. /\ x \in Row /\ x.pc = "idle" /\ x.exec = outcome /\ x.cleanup = cl /\ x.entry = en
        /\ x.aborted = imp[i].aborted /\ x.selecting = imp[i].selecting /\ x.lease = imp[i].lease
        /\ x.source = imp[i].source
    BY <1>9, <1>11 DEF Row
  <2>2. [[imp EXCEPT ![i] = y] EXCEPT ![i].pc = "idle", ![i].exec = outcome] = [imp EXCEPT ![i] = x]
    BY <1>2, <1>9 DEF Rows
  <2>3. Drain([imp EXCEPT ![i] = x], queue)
    BY <1>12, <1>14, <2>2
  <2> HIDE DEF x
  <2>4. Sound(x, Waits(queue, i), status'[i], project'[i].state, call'[i])
    BY <1>13, <1>14, <2>1
  <2>5. /\ imp[i].aborted => x.aborted
        /\ x.entry \/ x.pc \in Admitting => imp[i].entry \/ imp[i].pc \in Admitting
        /\ x.exec # "running" /\ Grown(queue, i)
    BY <1>3, <1>11, <2>1 DEF Grown, Admitting
  <2> QED  BY <1>4, <1>8, <2>1, <2>3, <2>4, <2>5, EntryStep DEF OnlyOf
<1>15. CASE imp[i].pc # "clean"
  <2>1. imp' = [imp EXCEPT ![i] = y] /\ queue' = queue
    BY <1>12, <1>15
  <2>2. Sound(y, Waits(queue, i), status'[i], project'[i].state, call'[i])
    BY <1>9, <1>13, <1>15
  <2>3. /\ imp[i].aborted => y.aborted
        /\ y.entry \/ y.pc \in Admitting => imp[i].entry \/ imp[i].pc \in Admitting
        /\ y.exec = "running" <=> imp[i].exec = "running"
        /\ Grown(queue, i)
    BY <1>3, <1>9 DEF Grown
  <2> QED  BY <1>4, <1>8, <1>9, <2>1, <2>2, <2>3, EntryStep DEF OnlyOf
<1> QED  BY <1>14, <1>15

LEMMA RemoveKeeps ==
  ASSUME ImportInv, NEW i \in Imports, scenario' = scenario, Remove(i)
  PROVE  ImportInv'
<1>1. /\ imp \in Rows /\ imp[i] \in Row /\ call \in Calls /\ status \in Statuses /\ project \in Places
      /\ Sound(imp[i], Waits(queue, i), status[i], project[i].state, call[i]) /\ ProjectSound(project[i])
  BY InvAt
<1>2. restarts' = restarts /\ faults' \in 0 .. scenario.faults
  BY Bounded DEF Remove
<1>3. CASE /\ status[i] = "READY" /\ (Discardable(i) \/ project[i].state = "deleting")
           /\ project' = IF Discardable(i) THEN Discarded(i) ELSE project
           /\ call' = [call EXCEPT ![i]["remove"] = "discard"]
           /\ UNCHANGED <<status, imp>>
  <2>1. /\ project' \in Places /\ project'[i].state = "deleting" /\ ProjectSound(project'[i])
        /\ \A j \in Imports \ {i} : project'[j] = project[j]
        /\ project[i].state # "gone"
    BY <1>1, <1>3, DiscardedSound
  <2>2. /\ call' \in Calls /\ \A j \in Imports \ {i} : call'[j] = call[j]
        /\ \A k \in Callers : call'[i][k] \in {call[i][k], "discard"}
    BY <1>1, <1>3 DEF Calls, CallRow
  <2>3. OnlyOf(i) /\ queue' = queue
    BY <1>2, <1>3, <2>1, <2>2, InvAt DEF OnlyOf, Remove
  <2>4. SourceSound(imp[i], status[i], "deleting") /\ CleanSound(imp[i], "deleting")
    BY <1>1 DEF Sound, SourceSound, CleanSound, Left
  <2>5. CallSound(imp[i], status[i], "deleting", call'[i])
    BY <1>1, <1>3, <2>1, <2>2 DEF Sound, CallSound, Unstarted
  <2>6. Sound(imp[i], Waits(queue, i), status'[i], project'[i].state, call'[i])
    BY <1>1, <1>3, <2>1, <2>4, <2>5 DEF Sound
  <2> QED  BY <1>3, <2>1, <2>3, <2>6, StillStep
<1>4. CASE /\ status[i] \in {"FAILED", "CANCELLED", "EXPIRED"}
           /\ status' = [status EXCEPT ![i] = "DELETED"]
           /\ imp' = [imp EXCEPT ![i].source = FALSE]
           /\ UNCHANGED <<project, call>>
  <2>1. status' \in Statuses /\ \A j \in Imports \ {i} : status'[j] = status[j]
    BY <1>1, <1>4 DEF Statuses
  <2>2. OnlyOf(i) /\ queue' = queue
    BY <1>2, <1>4, <2>1, InvAt DEF OnlyOf, Remove
  <2> QED  BY <1>4, <2>2, UnsourcedStep
<1> QED  BY <1>3, <1>4 DEF Remove

LEMMA RemoveWritesKeeps ==
  ASSUME ImportInv, NEW i \in Imports, scenario' = scenario, RemoveWrites(i)
  PROVE  ImportInv'
<1>1. /\ imp \in Rows /\ imp[i] \in Row /\ call \in Calls /\ status \in Statuses
      /\ Sound(imp[i], Waits(queue, i), status[i], project[i].state, call[i]) /\ ProjectSound(project[i])
  BY InvAt
<1>2. /\ call' \in Calls /\ \A j \in Imports \ {i} : call'[j] = call[j]
      /\ \A k \in Callers : call'[i][k] \in {call[i][k], "no"}
  BY <1>1 DEF RemoveWrites, Calls, CallRow
<1>3. project[i].state = "gone"
  BY <1>1 DEF RemoveWrites, Sound, CallSound, Callers
<1>4. CASE /\ status[i] = "READY" /\ status' = [status EXCEPT ![i] = "DELETED"]
           /\ imp' = [imp EXCEPT ![i].source = FALSE]
  <2>1. status' \in Statuses /\ \A j \in Imports \ {i} : status'[j] = status[j]
    BY <1>1, <1>4 DEF Statuses
  <2>2. OnlyOf(i) /\ UNCHANGED <<queue, project>>
    BY <1>2, <2>1, Bounded, InvAt DEF OnlyOf, RemoveWrites, storageVars
  <2> QED  BY <1>2, <1>3, <1>4, <2>2, UnsourcedStep DEF Left
<1>5. CASE UNCHANGED <<status, imp>>
  <2>1. OnlyOf(i) /\ UNCHANGED <<queue, project>>
    BY <1>2, <1>5, Bounded, InvAt DEF OnlyOf, RemoveWrites, storageVars
  <2>2. CallSound(imp[i], status[i], project[i].state, call'[i])
    BY <1>1, <1>2 DEF Sound, CallSound
  <2>3. Sound(imp[i], Waits(queue, i), status'[i], project'[i].state, call'[i])
    BY <1>1, <1>5, <2>1, <2>2 DEF Sound
  <2> QED  BY <1>1, <1>5, <2>1, <2>3, StillStep
<1> QED  BY <1>4, <1>5 DEF RemoveWrites

LEMMA GetKeeps ==
  ASSUME ImportInv, NEW i \in Imports, scenario' = scenario, Get(i)
  PROVE  ImportInv'
<1>1. /\ status \in Statuses
      /\ Sound(imp[i], Waits(queue, i), status[i], project[i].state, call[i])
  BY InvAt
<1>2. status' \in Statuses /\ \A j \in Imports \ {i} : status'[j] = status[j]
  BY <1>1 DEF Statuses, Get
<1>3. OnlyOf(i) /\ UNCHANGED <<queue, project, call>>
  BY <1>2, Bounded, InvAt DEF OnlyOf, Get, storageVars
<1> DEFINE x == [imp[i] EXCEPT !.source = FALSE]
<1>4. imp \in Rows /\ imp[i] \in Row
  BY InvAt
<1>5. /\ x \in Row /\ x.pc = imp[i].pc /\ x.entry = imp[i].entry /\ x.aborted = imp[i].aborted
      /\ x.exec = imp[i].exec /\ x.selecting = imp[i].selecting /\ x.lease = imp[i].lease
      /\ x.cleanup = imp[i].cleanup /\ ~x.source
  BY <1>4 DEF Row
<1>6. imp' = [imp EXCEPT ![i] = x]
  BY <1>4 DEF Rows, Get
<1> HIDE DEF x
<1>7. WorkSound(x, Waits(queue, i))
  BY <1>1, <1>5 DEF Sound, WorkSound
<1>8. SourceSound(x, status'[i], project[i].state) /\ CleanSound(x, project[i].state)
  BY <1>1, <1>5 DEF Sound, SourceSound, CleanSound, Get
<1>9. CallSound(x, status'[i], project[i].state, call[i])
  BY <1>1, <1>5 DEF Sound, CallSound, Get
<1>10. Sound(x, Waits(queue, i), status'[i], project'[i].state, call'[i])
  BY <1>3, <1>7, <1>8, <1>9 DEF Sound
<1>11. /\ imp[i].aborted => x.aborted
       /\ x.entry \/ x.pc \in Admitting => imp[i].entry \/ imp[i].pc \in Admitting
       /\ x.exec = "running" <=> imp[i].exec = "running"
       /\ Grown(queue, i) /\ ProjectSound(project'[i])
  BY <1>3, <1>5, InvAt DEF Grown
<1> QED  BY <1>3, <1>5, <1>6, <1>10, <1>11, EntryStep DEF OnlyOf

LEMMA UseKeeps ==
  ASSUME ImportInv, NEW i \in Imports, scenario' = scenario, Use(i)
  PROVE  ImportInv'
<1>1. /\ project \in Places /\ project[i].pins \in Nat /\ project[i].timer \in BOOLEAN
      /\ Sound(imp[i], Waits(queue, i), status[i], project[i].state, call[i]) /\ ProjectSound(project[i])
  BY InvAt
<1> DEFINE timer == project[i].timer \/ (project[i].pins = 1 /\ project[i].state = "ready")
<1>2. CASE PinProject(i)
  <2>1. /\ project' \in Places /\ project'[i].state = "ready" /\ project[i].state = "ready"
        /\ project'[i].pins = project[i].pins + 1 /\ ~project'[i].timer
        /\ \A j \in Imports \ {i} : project'[j] = project[j]
    <3> DEFINE n == project[i].pins + 1
               p == [project[i] EXCEPT !.pins = n, !.timer = FALSE]
    <3>1. /\ project[i] \in [state : Directory, pins : Nat, timer : BOOLEAN] /\ project[i].state = "ready"
          /\ n \in Nat
      BY <1>1, <1>2, InvAt DEF PinProject
    <3>2. /\ p \in [state : Directory, pins : Nat, timer : BOOLEAN]
          /\ p.state = project[i].state /\ p.pins = n /\ ~p.timer
      <4> HIDE DEF n
      <4> QED  BY <1>1, <3>1
    <3>3. project' = [project EXCEPT ![i] = p]
      BY <1>1, <1>2 DEF PinProject, Places, Imports
    <3> HIDE DEF p
    <3> QED  BY <1>1, <3>1, <3>2, <3>3 DEF Places, Imports
  <2>2. ProjectSound(project'[i])
    BY <1>1, <2>1 DEF ProjectSound
  <2>3. OnlyOf(i)
    BY <2>1, Bounded, InvAt DEF OnlyOf, Use
  <2> QED  BY <1>1, <2>1, <2>2, <2>3, StillStep DEF Use
<1>3. CASE project[i].pins > 0 /\ UnpinProject(i)
  <2>1. project' = [project EXCEPT ![i].pins = @ - 1, ![i].timer = timer] /\ timer \in BOOLEAN
    BY <1>1, <1>3 DEF UnpinProject
  <2>2. timer => project[i].state = "ready"
    BY <1>1 DEF ProjectSound
  <2>3. project[i].state = "ready" /\ project[i].pins = 1 => timer
    OBVIOUS
  <2> HIDE DEF timer
  <2>4. /\ project' \in Places /\ project'[i].state = project[i].state
        /\ project'[i].pins = project[i].pins - 1 /\ project'[i].timer = timer
        /\ \A j \in Imports \ {i} : project'[j] = project[j]
    <3>1. project[i].pins - 1 \in Nat
      BY <1>1, <1>3
    <3> QED  BY <1>1, <2>1, <3>1 DEF Places, Imports
  <2>5. ProjectSound(project'[i])
    BY <1>1, <1>3, <2>2, <2>3, <2>4 DEF ProjectSound
  <2>6. OnlyOf(i)
    BY <2>4, Bounded, InvAt DEF OnlyOf, Use
  <2> QED  BY <1>1, <2>4, <2>5, <2>6, StillStep DEF Use
<1> QED  BY <1>2, <1>3 DEF Use

LEMMA ExpireKeeps ==
  ASSUME ImportInv, NEW i \in Imports, scenario' = scenario, Expire(i)
  PROVE  ImportInv'
<1>1. /\ Sound(imp[i], Waits(queue, i), status[i], project[i].state, call[i]) /\ ProjectSound(project[i])
      /\ Discardable(i) /\ project[i].timer /\ project' = Discarded(i)
  BY InvAt DEF Expire, ExpireProject
<1>2. project[i].state = "ready"
  BY <1>1 DEF ProjectSound
<1>3. /\ project' \in Places /\ project'[i].state = "deleting" /\ ProjectSound(project'[i])
      /\ \A j \in Imports \ {i} : project'[j] = project[j]
  BY <1>1, DiscardedSound
<1>4. OnlyOf(i) /\ UNCHANGED <<status, imp, queue, call>>
  BY <1>3, Bounded, InvAt DEF OnlyOf, Expire
<1>5. SourceSound(imp[i], status[i], "deleting") /\ CleanSound(imp[i], "deleting")
  BY <1>1 DEF Sound, SourceSound, CleanSound, Left
<1>6. CallSound(imp[i], status[i], "deleting", call[i])
  BY <1>1, <1>2 DEF Sound, CallSound
<1>7. Sound(imp[i], Waits(queue, i), status'[i], project'[i].state, call'[i])
  BY <1>1, <1>3, <1>4, <1>5, <1>6 DEF Sound
<1> QED  BY <1>3, <1>4, <1>7, StillStep

-----------------------------------------------------------------------------
(* The shutdown and the restart.                                           *)
LEMMA CloseKeeps ==
  ASSUME ImportInv, scenario' = scenario, Close
  PROVE  ImportInv'
<1> DEFINE closing(i) == IF imp[i].entry THEN [imp[i] EXCEPT !.aborted = TRUE, !.timer = FALSE] ELSE imp[i]
           told(i) == IF imp[i].entry THEN [call[i] EXCEPT !["close"] = "wait"] ELSE call[i]
<1>1. \A i \in Imports : imp'[i] = closing(i) /\ call'[i] = told(i)
  BY InvAt DEF Close, Cancelled, Rows
<1>2. ASSUME NEW i \in Imports
      PROVE  /\ closing(i) \in Row /\ closing(i).pc = imp[i].pc /\ closing(i).entry = imp[i].entry
             /\ closing(i).exec = imp[i].exec /\ closing(i).selecting = imp[i].selecting
             /\ closing(i).lease = imp[i].lease /\ closing(i).cleanup = imp[i].cleanup
             /\ closing(i).source = imp[i].source
             /\ imp[i].entry => closing(i).aborted
             /\ ~imp[i].entry => closing(i) = imp[i]
             /\ told(i) \in CallRow
             /\ \A k \in Callers : told(i)[k] = call[i][k] \/ (told(i)[k] = "wait" /\ imp[i].entry)
  <2>1. imp[i] \in Row /\ call[i] \in CallRow
    BY InvAt
  <2>2. CASE imp[i].entry
    BY <2>1, <2>2 DEF Row, CallRow
  <2>3. CASE ~imp[i].entry
    BY <2>1, <2>3
  <2> QED  BY <2>2, <2>3
<1>3. imp' \in Rows /\ call' \in Calls
  <2>1. imp' = [i \in Imports |-> imp'[i]] /\ call' = [i \in Imports |-> call'[i]]
    BY DEF Close
  <2>2. \A i \in Imports : imp'[i] \in Row /\ call'[i] \in CallRow
    BY <1>1, <1>2
  <2> QED  BY <2>1, <2>2 DEF Rows, Calls
<1>4. \A i \in Imports : imp[i].aborted => imp'[i].aborted
  <2> TAKE i \in Imports
  <2> QED  BY <1>1, <1>2
<1>5. TypeOK' /\ UNCHANGED <<project, storage, status, queue, bounds>> /\ closed' = TRUE
  BY <1>3, Types DEF Close, ImportInv, storageVars, bounds, TypeOK, StorageTypeOK, Rows, Row, Calls, CallRow
<1> HIDE DEF closing, told
<1>6. ASSUME NEW i \in Imports
      PROVE  Sound(imp'[i], Waits(queue, i), status[i], project[i].state, call'[i])
  <2> DEFINE x == closing(i)
             c == told(i)
  <2>1. Sound(imp[i], Waits(queue, i), status[i], project[i].state, call[i])
    BY InvAt
  <2>2. imp[i].entry => imp[i].pc \notin Outside
    BY <2>1 DEF Sound, WorkSound
  <2>3. imp[i].entry => ~imp[i].source
    BY <2>1 DEF Sound, SourceSound
  <2>4. imp[i].aborted => x.aborted
    BY <1>1, <1>4
  <2>5. WorkSound(x, Waits(queue, i))
    BY <1>2, <2>1, <2>4 DEF Sound, WorkSound
  <2>6. SourceSound(x, status[i], project[i].state) /\ CleanSound(x, project[i].state)
    BY <1>2, <2>1, <2>3 DEF Sound, SourceSound, CleanSound
  <2>7. CallSound(x, status[i], project[i].state, c)
    BY <1>2, <2>1, <2>2, <2>4 DEF Sound, CallSound, Outside
  <2> QED  BY <1>1, <2>5, <2>6, <2>7 DEF Sound
<1>7. Running(imp') = Running(imp) /\ Holding(imp') = Holding(imp)
  BY <1>1, <1>2 DEF Running, Holding
<1>8. Due(imp', queue) \subseteq Due(imp, queue)
  <2>1. \A k \in DOMAIN queue : queue[k] \in Item
    BY Types DEF ImportInv
  <2> QED  BY <1>4, <2>1 DEF Due, Item
<1>9. LanesSound(imp', queue) /\ IsFiniteSet(Holding(imp'))
  BY <1>7, <1>8 DEF LanesSound, ImportInv
<1>10. WithinQuota'
  BY <1>7 DEF ImportInv, WithinQuota, Holding
<1> QED  BY <1>5, <1>6, <1>9, <1>10 DEF ImportInv

LEMMA CloseProjectsKeeps ==
  ASSUME ImportInv, scenario' = scenario, CloseProjects
  PROVE  ImportInv'
<1> DEFINE left(i) == IF project[i].state = "none" THEN "none" ELSE "gone"
<1>1. /\ storage' = "closed" /\ UNCHANGED <<status, imp, queue, call, closed, bounds>>
      /\ project' = [i \in Projects |-> [state |-> left(i), pins |-> 0, timer |-> FALSE]]
  BY DEF CloseProjects, CloseStorage
<1>2. \A i \in Imports : left(i) \in Directory /\ left(i) # "ready"
  BY DEF Directory
<1>3. \A i \in Imports : project'[i].state = left(i)
  BY <1>1 DEF Imports
<1>4. project' \in Places /\ \A i \in Imports : ProjectSound(project'[i])
  <2> HIDE DEF left
  <2>1. /\ project' \in Places
        /\ \A i \in Imports : /\ project'[i].pins = 0 /\ ~project'[i].timer
                              /\ project'[i].state = left(i)
    BY <1>1, <1>2 DEF Places, Imports
  <2> QED  BY <1>2, <2>1 DEF ProjectSound
<1>5. TypeOK'
  BY <1>1, <1>4, Types DEF ImportInv, bounds, TypeOK, StorageTypeOK, Places
<1>6. ASSUME NEW i \in Imports
      PROVE  Sound(imp[i], Waits(queue, i), status[i], left(i), call[i])
  <2>1. Sound(imp[i], Waits(queue, i), status[i], project[i].state, call[i])
    BY InvAt
  <2>2. left(i) = project[i].state \/ left(i) = "gone"
    OBVIOUS
  <2> HIDE DEF left
  <2>3. CASE left(i) = "gone"
    <3>1. SourceSound(imp[i], status[i], "gone") /\ CleanSound(imp[i], "gone")
      BY <2>1 DEF Sound, SourceSound, CleanSound, Left
    <3>2. CallSound(imp[i], status[i], "gone", call[i])
      BY <2>1 DEF Sound, CallSound
    <3> QED  BY <2>1, <2>3, <3>1, <3>2 DEF Sound
  <2> QED  BY <2>1, <2>2, <2>3
<1> HIDE DEF left
<1>7. \A i \in Imports : Sound(imp'[i], Waits(queue', i), status'[i], project'[i].state, call'[i])
  BY <1>1, <1>3, <1>6
<1>8. Once(queue') /\ LanesSound(imp', queue') /\ IsFiniteSet(Holding(imp'))
  BY <1>1 DEF ImportInv
<1>9. WithinQuota'
  BY <1>1 DEF ImportInv, WithinQuota
<1> QED  BY <1>4, <1>5, <1>7, <1>8, <1>9 DEF ImportInv

(* A process in which nothing runs: what it starts from.                   *)
LEMMA NothingRuns ==
  ASSUME NEW f \in Rows, \A i \in Imports : f[i].pc \in {"new", "ended"} /\ ~f[i].entry /\ f[i].exec = "none"
  PROVE  /\ LanesSound(f, <<>>) /\ Once(<<>>) /\ \A i \in Imports : ~Waits(<<>>, i)
         /\ Holding(f) = {} /\ IsFiniteSet(Holding(f)) /\ Cardinality(Holding(f)) = 0
<1>1. Running(f) = {} /\ Holding(f) = {}
  BY DEF Running, Holding, Admitting
<1>2. DOMAIN <<>> = {}
  OBVIOUS
<1>3. Due(f, <<>>) = {} /\ Once(<<>>) /\ \A i \in Imports : ~Waits(<<>>, i)
  BY <1>2 DEF Due, Once, Waits
<1> QED  BY <1>1, <1>3, FS_EmptySet, ImportsAssumption DEF LanesSound

LEMMA IdleSound ==
  ASSUME NEW x \in Row, x.pc \in {"new", "ended"}, ~x.entry, x.exec = "none", ~x.selecting,
         x.cleanup = "none", ~x.source, NEW s, NEW d, NEW c, \A k \in Callers : c[k] = "no",
         x.pc = "new" => s = "ABSENT"
  PROVE  Sound(x, FALSE, s, d, c)
BY DEF Sound, WorkSound, SourceSound, CleanSound, CallSound, Working, Outside, Unstarted

LEMMA RestartKeeps ==
  ASSUME ImportInv, scenario' = scenario, Restart
  PROVE  ImportInv'
<1> DEFINE pc(i) == IF imp[i].pc = "new" THEN "new" ELSE "ended"
           left(i) == IF imp[i].pc = "new" THEN "none" ELSE "gone"
           st(i) == IF status[i] \in InProgress \cup {"READY"} THEN "EXPIRED" ELSE status[i]
           x(i) == [Idle EXCEPT !.pc = pc(i)]
<1>1. /\ storage' = "open" /\ closed' = FALSE /\ queue' = <<>> /\ faults' = faults
      /\ status' = [i \in Imports |-> st(i)]
      /\ imp' = [i \in Imports |-> x(i)]
      /\ project' = [i \in Imports |-> [state |-> left(i), pins |-> 0, timer |-> FALSE]]
      /\ call' = [i \in Imports |-> [k \in Callers |-> "no"]]
      /\ restarts < scenario.restarts /\ restarts' = restarts + 1
  BY DEF Restart
<1>2. ASSUME NEW i \in Imports
      PROVE  /\ pc(i) \in {"new", "ended"} /\ left(i) \in Directory /\ left(i) # "ready"
             /\ st(i) \in InProgress \cup {"ABSENT", "READY", "FAILED", "CANCELLED", "EXPIRED", "DELETED"}
             /\ pc(i) = "new" => st(i) = "ABSENT"
  <2>1. imp[i].pc = "new" => status[i] = "ABSENT"
    BY InvAt DEF Sound, CallSound, Unstarted
  <2>2. status[i] \in InProgress \cup {"ABSENT", "READY", "FAILED", "CANCELLED", "EXPIRED", "DELETED"}
    BY InvAt DEF Statuses
  <2> QED  BY <2>1, <2>2 DEF InProgress, Directory
<1> HIDE DEF pc, left, st
<1>3. ASSUME NEW i \in Imports
      PROVE  /\ x(i) \in Row /\ x(i).pc = pc(i) /\ ~x(i).entry /\ x(i).exec = "none" /\ ~x(i).selecting
             /\ x(i).cleanup = "none" /\ ~x(i).source
  BY <1>2 DEF Row, Idle
<1> HIDE DEF x
<1>4. imp' \in Rows /\ \A i \in Imports : imp'[i] = x(i)
  BY <1>1, <1>3 DEF Rows
<1>5. status' \in Statuses /\ \A i \in Imports : status'[i] = st(i)
  BY <1>1, <1>2 DEF Statuses
<1>6. project' \in Places /\ \A i \in Imports : ProjectSound(project'[i])
  <2>1. /\ project' \in Places
        /\ \A i \in Imports : /\ project'[i].pins = 0 /\ ~project'[i].timer
                              /\ project'[i].state = left(i)
    BY <1>1, <1>2 DEF Places, Imports
  <2> QED  BY <1>2, <2>1 DEF ProjectSound
<1>7. call' \in Calls /\ \A i \in Imports, k \in Callers : call'[i][k] = "no"
  BY <1>1 DEF Calls, CallRow
<1>8. scenario \in Scenarios /\ faults \in 0 .. scenario.faults /\ restarts' \in 0 .. scenario.restarts
  <2>1. scenario \in Scenarios /\ faults \in 0 .. scenario.faults /\ restarts \in 0 .. scenario.restarts
    BY DEF ImportInv, TypeOK
  <2>2. scenario.restarts \in Nat
    BY <2>1, ImportsAssumption
  <2> QED  BY <1>1, <2>1, <2>2
<1>9. TypeOK'
  <2>1. queue' \in Seq([id : Imports, work : {"start", "mark"}])
    BY <1>1
  <2> QED  BY <1>1, <1>4, <1>5, <1>6, <1>7, <1>8, <2>1
           DEF TypeOK, StorageTypeOK, Places, Statuses, Rows, Row, Calls, CallRow
<1>10. /\ LanesSound(imp', queue') /\ Once(queue') /\ \A i \in Imports : ~Waits(queue', i)
       /\ IsFiniteSet(Holding(imp')) /\ Cardinality(Holding(imp')) = 0
  <2>1. \A i \in Imports : imp'[i].pc \in {"new", "ended"} /\ ~imp'[i].entry /\ imp'[i].exec = "none"
    BY <1>2, <1>3, <1>4
  <2> QED  BY <1>1, <1>4, <2>1, NothingRuns
<1>11. \A i \in Imports : Sound(imp'[i], Waits(queue', i), status'[i], project'[i].state, call'[i])
  <2> TAKE i \in Imports
  <2>1. Sound(x(i), FALSE, status'[i], project'[i].state, call'[i])
    <3>1. /\ x(i) \in Row /\ x(i).pc \in {"new", "ended"} /\ ~x(i).entry /\ x(i).exec = "none"
          /\ ~x(i).selecting /\ x(i).cleanup = "none" /\ ~x(i).source
          /\ x(i).pc = "new" => status'[i] = "ABSENT"
      BY <1>2, <1>3, <1>5
    <3>2. \A k \in Callers : call'[i][k] = "no"
      BY <1>7
    <3> QED  BY <3>1, <3>2, IdleSound
  <2>2. Waits(queue', i) => FALSE
    BY <1>10
  <2>3. Sound(x(i), Waits(queue', i), status'[i], project'[i].state, call'[i])
    BY <2>1, <2>2, WaitsNoMore
  <2>4. imp'[i] = x(i)
    BY <1>4
  <2> QED  BY <2>3, <2>4
<1>12. WithinQuota'
  <2>1. scenario.maximum \in Nat
    BY <1>8, ImportsAssumption
  <2> QED  BY <1>10, <2>1 DEF WithinQuota, Holding
<1> QED  BY <1>6, <1>9, <1>10, <1>11, <1>12 DEF ImportInv

LEMMA InitHolds ==
  ASSUME Init
  PROVE  ImportInv
<1>1. /\ queue = <<>> /\ scenario \in Scenarios /\ faults = 0 /\ restarts = 0 /\ closed = FALSE
      /\ imp = [i \in Imports |-> Idle] /\ status = [i \in Imports |-> "ABSENT"]
      /\ project = [i \in Projects |-> [state |-> "none", pins |-> 0, timer |-> FALSE]]
      /\ call = [i \in Imports |-> [k \in Callers |-> "no"]] /\ storage = "open"
  BY DEF Init, StorageInit
<1>2. /\ Idle \in Row /\ Idle.pc = "new" /\ ~Idle.entry /\ Idle.exec = "none" /\ ~Idle.selecting
      /\ Idle.cleanup = "none" /\ ~Idle.source
  BY DEF Row, Idle
<1>3. imp \in Rows /\ \A i \in Imports : imp[i] = Idle
  BY <1>1, <1>2 DEF Rows
<1>4. /\ status \in Statuses /\ project \in Places /\ call \in Calls /\ queue \in Seq(Item)
      /\ \A i \in Imports : ProjectSound(project[i]) /\ status[i] = "ABSENT"
      /\ \A i \in Imports, k \in Callers : call[i][k] = "no"
  BY <1>1 DEF Statuses, Places, Directory, Imports, ProjectSound, Calls, CallRow
<1>5. scenario.faults \in Nat /\ scenario.restarts \in Nat /\ scenario.maximum \in Nat
  BY <1>1, ImportsAssumption
<1>6. TypeOK
  <2>1. faults \in 0 .. scenario.faults /\ restarts \in 0 .. scenario.restarts
    BY <1>1, <1>5
  <2>2. closed \in BOOLEAN /\ storage \in {"open", "closed"} /\ scenario \in Scenarios
    BY <1>1
  <2> QED  BY <1>3, <1>4, <2>1, <2>2, Types
<1>7. /\ LanesSound(imp, queue) /\ Once(queue) /\ \A i \in Imports : ~Waits(queue, i)
      /\ IsFiniteSet(Holding(imp)) /\ Cardinality(Holding(imp)) = 0
  BY <1>1, <1>2, <1>3, NothingRuns
<1>8. \A i \in Imports : Sound(imp[i], Waits(queue, i), status[i], project[i].state, call[i])
  <2> TAKE i \in Imports
  <2>1. Sound(Idle, FALSE, status[i], project[i].state, call[i])
    BY <1>2, <1>4, IdleSound
  <2>2. Waits(queue, i) => FALSE
    BY <1>7
  <2> QED  BY <1>3, <2>1, <2>2, WaitsNoMore
<1>9. WithinQuota
  BY <1>5, <1>7 DEF WithinQuota, Holding
<1> QED  BY <1>4, <1>6, <1>7, <1>8, <1>9 DEF ImportInv

LEMMA StutterKeeps ==
  ASSUME ImportInv, UNCHANGED vars
  PROVE  ImportInv'
<1>1. UNCHANGED <<project, storage, status, imp, queue, call, closed, scenario, faults, restarts>>
  BY DEF vars, storageVars
<1>2. TypeOK'
  BY <1>1 DEF ImportInv, TypeOK, StorageTypeOK
<1>3. WithinQuota'
  BY <1>1 DEF ImportInv, WithinQuota
<1> QED  BY <1>1, <1>2, <1>3 DEF ImportInv

(* The action of each disjunct of the next-state relation.                 *)
LEMMA StepKeeps ==
  ASSUME ImportInv, [Next]_vars
  PROVE  ImportInv'
<1>1. CASE UNCHANGED vars
  BY <1>1, StutterKeeps
<1>2. ASSUME scenario' = scenario, NEW i \in Imports,
             \/ Create(i) \/ Begin(i) \/ Insert(i) \/ Work(i) \/ Select(i)
             \/ CancelByUser(i) \/ Timeout(i) \/ \E k \in Callers : CancelEnds(i, k)
             \/ Deleted(i) \/ Remove(i) \/ RemoveWrites(i) \/ Get(i) \/ Use(i) \/ Expire(i)
      PROVE  ImportInv'
  <2>1. CASE Work(i)
    BY <1>2, <2>1, StartKeeps, FetchKeeps, AskUserKeeps, MarkKeeps, CopyKeeps, CompleteKeeps,
       ReadyKeeps, PublishKeeps, RetractKeeps, FailKeeps DEF Work
  <2>2. CASE Create(i) \/ Begin(i) \/ Insert(i) \/ Select(i)
    BY <1>2, <2>2, CreateKeeps, BeginKeeps, InsertKeeps, SelectKeeps
  <2>3. CASE CancelByUser(i) \/ Timeout(i)
    BY <1>2, <2>3, CancelKeeps DEF CancelByUser, Timeout, Callers
  <2>4. CASE \E k \in Callers : CancelEnds(i, k)
    BY <1>2, <2>4, CancelEndsKeeps
  <2>5. CASE Deleted(i) \/ Remove(i) \/ RemoveWrites(i) \/ Get(i) \/ Use(i) \/ Expire(i)
    BY <1>2, <2>5, DeletedKeeps, RemoveKeeps, RemoveWritesKeeps, GetKeeps, UseKeeps, ExpireKeeps
  <2> QED  BY <1>2, <2>1, <2>2, <2>3, <2>4, <2>5
<1>3. CASE scenario' = scenario /\ (Close \/ CloseProjects \/ Restart)
  BY <1>3, CloseKeeps, CloseProjectsKeeps, RestartKeeps
<1> QED  BY <1>1, <1>2, <1>3 DEF Next

LEMMA Invariance == Spec => []ImportInv
BY InitHolds, StepKeeps, PTL DEF Spec

-----------------------------------------------------------------------------
(* A source is shown only while its row says READY and nobody cancelled    *)
(* it, the files a job uses are there, and a directory nobody uses has its *)
(* timer set.                                                              *)
THEOREM SourcesStayTrue == Spec => []SourcesAreTrue
<1>1. ImportInv => SourcesAreTrue
  <2> SUFFICES ASSUME ImportInv PROVE SourcesAreTrue
    OBVIOUS
  <2>1. PinnedIsReady /\ ReadyEndsByItself
    BY DEF ImportInv, ProjectSound, PinnedIsReady, ReadyEndsByItself, Imports
  <2>2. VisibleIsReady
    <3> SUFFICES ASSUME NEW i \in Imports, Visible(i)
                 PROVE  status[i] = "READY" /\ ~imp[i].aborted
      BY DEF VisibleIsReady
    <3>1. SourceSound(imp[i], status[i], project[i].state)
      BY InvAt DEF Sound
    <3> QED  BY <3>1 DEF SourceSound, Visible, Left
  <2> QED  BY <2>1, <2>2 DEF ImportInv, SourcesAreTrue
<1> QED  BY <1>1, Invariance, PTL

(* Neither the limit of imports nor the lanes are exceeded, no lane idles  *)
(* while work waits, work runs once and for an entry, and an entry that    *)
(* goes leaves neither a lease nor a directory.                            *)
THEOREM WorkStaysAccounted == Spec => []WorkIsAccounted
<1>1. ImportInv => WorkIsAccounted
  <2> SUFFICES ASSUME ImportInv PROVE WorkIsAccounted
    OBVIOUS
  <2>1. LanesInUse
    BY DEF ImportInv, LanesSound, LanesInUse, Due
  <2>2. WorkHasEntry
    <3> SUFFICES ASSUME NEW i \in Imports
                 PROVE  /\ imp[i].exec = "running" => imp[i].entry \/ imp[i].pc = "clean"
                        /\ Cardinality({k \in DOMAIN queue : queue[k].id = i})
                             + (IF imp[i].exec = "running" THEN 1 ELSE 0) <= 1
      BY DEF WorkHasEntry
    <3> DEFINE S == {k \in DOMAIN queue : queue[k].id = i}
    <3>1. WorkSound(imp[i], Waits(queue, i))
      BY InvAt DEF Sound
    <3>2. imp[i].exec = "running" => imp[i].entry /\ S = {}
      BY <3>1 DEF WorkSound, Waits
    <3>3. Cardinality(S) = 0 \/ Cardinality(S) = 1
      <4>1. CASE S = {}
        BY <4>1, FS_EmptySet
      <4>2. CASE S # {}
        <5>1. PICK k : k \in S
          BY <4>2
        <5>2. S = {k}
          BY <5>1 DEF ImportInv, Once
        <5> QED  BY <5>2, FS_Singleton
      <4> QED  BY <4>1, <4>2
    <3>4. S = {} => Cardinality(S) = 0
      BY FS_EmptySet
    <3> HIDE DEF S
    <3>5. Cardinality(S) + (IF imp[i].exec = "running" THEN 1 ELSE 0) <= 1
      BY <3>2, <3>3, <3>4
    <3> QED  BY <3>2, <3>5 DEF S
  <2>3. NothingIsLeft
    <3> SUFFICES ASSUME NEW i \in Imports, ~imp[i].entry, imp[i].pc = "idle", ~imp[i].source
                 PROVE  ~imp[i].lease /\ project[i].state \in {"gone", "deleting", "undeleted"}
      BY DEF NothingIsLeft
    <3>1. CleanSound(imp[i], project[i].state)
      BY InvAt DEF Sound
    <3> QED  BY <3>1 DEF CleanSound, Left
  <2> QED  BY <2>1, <2>2, <2>3 DEF ImportInv, WorkIsAccounted
<1> QED  BY <1>1, Invariance, PTL

-----------------------------------------------------------------------------
(* How the status of a row may change.                                     *)
Lasts(s, t) ==
  /\ s \in {"FAILED", "CANCELLED", "EXPIRED"} => t \in {s, "DELETED"}
  /\ s = "READY" => t \in {"READY", "CANCELLED", "EXPIRED", "DELETED"}
  /\ s = "DELETED" => t = "DELETED"

LEMMA OneStatusLasts ==
  ASSUME ImportInv, NEW i \in Imports, NEW t, status' = [status EXCEPT ![i] = t], Lasts(status[i], t)
  PROVE  \A j \in Imports : Lasts(status[j], status'[j])
BY InvAt DEF Statuses, Lasts

LEMMA WorkLasts ==
  ASSUME ImportInv, NEW i \in Imports, Work(i)
  PROVE  \A j \in Imports : Lasts(status[j], status'[j])
<1>1. \/ UNCHANGED status
      \/ \E from \in SUBSET InProgress, to \in InProgress \cup {"READY", "FAILED"} : Transition(i, from, to)
      \/ Transition(i, {"READY"}, "CANCELLED")
  BY DEF Work, Start, Fetch, AskUser, Mark, Copy, Complete, Ready, Publish, Retract, Fail,
         TransitionFails, InProgress
<1>2. CASE UNCHANGED status
  BY <1>2 DEF Lasts
<1>3. CASE \E from \in SUBSET InProgress, to \in InProgress \cup {"READY", "FAILED"} : Transition(i, from, to)
  BY <1>3, OneStatusLasts DEF Transition, Lasts, InProgress
<1>4. CASE Transition(i, {"READY"}, "CANCELLED")
  BY <1>4, OneStatusLasts DEF Transition, Lasts
<1> QED  BY <1>1, <1>2, <1>3, <1>4

LEMMA OthersLast ==
  ASSUME ImportInv, NEW i \in Imports,
         \/ Insert(i) \/ (\E k \in Callers : CancelEnds(i, k)) \/ Remove(i) \/ RemoveWrites(i) \/ Get(i)
  PROVE  \A j \in Imports : Lasts(status[j], status'[j])
<1>1. CASE UNCHANGED status
  BY <1>1 DEF Lasts
<1>2. CASE Insert(i)
  <2>1. status[i] = "ABSENT"
    BY <1>2, AdmittingIsBare DEF Insert, Awaited, Admitting
  <2>2. \E t : status' = [status EXCEPT ![i] = t]
    BY <1>2 DEF Insert
  <2> QED  BY <2>1, <2>2, OneStatusLasts DEF Lasts
<1>3. CASE \E k \in Callers : CancelEnds(i, k)
  <2>1. UNCHANGED status \/ \E t : Transition(i, InProgress, t)
    BY <1>3 DEF CancelEnds, CancelWrites, CancelRethrows
  <2>2. CASE \E t : Transition(i, InProgress, t)
    BY <2>2, OneStatusLasts DEF Transition, Lasts, InProgress
  <2> QED  BY <1>1, <2>1, <2>2
<1>4. CASE Remove(i) \/ RemoveWrites(i)
  <2>1. UNCHANGED status \/ status' = [status EXCEPT ![i] = "DELETED"]
    BY <1>4 DEF Remove, RemoveWrites
  <2> QED  BY <1>1, <2>1, OneStatusLasts DEF Lasts
<1>5. CASE Get(i)
  BY <1>5, OneStatusLasts DEF Get, Lasts
<1> QED  BY <1>2, <1>3, <1>4, <1>5

(* An import that ended stays ended, over cancellations, removals, timers, *)
(* a shutdown and a restart: a failed, cancelled or expired one can only   *)
(* be deleted, a finished one neither fails nor starts again.              *)
THEOREM EndsForGood == Spec => EndedForGood
<1>1. ASSUME ImportInv, [Next]_vars
      PROVE  \A i \in Imports : Lasts(status[i], status'[i])
  <2>1. CASE UNCHANGED status
    BY <2>1 DEF Lasts
  <2>2. CASE Restart
    BY <2>2 DEF Restart, Lasts, InProgress
  <2>3. ASSUME NEW i \in Imports,
               Create(i) \/ Begin(i) \/ Select(i) \/ CancelByUser(i) \/ Timeout(i)
                 \/ Deleted(i) \/ Use(i) \/ Expire(i)
        PROVE  UNCHANGED status
    BY <2>3 DEF Create, Begin, Select, CancelByUser, Timeout, Cancel, Deleted, Use, Expire
  <2>4. CASE UNCHANGED vars \/ Close \/ CloseProjects
    BY <2>1, <2>4 DEF vars, Close, CloseProjects
  <2> QED  BY <1>1, <2>1, <2>2, <2>3, <2>4, WorkLasts, OthersLast DEF Next
<1> QED  BY <1>1, Invariance, PTL DEF Spec, EndedForGood, Lasts
-----------------------------------------------------------------------------
(* Sums over finite sets.  A set of subsets of a finite set has a smallest *)
(* one: with it, what holds of a set once it holds of all smaller ones     *)
(* holds of all.                                                           *)
LEMMA Smallest ==
  ASSUME NEW S, IsFiniteSet(S), NEW T \in SUBSET SUBSET S, T # {}
  PROVE  \E m \in T : \A s \in SUBSET m : s # m => s \notin T
<1>1. IsWellFoundedOn(StrictSubsetOrdering(S), FiniteSubsetsOf(S)) /\ FiniteSubsetsOf(S) = SUBSET S
  BY FS_StrictSubsetOrderingWellFounded, FS_FiniteSubsetsOfFinite
<1>2. PICK m \in T : \A s \in T : <<s, m>> \notin StrictSubsetOrdering(S)
  BY <1>1, WFMin
<1>3. \A s \in SUBSET m : s # m /\ s \in T => <<s, m>> \in StrictSubsetOrdering(S)
  BY DEF StrictSubsetOrdering
<1>4. \A s \in SUBSET m : s # m => s \notin T
  BY <1>2, <1>3
<1> QED  BY ONLY <1>4, m \in T

(* The sum of f over a set, as the fold of the library computes it.        *)
Chosen(s) == CHOOSE x \in s : TRUE
SumOf(g, f, s) == IF s = {} THEN 0 ELSE f[Chosen(s)] + g[s \ {Chosen(s)}]
Sum(f, S) == (CHOOSE g : g = [s \in SUBSET S |-> SumOf(g, f, s)])[S]

Obeys(g, f, S) == \A s \in SUBSET S : g[s] = SumOf(g, f, s)

LEMMA ChosenIs == \A s : s # {} => Chosen(s) \in s
BY DEF Chosen

(* Whatever obeys the recursion on the subsets of a set is the same.       *)
LEMMA SumUnique ==
  ASSUME NEW f, NEW S, IsFiniteSet(S), NEW g, NEW h, Obeys(g, f, S), Obeys(h, f, S)
  PROVE  g[S] = h[S]
<1>0. \A s \in SUBSET S : g[s] = SumOf(g, f, s) /\ h[s] = SumOf(h, f, s)
  BY DEF Obeys
<1> DEFINE T == {s \in SUBSET S : g[s] # h[s]}
<1> SUFFICES ASSUME g[S] # h[S] PROVE FALSE
  OBVIOUS
<1>1. T \in SUBSET SUBSET S /\ T # {}
  OBVIOUS
<1> HIDE DEF T
<1>2. PICK m \in T : \A s \in SUBSET m : s # m => s \notin T
  BY <1>1, Smallest
<1> USE DEF T
<1>3. m \in SUBSET S /\ g[m] # h[m]
  OBVIOUS
<1>4. CASE m = {}
  BY <1>0, <1>3, <1>4 DEF SumOf
<1>5. CASE m # {}
  <2>1. m \ {Chosen(m)} \in SUBSET m /\ m \ {Chosen(m)} # m
    BY <1>5, ChosenIs
  <2>2. g[m \ {Chosen(m)}] = h[m \ {Chosen(m)}]
    BY <1>2, <1>3, <2>1
  <2> QED  BY <1>0, <1>3, <1>5, <2>2 DEF SumOf
<1> QED  BY <1>4, <1>5

LEMMA SumExists ==
  ASSUME NEW f, NEW S, IsFiniteSet(S)
  PROVE  \E g : g = [s \in SUBSET S |-> SumOf(g, f, s)]
<1> DEFINE Has(t) == \E g : g = [s \in SUBSET t |-> SumOf(g, f, s)]
           T == {t \in SUBSET S : ~Has(t)}
<1> SUFFICES ASSUME ~Has(S) PROVE FALSE
  OBVIOUS
<1>1. T \in SUBSET SUBSET S /\ T # {}
  OBVIOUS
<1> HIDE DEF T
<1>2. PICK m \in T : \A s \in SUBSET m : s # m => s \notin T
  BY <1>1, Smallest
<1> USE DEF T
<1>3. m \in SUBSET S /\ ~Has(m)
  OBVIOUS
<1>4. \A t \in SUBSET m : t # m => Has(t)
  BY <1>2, <1>3
<1> HIDE DEF T, Has
<1> DEFINE G == [t \in SUBSET m |-> (CHOOSE g : g = [s \in SUBSET t |-> SumOf(g, f, s)])[t]]
           h == [s \in SUBSET m |-> SumOf(G, f, s)]
<1>5. ASSUME NEW t \in SUBSET m, t # m
      PROVE  G[t] = SumOf(G, f, t)
  <2>1. PICK g : g = [s \in SUBSET t |-> SumOf(g, f, s)]
    BY <1>4, <1>5 DEF Has
  <2> DEFINE gt == CHOOSE g1 : g1 = [s \in SUBSET t |-> SumOf(g1, f, s)]
  <2>2. gt = [s \in SUBSET t |-> SumOf(gt, f, s)]
    BY <2>1
  <2>3. G[t] = gt[t] /\ gt[t] = SumOf(gt, f, t)
    BY <2>2
  <2> HIDE DEF gt, G
  <2>4. CASE t = {}
    BY <2>3, <2>4 DEF SumOf
  <2>5. CASE t # {}
    <3> DEFINE u == t \ {Chosen(t)}
    <3>1. u \in SUBSET t /\ u # t /\ u \in SUBSET m /\ u # m
      BY <1>5, <2>5, ChosenIs
    <3>2. PICK k : k = [s \in SUBSET u |-> SumOf(k, f, s)]
      BY <3>1, <1>4 DEF Has
    <3> DEFINE gu == CHOOSE g1 : g1 = [s \in SUBSET u |-> SumOf(g1, f, s)]
    <3>3. gu = [s \in SUBSET u |-> SumOf(gu, f, s)]
      BY <3>2
    <3>4. G[u] = gu[u]
      BY <3>1 DEF G
    <3>5. Obeys(gu, f, u) /\ Obeys(gt, f, u)
      BY <3>1, <3>3, <2>2 DEF Obeys
    <3>6. IsFiniteSet(u)
      BY <1>3, <3>1, FS_Subset
    <3> HIDE DEF gu, u
    <3>7. gu[u] = gt[u]
      BY <3>5, <3>6, SumUnique
    <3> QED  BY <2>3, <2>5, <3>4, <3>7 DEF SumOf, u
  <2> QED  BY <2>4, <2>5
<1>6. \A s \in SUBSET m : SumOf(h, f, s) = SumOf(G, f, s)
  <2> SUFFICES ASSUME NEW s \in SUBSET m
               PROVE  SumOf(h, f, s) = SumOf(G, f, s)
    OBVIOUS
  <2>1. CASE s = {}
    BY <2>1 DEF SumOf
  <2>2. CASE s # {}
    <3>1. s \ {Chosen(s)} \in SUBSET m /\ s \ {Chosen(s)} # m
      BY <2>2, ChosenIs
    <3>2. h[s \ {Chosen(s)}] = G[s \ {Chosen(s)}]
      BY <3>1, <1>5
    <3> HIDE DEF h, G
    <3> QED  BY <2>2, <3>2 DEF SumOf
  <2> QED  BY <2>1, <2>2
<1>7. h = [s \in SUBSET m |-> SumOf(h, f, s)]
  BY <1>6
<1> QED  BY <1>3, <1>7 DEF Has

LEMMA SumRec ==
  ASSUME NEW f, NEW S, IsFiniteSet(S)
  PROVE  Sum(f, S) = IF S = {} THEN 0 ELSE f[Chosen(S)] + Sum(f, S \ {Chosen(S)})
<1> DEFINE g == CHOOSE g1 : g1 = [s \in SUBSET S |-> SumOf(g1, f, s)]
           R == S \ {Chosen(S)}
           h == CHOOSE g1 : g1 = [s \in SUBSET R |-> SumOf(g1, f, s)]
<1>1. g = [s \in SUBSET S |-> SumOf(g, f, s)]
  BY SumExists
<1>2. Sum(f, S) = g[S] /\ g[S] = SumOf(g, f, S)
  BY <1>1 DEF Sum
<1>3. CASE S = {}
  BY <1>2, <1>3 DEF SumOf
<1>4. CASE S # {}
  <2>1. IsFiniteSet(R)
    BY FS_Subset
  <2>2. h = [s \in SUBSET R |-> SumOf(h, f, s)]
    BY <2>1, SumExists
  <2>3. Obeys(g, f, R) /\ Obeys(h, f, R)
    BY <1>1, <2>2 DEF Obeys
  <2>4. Sum(f, R) = h[R]
    BY DEF Sum
  <2> HIDE DEF g, h, R
  <2>6. g[R] = h[R]
    BY <2>1, <2>3, SumUnique
  <2> QED  BY <1>2, <1>4, <2>4, <2>6 DEF SumOf, R
<1> QED  BY <1>3, <1>4

LEMMA SumType ==
  ASSUME NEW S, IsFiniteSet(S), NEW f, \A x \in S : f[x] \in Nat
  PROVE  Sum(f, S) \in Nat
<1> DEFINE T == {s \in SUBSET S : Sum(f, s) \notin Nat}
<1> SUFFICES ASSUME Sum(f, S) \notin Nat PROVE FALSE
  OBVIOUS
<1>1. T \in SUBSET SUBSET S /\ T # {}
  OBVIOUS
<1> HIDE DEF T
<1>2. PICK m \in T : \A s \in SUBSET m : s # m => s \notin T
  BY <1>1, Smallest
<1>3. m \in SUBSET S /\ Sum(f, m) \notin Nat /\ IsFiniteSet(m)
  BY FS_Subset DEF T
<1>4. m # {}
  <2>1. m = {} => Sum(f, m) = 0
    BY <1>3, SumRec
  <2> QED  BY <1>3, <2>1
<1>5. Chosen(m) \in m /\ Sum(f, m) = f[Chosen(m)] + Sum(f, m \ {Chosen(m)})
  BY <1>3, <1>4, SumRec, ChosenIs
<1>6. Sum(f, m \ {Chosen(m)}) \in Nat
  BY <1>2, <1>3, <1>5 DEF T
<1>7. f[Chosen(m)] \in Nat
  BY <1>3, <1>5
<1>8. f[Chosen(m)] + Sum(f, m \ {Chosen(m)}) \in Nat
  BY ONLY <1>6, <1>7
<1> QED  BY <1>3, <1>5, <1>8

(* The order of the additions does not matter.                             *)
LEMMA SumPull ==
  ASSUME NEW S, IsFiniteSet(S), NEW f, \A y \in S : f[y] \in Nat
  PROVE  \A x \in S : Sum(f, S) = f[x] + Sum(f, S \ {x})
<1> DEFINE Agrees(s) == \A x \in s : Sum(f, s) = f[x] + Sum(f, s \ {x})
           T == {s \in SUBSET S : ~Agrees(s)}
<1> SUFFICES ASSUME ~Agrees(S) PROVE FALSE
  OBVIOUS
<1>1. T \in SUBSET SUBSET S /\ T # {}
  OBVIOUS
<1> HIDE DEF T
<1>2. PICK m \in T : \A s \in SUBSET m : s # m => s \notin T
  BY <1>1, Smallest
<1>3. m \in SUBSET S /\ ~Agrees(m) /\ IsFiniteSet(m)
  BY FS_Subset DEF T
<1>4. PICK x \in m : Sum(f, m) # f[x] + Sum(f, m \ {x})
  BY <1>3
<1> DEFINE c == Chosen(m)
           r == m \ {c}
           q == m \ {x}
           b == (m \ {x}) \ {c}
<1>5. c \in m /\ Sum(f, m) = f[c] + Sum(f, r)
  BY <1>3, <1>4, SumRec, ChosenIs
<1>6. c # x
  BY <1>4, <1>5
<1>7. \A s \in SUBSET m : s # m => Agrees(s)
  BY <1>2, <1>3 DEF T
<1> HIDE DEF c
<1>8. Sum(f, r) = f[x] + Sum(f, b)
  <2>1. r \in SUBSET m /\ r # m /\ x \in r /\ r \ {x} = b
    BY <1>4, <1>5, <1>6
  <2> QED  BY <2>1, <1>7
<1>9. Sum(f, q) = f[c] + Sum(f, b)
  <2>1. q \in SUBSET m /\ q # m /\ c \in q /\ q \ {c} = b
    BY <1>4, <1>5, <1>6
  <2> QED  BY <2>1, <1>7
<1>10. f[x] \in Nat /\ f[c] \in Nat /\ Sum(f, b) \in Nat
  <2>1. b \in SUBSET S /\ IsFiniteSet(b)
    BY <1>3, FS_Subset
  <2> QED  BY <1>3, <1>4, <1>5, <2>1, SumType
<1>11. f[c] + (f[x] + Sum(f, b)) = f[x] + (f[c] + Sum(f, b))
  BY ONLY <1>10
<1> QED  BY <1>4, <1>5, <1>8, <1>9, <1>11

LEMMA SumMonotone ==
  ASSUME NEW T, IsFiniteSet(T), NEW f, NEW g, NEW S, S \subseteq T,
         \A x \in S : f[x] \in Nat, \A x \in T : g[x] \in Nat, \A x \in S : f[x] <= g[x]
  PROVE  Sum(f, S) <= Sum(g, T)
<1> DEFINE Agrees(t) == Sum(f, S \cap t) <= Sum(g, t)
           U == {t \in SUBSET T : ~Agrees(t)}
<1>0. S \cap T = S
  OBVIOUS
<1> SUFFICES ASSUME ~Agrees(T) PROVE FALSE
  BY <1>0
<1>1. U \in SUBSET SUBSET T /\ U # {}
  OBVIOUS
<1> HIDE DEF U
<1>2. PICK m \in U : \A s \in SUBSET m : s # m => s \notin U
  BY <1>1, Smallest
<1>3. m \in SUBSET T /\ ~Agrees(m) /\ IsFiniteSet(m) /\ IsFiniteSet(S \cap m)
  BY FS_Subset DEF U
<1> DEFINE c == Chosen(m)
           r == m \ {c}
<1>4. m # {}
  <2>1. Sum(f, {}) = 0 /\ Sum(g, {}) = 0
    BY SumRec, FS_EmptySet
  <2>2. S \cap {} = {}
    OBVIOUS
  <2> QED  BY <1>3, <2>1, <2>2
<1>5. c \in m /\ Sum(g, m) = g[c] + Sum(g, r)
  BY <1>3, <1>4, SumRec, ChosenIs
<1> HIDE DEF c
<1>6. Sum(f, S \cap r) <= Sum(g, r)
  <2>1. r \in SUBSET m /\ r # m /\ r \in SUBSET T
    BY <1>3, <1>5
  <2> QED  BY <2>1, <1>2 DEF U
<1>7. Sum(f, S \cap r) \in Nat /\ Sum(g, r) \in Nat
  <2>1. r \in SUBSET T /\ IsFiniteSet(r) /\ IsFiniteSet(S \cap r)
    BY <1>3, FS_Subset
  <2> QED  BY <2>1, SumType
<1>8. g[c] \in Nat
  BY <1>3, <1>5
<1>9. CASE c \in S
  <2>1. Sum(f, S \cap m) = f[c] + Sum(f, (S \cap m) \ {c})
    BY <1>3, <1>5, <1>9, SumPull
  <2>2. (S \cap m) \ {c} = S \cap r
    OBVIOUS
  <2>3. f[c] \in Nat /\ f[c] <= g[c]
    BY <1>9
  <2>4. f[c] + Sum(f, S \cap r) <= g[c] + Sum(g, r)
    BY ONLY <2>3, <1>6, <1>7, <1>8
  <2> QED  BY <1>3, <1>5, <2>1, <2>2, <2>4
<1>10. CASE c \notin S
  <2>1. S \cap m = S \cap r
    BY <1>10
  <2>2. Sum(f, S \cap r) <= g[c] + Sum(g, r)
    BY ONLY <1>6, <1>7, <1>8
  <2> QED  BY <1>3, <1>5, <2>1, <2>2
<1> QED  BY <1>9, <1>10

LEMMA SumSame ==
  ASSUME NEW S, IsFiniteSet(S), NEW f, NEW g,
         \A x \in S : f[x] \in Nat /\ f[x] = g[x]
  PROVE  Sum(f, S) = Sum(g, S)
<1>1. \A x \in S : f[x] \in Nat /\ g[x] \in Nat /\ f[x] <= g[x] /\ g[x] <= f[x]
  OBVIOUS
<1>2. Sum(f, S) <= Sum(g, S) /\ Sum(g, S) <= Sum(f, S)
  BY <1>1, SumMonotone
<1>3. Sum(f, S) \in Nat /\ Sum(g, S) \in Nat
  BY <1>1, SumType
<1> QED  BY ONLY <1>2, <1>3

(* The fold of the library is this sum.                                    *)
LEMMA CacheSum == \A f, S : Cache!MapThenSumSet(LAMBDA k : f[k], S) = Sum(f, S)
<1> SUFFICES ASSUME NEW f, NEW S
             PROVE  Cache!MapThenSumSet(LAMBDA k : f[k], S) = Sum(f, S)
  OBVIOUS
<1> QED  BY Zenon DEF Cache!MapThenSumSet, Cache!MapThenFoldSet, Sum, SumOf, Chosen

LEMMA BranchSum == \A f, S : Branches!MapThenSumSet(LAMBDA k : f[k], S) = Sum(f, S)
<1> SUFFICES ASSUME NEW f, NEW S
             PROVE  Branches!MapThenSumSet(LAMBDA k : f[k], S) = Sum(f, S)
  OBVIOUS
<1> QED  BY Zenon DEF Branches!MapThenSumSet, Branches!MapThenFoldSet, Sum, SumOf, Chosen

-----------------------------------------------------------------------------
(* The tails of KeyedTails: `at` says under which key a party stands, none *)
(* for one that stands nowhere.  Who stands under a key stands in one line *)
(* that ends with its tail, each waiting for the one before it; along the  *)
(* line the ranks grow.                                                    *)
Ranked(r, prior, P, no) ==
  /\ r \in [P -> Nat]
  /\ \A p \in P : prior[p] # no => r[prior[p]] < r[p]

Lined(at, tail, prior, K, P, no, none) ==
  /\ at \in [P -> K \cup {none}] /\ tail \in [K -> P \cup {no}] /\ prior \in [P -> P \cup {no}]
  /\ \A k \in K : tail[k] # no => at[tail[k]] = k
  /\ \A p \in P : at[p] # none => tail[at[p]] # no
  /\ \A p \in P : prior[p] # no => at[p] # none /\ at[prior[p]] = at[p]
  /\ \A p, q \in P : prior[p] = prior[q] /\ prior[p] # no => p = q
  /\ \A p, q \in P : p # q /\ at[p] = at[q] /\ at[p] # none => prior[p] # no \/ prior[q] # no
  /\ \A k \in K, q \in P : prior[q] = tail[k] => tail[k] = no
  /\ \E r : Ranked(r, prior, P, no)

LEMMA SmallestNumber ==
  ASSUME NEW T \in SUBSET Nat, T # {}
  PROVE  \E m \in T : \A n \in T : m <= n
<1>1. PICK m \in T : \A n \in T : <<n, m>> \notin OpToRel(<, Nat)
  BY NatLessThanWellFounded, WFMin
<1>2. \A n \in T : ~(n < m)
  BY <1>1 DEF OpToRel
<1> QED  BY <1>2

(* Who waits for nobody and is the tail stands alone.                      *)
LEMMA LastIsAlone ==
  ASSUME NEW K, NEW P, NEW no, NEW none, no \notin P, none \notin K,
         NEW at, NEW tail, NEW prior, Lined(at, tail, prior, K, P, no, none),
         NEW p \in P, at[p] # none, prior[p] = no, tail[at[p]] = p
  PROVE  \A q \in P : at[q] = at[p] => q = p
<1> USE DEF Lined
<1>1. PICK r : Ranked(r, prior, P, no)
  OBVIOUS
<1> DEFINE S == {q \in P : at[q] = at[p] /\ q # p}
           T == {r[q] : q \in S}
<1> SUFFICES ASSUME S # {} PROVE FALSE
  OBVIOUS
<1>2. T \in SUBSET Nat /\ T # {}
  BY <1>1 DEF Ranked
<1> HIDE DEF T
<1>3. PICK m \in T : \A n \in T : m <= n
  BY <1>2, SmallestNumber
<1>4. PICK q \in S : r[q] = m
  BY DEF T
<1>5. prior[q] # no /\ prior[q] \in P /\ at[prior[q]] = at[q]
  BY <1>4
<1>6. prior[q] # p
  BY <1>4
<1>7. prior[q] \in S
  BY <1>4, <1>5, <1>6
<1>8. r[prior[q]] < r[q] /\ r[prior[q]] \in Nat /\ r[q] \in Nat
  BY <1>1, <1>4, <1>5 DEF Ranked
<1>9. m <= r[prior[q]]
  BY <1>3, <1>7 DEF T
<1> QED  BY <1>4, <1>8, <1>9

LEMMA JoinLines ==
  ASSUME NEW K, NEW P, NEW no, NEW none, no \notin P, none \notin K,
         NEW at, NEW tail, NEW prior, Lined(at, tail, prior, K, P, no, none),
         NEW p \in P, NEW k \in K, at[p] = none
  PROVE  Lined([at EXCEPT ![p] = k], [tail EXCEPT ![k] = p], [prior EXCEPT ![p] = tail[k]], K, P, no, none)
<1> DEFINE at1 == [at EXCEPT ![p] = k]
           tail1 == [tail EXCEPT ![k] = p]
           prior1 == [prior EXCEPT ![p] = tail[k]]
<1>0. /\ at \in [P -> K \cup {none}] /\ tail \in [K -> P \cup {no}] /\ prior \in [P -> P \cup {no}]
      /\ \A q \in P : at1[q] = IF q = p THEN k ELSE at[q]
      /\ \A q \in P : prior1[q] = IF q = p THEN tail[k] ELSE prior[q]
      /\ \A l \in K : tail1[l] = IF l = k THEN p ELSE tail[l]
      /\ at1 \in [P -> K \cup {none}] /\ tail1 \in [K -> P \cup {no}] /\ prior1 \in [P -> P \cup {no}]
  BY DEF Lined
<1> HIDE DEF at1, tail1, prior1
<1>1. \A q \in P : prior[q] # p
  BY <1>0 DEF Lined
<1>2. \A l \in K : tail[l] # p
  BY DEF Lined
<1>3. \A l \in K : tail1[l] # no => at1[tail1[l]] = l
  BY <1>0, <1>2 DEF Lined
<1>4. \A q \in P : at1[q] # none => tail1[at1[q]] # no
  BY <1>0 DEF Lined
<1>5. \A q \in P : prior1[q] # no => at1[q] # none /\ at1[prior1[q]] = at1[q]
  BY <1>0, <1>1, <1>2 DEF Lined
<1>6. \A q, s \in P : prior1[q] = prior1[s] /\ prior1[q] # no => q = s
  BY <1>0 DEF Lined
<1>7. \A q, s \in P : q # s /\ at1[q] = at1[s] /\ at1[q] # none => prior1[q] # no \/ prior1[s] # no
  BY <1>0 DEF Lined
<1>8. \A l \in K, q \in P : prior1[q] = tail1[l] => tail1[l] = no
  <2> SUFFICES ASSUME NEW l \in K, NEW q \in P, prior1[q] = tail1[l], tail1[l] # no PROVE FALSE
    OBVIOUS
  <2>1. CASE l = k
    BY <1>0, <1>1, <1>2, <2>1
  <2>2. CASE l # k /\ q # p
    BY <1>0, <2>2 DEF Lined
  <2>3. CASE l # k /\ q = p
    BY <1>0, <2>3 DEF Lined
  <2> QED  BY <2>1, <2>2, <2>3
<1>9. \E r : Ranked(r, prior1, P, no)
  <2>1. PICK r : Ranked(r, prior, P, no)
    BY DEF Lined
  <2> DEFINE s == [r EXCEPT ![p] = IF tail[k] = no THEN 0 ELSE r[tail[k]] + 1]
  <2>2. s \in [P -> Nat]
    BY <2>1, <1>0 DEF Ranked
  <2>3. \A q \in P : s[q] = IF q = p THEN (IF tail[k] = no THEN 0 ELSE r[tail[k]] + 1) ELSE r[q]
    BY <2>1 DEF Ranked
  <2> HIDE DEF s
  <2>4. ASSUME NEW q \in P, prior1[q] # no PROVE s[prior1[q]] < s[q]
    <3>1. CASE q = p
      <4>1. tail[k] \in P /\ tail[k] # p /\ prior1[q] = tail[k]
        BY <1>0, <1>2, <2>4, <3>1
      <4>2. r[tail[k]] \in Nat /\ s[prior1[q]] = r[tail[k]] /\ s[q] = r[tail[k]] + 1
        BY <4>1, <2>1, <2>3, <2>4, <1>0, <3>1 DEF Ranked
      <4> QED  BY <4>2
    <3>2. CASE q # p
      BY <1>0, <1>1, <2>1, <2>3, <2>4, <3>2 DEF Ranked
    <3> QED  BY <3>1, <3>2
  <2> QED  BY <2>2, <2>4 DEF Ranked
<1>10. Lined(at1, tail1, prior1, K, P, no, none)
  BY ONLY <1>0, <1>3, <1>4, <1>5, <1>6, <1>7, <1>8, <1>9 DEF Lined
<1> QED  BY <1>10 DEF at1, tail1, prior1

LEMMA LeaveLines ==
  ASSUME NEW K, NEW P, NEW no, NEW none, no \notin P, none \notin K,
         NEW at, NEW tail, NEW prior, Lined(at, tail, prior, K, P, no, none),
         NEW p \in P, at[p] # none, prior[p] = no
  PROVE  Lined([at EXCEPT ![p] = none], [tail EXCEPT ![at[p]] = IF @ = p THEN no ELSE @],
               [q \in P |-> IF prior[q] = p THEN no ELSE prior[q]], K, P, no, none)
<1> DEFINE k == at[p]
           at1 == [at EXCEPT ![p] = none]
           tail1 == [tail EXCEPT ![at[p]] = IF @ = p THEN no ELSE @]
           prior1 == [q \in P |-> IF prior[q] = p THEN no ELSE prior[q]]
<1>0. /\ at \in [P -> K \cup {none}] /\ tail \in [K -> P \cup {no}] /\ prior \in [P -> P \cup {no}] /\ k \in K
      /\ \A q \in P : at1[q] = IF q = p THEN none ELSE at[q]
      /\ \A q \in P : prior1[q] = IF prior[q] = p THEN no ELSE prior[q]
      /\ \A l \in K : tail1[l] = IF l = k /\ tail[k] = p THEN no ELSE tail[l]
      /\ at1 \in [P -> K \cup {none}] /\ tail1 \in [K -> P \cup {no}] /\ prior1 \in [P -> P \cup {no}]
  BY DEF Lined
<1> HIDE DEF at1, tail1, prior1
<1>1. \A l \in K : tail[l] = p => l = k
  BY <1>0 DEF Lined
<1>2. tail[k] = p => \A q \in P : at[q] = k => q = p
  BY LastIsAlone
<1>3. \A l \in K : tail1[l] # no => at1[tail1[l]] = l
  BY <1>0, <1>1 DEF Lined
<1>4. \A q \in P : at1[q] # none => tail1[at1[q]] # no
  BY <1>0, <1>2 DEF Lined
<1>5. \A q \in P : prior1[q] # no => at1[q] # none /\ at1[prior1[q]] = at1[q]
  BY <1>0 DEF Lined
<1>6. \A q, s \in P : prior1[q] = prior1[s] /\ prior1[q] # no => q = s
  BY <1>0 DEF Lined
<1>7. \A q, s \in P : q # s /\ at1[q] = at1[s] /\ at1[q] # none => prior1[q] # no \/ prior1[s] # no
  <2> SUFFICES ASSUME NEW q \in P, NEW s \in P, q # s, at1[q] = at1[s], at1[q] # none,
                      prior1[q] = no, prior1[s] = no
               PROVE  FALSE
    OBVIOUS
  <2>1. q # p /\ s # p /\ at[q] = at[s] /\ at[q] # none
    BY <1>0
  <2>2. prior[q] \in {no, p} /\ prior[s] \in {no, p}
    BY <1>0
  <2>3. CASE at[q] = k
    BY <1>0, <2>1, <2>2, <2>3 DEF Lined
  <2>4. CASE at[q] # k
    BY <1>0, <2>1, <2>2, <2>4 DEF Lined
  <2> QED  BY <2>3, <2>4
<1>8. \A l \in K, q \in P : prior1[q] = tail1[l] => tail1[l] = no
  BY <1>0 DEF Lined
<1>9. \E r : Ranked(r, prior1, P, no)
  <2>1. PICK r : Ranked(r, prior, P, no)
    BY DEF Lined
  <2> QED  BY <1>0, <2>1 DEF Ranked
<1>10. Lined(at1, tail1, prior1, K, P, no, none)
  BY ONLY <1>0, <1>3, <1>4, <1>5, <1>6, <1>7, <1>8, <1>9 DEF Lined
<1> QED  BY <1>10 DEF at1, tail1, prior1

-----------------------------------------------------------------------------
(* The git cache.  A user stands under the key it acquires, an evictor     *)
(* under that of its victim.                                               *)
Standing == [p \in CacheParties |-> IF p \in CacheUsers THEN user[p].key ELSE user[p[2]].victim]
CacheLines == Lined(Standing, cTail, cPrior, CacheKeys, CacheParties, nobody, Cache!NoKey)

(* A user has a key while it is there, a victim while it deletes.          *)
KeysFit == \A u \in CacheUsers : /\ user[u].key = Cache!NoKey <=> user[u].pc = "out"
                                 /\ user[u].victim = Cache!NoKey <=> user[u].pc # "deleting"

(* Who has the directory, or deletes it, is first.                         *)
TurnsHold == \A u \in CacheUsers : /\ Cache!Holding(u) => cPrior[u] = nobody
                                   /\ user[u].pc = "deleting" => cPrior[MCEvictor(u)] = nobody

CacheCore == Cache!CacheTypeOK /\ CacheLines /\ KeysFit /\ TurnsHold

LEMMA CachePartiesFit ==
  /\ nobody \notin CacheParties /\ Cache!NoKey \notin CacheKeys
  /\ \A u \in CacheUsers : /\ u \in CacheParties /\ MCEvictor(u) \in CacheParties
                           /\ MCEvictor(u) \notin CacheUsers
                           /\ \A v \in CacheUsers : MCEvictor(u) = MCEvictor(v) => u = v
  /\ \A p \in CacheParties : p \notin CacheUsers => \E u \in CacheUsers : p = MCEvictor(u)
  /\ \A u \in CacheUsers : MCEvictor(u)[2] = u
BY StoresAssumption DEF CacheParties, MCEvictor

LEMMA StandingIs ==
  \A u \in CacheUsers : Standing[u] = user[u].key /\ Standing[MCEvictor(u)] = user[u].victim
BY CachePartiesFit DEF Standing

LEMMA StandingStays ==
  ASSUME NEW u \in CacheUsers, \A v \in CacheUsers : v # u => user'[v] = user[v],
         user'[u].key = user[u].key, user'[u].victim = user[u].victim
  PROVE  Standing' = Standing
<1>1. \A p \in CacheParties : Standing'[p] = Standing[p]
  BY CachePartiesFit DEF Standing
<1>2. Standing' = [p \in CacheParties |-> Standing'[p]] /\ Standing = [p \in CacheParties |-> Standing[p]]
  BY DEF Standing
<1> HIDE DEF Standing
<1> QED  BY <1>1, <1>2

LEMMA StandingAsUser ==
  ASSUME NEW u \in CacheUsers, \A v \in CacheUsers : v # u => user'[v] = user[v],
         user'[u].victim = user[u].victim
  PROVE  Standing' = [Standing EXCEPT ![u] = user'[u].key]
<1>1. \A p \in CacheParties : Standing'[p] = IF p = u THEN user'[u].key ELSE Standing[p]
  BY CachePartiesFit DEF Standing
<1>2. Standing' = [p \in CacheParties |-> Standing'[p]] /\ DOMAIN Standing = CacheParties
  BY DEF Standing
<1> HIDE DEF Standing
<1> QED  BY <1>1, <1>2

LEMMA StandingAsEvictor ==
  ASSUME NEW u \in CacheUsers, \A v \in CacheUsers : v # u => user'[v] = user[v],
         user'[u].key = user[u].key
  PROVE  Standing' = [Standing EXCEPT ![MCEvictor(u)] = user'[u].victim]
<1>1. \A p \in CacheParties : Standing'[p] = IF p = MCEvictor(u) THEN user'[u].victim ELSE Standing[p]
  BY CachePartiesFit DEF Standing
<1>2. Standing' = [p \in CacheParties |-> Standing'[p]] /\ DOMAIN Standing = CacheParties
  BY DEF Standing
<1> HIDE DEF Standing
<1> QED  BY <1>1, <1>2

LEMMA LinesStay ==
  ASSUME CacheLines, Standing' = Standing, UNCHANGED <<cTail, cPrior>>
  PROVE  CacheLines'
BY DEF CacheLines

(* Two who stand under one key are not both first.                         *)
LEMMA OneIsFirst ==
  ASSUME CacheCore
  PROVE  /\ Cache!OneHolder
         /\ \A u, v \in CacheUsers : u # v /\ Cache!Holding(u) /\ Cache!Holding(v) => user[u].key # user[v].key
         /\ \A u, v \in CacheUsers : user[u].pc = "deleting" /\ Cache!Holding(v) => user[u].victim # user[v].key
<1>1. \A p, q \in CacheParties : p # q /\ Standing[p] = Standing[q] /\ Standing[p] # Cache!NoKey
                                   => cPrior[p] # nobody \/ cPrior[q] # nobody
  BY DEF CacheCore, CacheLines, Lined
<1>2. \A u, v \in CacheUsers : u # v /\ Cache!Holding(u) /\ Cache!Holding(v) => user[u].key # user[v].key
  BY <1>1, StandingIs, CachePartiesFit DEF CacheCore, KeysFit, TurnsHold, Cache!Holding
<1>3. \A u, v \in CacheUsers : user[u].pc = "deleting" /\ Cache!Holding(v) => user[u].victim # user[v].key
  BY <1>1, StandingIs, CachePartiesFit DEF CacheCore, KeysFit, TurnsHold, Cache!Holding
<1> QED  BY <1>2, <1>3 DEF Cache!OneHolder

(* Every step keeps the lines, the keys and the turns.                     *)
LEMMA CacheCoreStep ==
  ASSUME CacheCore, Cache!CacheNext
  PROVE  CacheCore'
<1> USE StoresAssumption DEF Cache!CacheTypeOK, Cache!Steps, Cache!NoKey, Cache!Goto, Cache!Fault
<1>1. ASSUME NEW u \in CacheUsers, NEW k \in CacheKeys, Cache!Acquire(u, k)
      PROVE  CacheCore'
  <2>0. /\ cTail' \in [CacheKeys -> CacheParties \cup {nobody}]
        /\ cPrior' \in [CacheParties -> CacheParties \cup {nobody}]
    BY <1>1, CachePartiesFit DEF CacheCore, Cache!Acquire, Cache!Join
  <2>a. user' \in [CacheUsers -> [pc : Cache!Steps, key : CacheKeys \cup {Cache!NoKey},
                                     victim : CacheKeys \cup {Cache!NoKey}, candidates : SUBSET CacheKeys]]
    <3>1. user \in [CacheUsers -> [pc : Cache!Steps, key : CacheKeys \cup {Cache!NoKey},
                                   victim : CacheKeys \cup {Cache!NoKey}, candidates : SUBSET CacheKeys]]
      BY DEF CacheCore
    <3>2. user' = [user EXCEPT ![u] = [user[u] EXCEPT !.pc = "waiting", !.key = k]]
      BY <1>1, <3>1 DEF Cache!Acquire
    <3>3. [user[u] EXCEPT !.pc = "waiting", !.key = k]
            \in [pc : Cache!Steps, key : CacheKeys \cup {Cache!NoKey},
                 victim : CacheKeys \cup {Cache!NoKey}, candidates : SUBSET CacheKeys]
      BY ONLY <3>1, u \in CacheUsers, k \in CacheKeys DEF Cache!Steps
    <3> QED  BY ONLY <3>1, <3>2, <3>3, u \in CacheUsers
  <2>b. UNCHANGED <<size, disk, active, shutting, unlocked, broken, fitted>>
    BY <1>1 DEF Cache!Acquire
  <2>1. Cache!CacheTypeOK'
    BY <2>a, <2>b, <2>0 DEF CacheCore
  <2>2. /\ user'[u].pc = "waiting" /\ user'[u].key = k /\ user'[u].victim = user[u].victim
        /\ \A v \in CacheUsers : v # u => user'[v] = user[v]
        /\ user[u].pc = "out" /\ user[u].key = Cache!NoKey
    BY <1>1 DEF CacheCore, Cache!Acquire, KeysFit
  <2>3. CacheLines'
    <3>1. Standing' = [Standing EXCEPT ![u] = k]
      BY <2>2, StandingAsUser
    <3>2. Standing[u] = Cache!NoKey
      BY <2>2, StandingIs
    <3> QED  BY <1>1, <3>1, <3>2, CachePartiesFit, JoinLines DEF CacheCore, CacheLines, Cache!Acquire, Cache!Join
  <2>4. KeysFit'
    BY <2>2 DEF CacheCore, KeysFit
  <2>5. TurnsHold'
    BY <1>1, <2>2, CachePartiesFit DEF CacheCore, TurnsHold, KeysFit, Cache!Holding, Cache!Acquire, Cache!Join
  <2> QED  BY <2>1, <2>3, <2>4, <2>5 DEF CacheCore
<1>2. ASSUME NEW u \in CacheUsers, Cache!Turn(u)
      PROVE  CacheCore'
  <2> DEFINE k == user[u].key
             C == {d \in Cache!Listed : d # k /\ Cache!Evictable(d)}
  <2>0. k \in CacheKeys /\ C \subseteq CacheKeys
    BY <1>2 DEF CacheCore, Cache!Turn, KeysFit, Cache!Listed
  <2>a. /\ user' = [user EXCEPT ![u].pc = "making"] \/ user' = [user EXCEPT ![u].pc = "releasing"]
           \/ user' = [user EXCEPT ![u].pc = "listing", ![u].candidates = C]
        /\ size' = size \/ size' = Cache!Charged(k)
        /\ active' = active \/ active' = active \cup {k}
        /\ fitted' = fitted \/ fitted' = (fitted \/ Cache!Fits(Cache!Charged(k)))
        /\ UNCHANGED <<cTail, cPrior, disk, shutting, unlocked, broken>>
    BY <1>2 DEF Cache!Turn
  <2> HIDE DEF C
  <2>b. user' \in [CacheUsers -> [pc : Cache!Steps, key : CacheKeys \cup {Cache!NoKey},
                                  victim : CacheKeys \cup {Cache!NoKey}, candidates : SUBSET CacheKeys]]
    BY <2>0, <2>a DEF CacheCore
  <2>c. size' \in [CacheKeys -> 0 .. MaxDisk]
    BY <2>0, <2>a DEF CacheCore, Cache!Charged
  <2>d. fitted' \in BOOLEAN
    BY Zenon, <2>a DEF CacheCore, Cache!CacheTypeOK
  <2>1. Cache!CacheTypeOK'
    BY <2>0, <2>a, <2>b, <2>c, <2>d DEF CacheCore
  <2>2. /\ user'[u].pc \in {"listing", "making", "releasing"}
        /\ user'[u].key = user[u].key /\ user'[u].victim = user[u].victim
        /\ \A v \in CacheUsers : v # u => user'[v] = user[v]
        /\ user[u].pc = "waiting" /\ cPrior[u] = nobody /\ UNCHANGED <<cTail, cPrior>>
    BY <1>2 DEF CacheCore, Cache!Turn, Cache!First
  <2>3. CacheLines'
    BY <2>2, StandingStays, LinesStay DEF CacheCore
  <2>4. KeysFit' /\ TurnsHold'
    BY <2>2 DEF CacheCore, KeysFit, TurnsHold, Cache!Holding
  <2> QED  BY <2>1, <2>3, <2>4 DEF CacheCore
<1>3. ASSUME NEW u \in CacheUsers, Cache!List(u)
      PROVE  CacheCore'
  <2>1. /\ user[u].pc = "listing" /\ user'[u].pc \in {"evicting", "releasing"}
        /\ user'[u].key = user[u].key /\ user'[u].victim = user[u].victim
        /\ \A v \in CacheUsers : v # u => user'[v] = user[v]
        /\ UNCHANGED <<cTail, cPrior>>
    BY <1>3 DEF CacheCore, Cache!List
  <2>2. Cache!CacheTypeOK'
    BY <1>3 DEF CacheCore, Cache!List
  <2>3. CacheLines'
    BY <2>1, StandingStays, LinesStay DEF CacheCore
  <2>4. KeysFit' /\ TurnsHold'
    BY <2>1 DEF CacheCore, KeysFit, TurnsHold, Cache!Holding
  <2> QED  BY <2>2, <2>3, <2>4 DEF CacheCore
<1>4. ASSUME NEW u \in CacheUsers, Cache!Evict(u)
      PROVE  CacheCore'
  <2>0. user[u].pc = "evicting" /\ UNCHANGED <<size, disk, shutting, unlocked, broken>> /\ fitted' \in BOOLEAN
    BY <1>4 DEF CacheCore, Cache!Evict
  <2>1. CASE user[u].candidates = {}
    <3>1. /\ user'[u].pc \in {"making", "releasing"} /\ user'[u].key = user[u].key /\ user'[u].victim = user[u].victim
          /\ \A v \in CacheUsers : v # u => user'[v] = user[v]
          /\ UNCHANGED <<cTail, cPrior>>
      BY <1>4, <2>1 DEF CacheCore, Cache!Evict
    <3>2. Cache!CacheTypeOK'
      BY <1>4, <2>1 DEF CacheCore, Cache!Evict
    <3>3. CacheLines'
      BY <3>1, StandingStays, LinesStay DEF CacheCore
    <3>4. KeysFit' /\ TurnsHold'
      BY <2>0, <3>1 DEF CacheCore, KeysFit, TurnsHold, Cache!Holding
    <3> QED  BY <3>2, <3>3, <3>4 DEF CacheCore
  <2>2. CASE user[u].candidates # {}
    <3> PICK k \in user[u].candidates :
               IF Cache!StillEvictable(k)
               THEN /\ active' = active \cup {k} /\ Cache!Join(k, MCEvictor(u))
                    /\ user' = [user EXCEPT ![u].pc = "deleting", ![u].victim = k, ![u].candidates = @ \ {k}]
               ELSE /\ user' = [user EXCEPT ![u].candidates = @ \ {k}]
                    /\ UNCHANGED <<cTail, cPrior, active>>
      BY <1>4, <2>2 DEF Cache!Evict
    <3>0. k \in CacheKeys
      BY DEF CacheCore
    <3>1. CASE Cache!StillEvictable(k)
      <4>1. /\ user'[u].pc = "deleting" /\ user'[u].key = user[u].key /\ user'[u].victim = k
            /\ \A v \in CacheUsers : v # u => user'[v] = user[v]
            /\ user[u].victim = Cache!NoKey
        BY <2>0, <3>1 DEF CacheCore, KeysFit
      <4>2. cTail[k] = nobody /\ Cache!Join(k, MCEvictor(u)) /\ active' = active \cup {k}
        BY <3>1 DEF Cache!StillEvictable, Cache!Evictable, Cache!Tailed
      <4>3. Cache!CacheTypeOK'
        BY <2>0, <3>0, <3>1, <4>2, CachePartiesFit DEF CacheCore, Cache!Join
      <4>4. CacheLines'
        <5>1. Standing' = [Standing EXCEPT ![MCEvictor(u)] = k]
          BY <4>1, StandingAsEvictor
        <5>2. Standing[MCEvictor(u)] = Cache!NoKey
          BY <4>1, StandingIs
        <5> QED  BY <3>0, <4>2, <5>1, <5>2, CachePartiesFit, JoinLines DEF CacheCore, CacheLines, Cache!Join
      <4>5. KeysFit'
        BY <2>0, <3>0, <4>1 DEF CacheCore, KeysFit
      <4>6. TurnsHold'
        BY <2>0, <4>1, <4>2, CachePartiesFit DEF CacheCore, TurnsHold, Cache!Holding, Cache!Join
      <4> QED  BY <4>3, <4>4, <4>5, <4>6 DEF CacheCore
    <3>2. CASE ~Cache!StillEvictable(k)
      <4>1. /\ user'[u].pc = user[u].pc /\ user'[u].key = user[u].key /\ user'[u].victim = user[u].victim
            /\ \A v \in CacheUsers : v # u => user'[v] = user[v]
            /\ UNCHANGED <<cTail, cPrior, active>>
        BY <3>2 DEF CacheCore
      <4>2. Cache!CacheTypeOK'
        BY <2>0, <3>2, <4>1 DEF CacheCore
      <4>3. CacheLines'
        BY <4>1, StandingStays, LinesStay DEF CacheCore
      <4>4. KeysFit' /\ TurnsHold'
        BY <4>1 DEF CacheCore, KeysFit, TurnsHold, Cache!Holding
      <4> QED  BY <4>2, <4>3, <4>4 DEF CacheCore
    <3> QED  BY <3>1, <3>2
  <2> QED  BY <2>1, <2>2
<1>5. ASSUME NEW u \in CacheUsers, Cache!Evicted(u)
      PROVE  CacheCore'
  <2>1. /\ user[u].pc = "deleting" /\ user[u].victim \in CacheKeys
        /\ user'[u].pc \in {"making", "evicting", "releasing"}
        /\ user'[u].key = user[u].key /\ user'[u].victim = Cache!NoKey
        /\ \A v \in CacheUsers : v # u => user'[v] = user[v]
        /\ Cache!Leave(user[u].victim, MCEvictor(u))
    BY <1>5 DEF CacheCore, KeysFit, Cache!Evicted
  <2>2. /\ size' \in [CacheKeys -> 0 .. MaxDisk] /\ disk' \in [CacheKeys -> 0 .. MaxDisk]
        /\ active' \subseteq CacheKeys
        /\ user' \in [CacheUsers -> [pc : Cache!Steps, key : CacheKeys \cup {Cache!NoKey},
                                     victim : CacheKeys \cup {Cache!NoKey}, candidates : SUBSET CacheKeys]]
        /\ shutting' \in BOOLEAN /\ unlocked' \in BOOLEAN /\ broken' \in 0 .. MaxFaults /\ fitted' \in BOOLEAN
    BY <1>5, <2>1 DEF CacheCore, Cache!Evicted, Cache!Freed
  <2>3. CacheLines'
    <3>1. Standing' = [Standing EXCEPT ![MCEvictor(u)] = Cache!NoKey]
      BY <2>1, StandingAsEvictor
    <3>2. Standing[MCEvictor(u)] = user[u].victim /\ user[u].victim # Cache!NoKey
      BY <2>1, StandingIs, CachePartiesFit
    <3>3. cPrior[MCEvictor(u)] = nobody
      BY <2>1 DEF CacheCore, TurnsHold
    <3>4. /\ cTail' = [cTail EXCEPT ![Standing[MCEvictor(u)]] = IF @ = MCEvictor(u) THEN nobody ELSE @]
          /\ cPrior' = [q \in CacheParties |-> IF cPrior[q] = MCEvictor(u) THEN nobody ELSE cPrior[q]]
      BY <2>1, <3>2 DEF Cache!Leave
    <3>5. Lined(Standing, cTail, cPrior, CacheKeys, CacheParties, nobody, Cache!NoKey)
      BY DEF CacheCore, CacheLines
    <3>6. MCEvictor(u) \in CacheParties /\ nobody \notin CacheParties /\ Cache!NoKey \notin CacheKeys
      BY CachePartiesFit
    <3>7. Lined([Standing EXCEPT ![MCEvictor(u)] = Cache!NoKey],
                [cTail EXCEPT ![Standing[MCEvictor(u)]] = IF @ = MCEvictor(u) THEN nobody ELSE @],
                [q \in CacheParties |-> IF cPrior[q] = MCEvictor(u) THEN nobody ELSE cPrior[q]],
                CacheKeys, CacheParties, nobody, Cache!NoKey)
      BY ONLY <3>2, <3>3, <3>5, <3>6, LeaveLines
    <3> QED  BY <3>1, <3>4, <3>7 DEF CacheLines
  <2>4. Cache!CacheTypeOK'
    BY <2>2, <2>3 DEF CacheLines, Lined
  <2>5. KeysFit'
    BY <2>1 DEF CacheCore, KeysFit
  <2>6. TurnsHold'
    BY <2>1, CachePartiesFit DEF CacheCore, TurnsHold, Cache!Holding, Cache!Leave
  <2> QED  BY <2>3, <2>4, <2>5, <2>6 DEF CacheCore
<1>6. ASSUME NEW u \in CacheUsers, Cache!Grant(u)
      PROVE  CacheCore'
  <2>1. /\ user[u].pc = "making" /\ user'[u].pc \in {"granted", "releasing"}
        /\ user'[u].key = user[u].key /\ user'[u].victim = user[u].victim
        /\ \A v \in CacheUsers : v # u => user'[v] = user[v]
        /\ UNCHANGED <<cTail, cPrior>>
    BY <1>6 DEF CacheCore, Cache!Grant
  <2>2. Cache!CacheTypeOK'
    <3>1. user[u].key \in CacheKeys /\ MaxDisk \in Nat /\ MaxDisk > 0 /\ MaxFaults \in Nat
      BY <2>1, StoresAssumption DEF CacheCore, KeysFit
    <3>2. disk' \in [CacheKeys -> 0 .. MaxDisk] /\ broken' \in 0 .. MaxFaults
      BY <1>6, <3>1 DEF CacheCore, Cache!Grant
    <3>3. user' \in [CacheUsers -> [pc : Cache!Steps, key : CacheKeys \cup {Cache!NoKey},
                                    victim : CacheKeys \cup {Cache!NoKey}, candidates : SUBSET CacheKeys]]
      BY <1>6 DEF CacheCore, Cache!Grant
    <3> QED  BY <1>6, <3>2, <3>3 DEF CacheCore, Cache!Grant
  <2>3. CacheLines'
    BY <2>1, StandingStays, LinesStay DEF CacheCore
  <2>4. KeysFit' /\ TurnsHold'
    BY <2>1 DEF CacheCore, KeysFit, TurnsHold, Cache!Holding
  <2> QED  BY <2>2, <2>3, <2>4 DEF CacheCore
<1>7. ASSUME NEW u \in CacheUsers, Cache!Done(u)
      PROVE  CacheCore'
  <2>1. /\ user[u].pc = "granted" /\ user'[u].pc = "releasing"
        /\ user'[u].key = user[u].key /\ user'[u].victim = user[u].victim
        /\ \A v \in CacheUsers : v # u => user'[v] = user[v]
        /\ UNCHANGED <<cTail, cPrior>>
    BY <1>7 DEF CacheCore, Cache!Done
  <2>2. Cache!CacheTypeOK'
    BY <1>7 DEF CacheCore, KeysFit, Cache!Done
  <2>3. CacheLines'
    BY <2>1, StandingStays, LinesStay DEF CacheCore
  <2>4. KeysFit' /\ TurnsHold'
    BY <2>1 DEF CacheCore, KeysFit, TurnsHold, Cache!Holding
  <2> QED  BY <2>2, <2>3, <2>4 DEF CacheCore
<1>8. ASSUME NEW u \in CacheUsers, Cache!Release(u)
      PROVE  CacheCore'
  <2>1. /\ user[u].pc = "releasing" /\ user[u].key \in CacheKeys /\ user[u].victim = Cache!NoKey
        /\ user' = [user EXCEPT ![u] = Cache!Out]
        /\ Cache!Leave(user[u].key, u)
    BY <1>8 DEF CacheCore, KeysFit, Cache!Release
  <2>2. /\ user'[u].pc = "out" /\ user'[u].key = Cache!NoKey /\ user'[u].victim = Cache!NoKey
        /\ \A v \in CacheUsers : v # u => user'[v] = user[v]
    BY <2>1 DEF CacheCore, Cache!Out
  <2>3. /\ size' \in [CacheKeys -> 0 .. MaxDisk] /\ disk' \in [CacheKeys -> 0 .. MaxDisk]
        /\ active' \subseteq CacheKeys /\ broken' \in 0 .. MaxFaults
    BY <1>8, <2>1 DEF CacheCore, Cache!Release, Cache!Fails, Cache!Charged
  <2>4. /\ user' \in [CacheUsers -> [pc : Cache!Steps, key : CacheKeys \cup {Cache!NoKey},
                                     victim : CacheKeys \cup {Cache!NoKey}, candidates : SUBSET CacheKeys]]
        /\ shutting' \in BOOLEAN /\ unlocked' \in BOOLEAN /\ fitted' \in BOOLEAN
    BY <1>8, <2>1 DEF CacheCore, Cache!Release, Cache!Out
  <2>5. CacheLines'
    <3>1. Standing' = [Standing EXCEPT ![u] = Cache!NoKey]
      BY <2>1, <2>2, StandingAsUser
    <3>2. Standing[u] = user[u].key /\ user[u].key # Cache!NoKey
      BY <2>1, StandingIs, CachePartiesFit
    <3>3. cPrior[u] = nobody
      BY <2>1 DEF CacheCore, TurnsHold, Cache!Holding
    <3>4. /\ cTail' = [cTail EXCEPT ![Standing[u]] = IF @ = u THEN nobody ELSE @]
          /\ cPrior' = [q \in CacheParties |-> IF cPrior[q] = u THEN nobody ELSE cPrior[q]]
      BY <2>1, <3>2 DEF Cache!Leave
    <3>5. Lined(Standing, cTail, cPrior, CacheKeys, CacheParties, nobody, Cache!NoKey)
      BY DEF CacheCore, CacheLines
    <3>6. u \in CacheParties /\ nobody \notin CacheParties /\ Cache!NoKey \notin CacheKeys
      BY CachePartiesFit
    <3>7. Lined([Standing EXCEPT ![u] = Cache!NoKey],
                [cTail EXCEPT ![Standing[u]] = IF @ = u THEN nobody ELSE @],
                [q \in CacheParties |-> IF cPrior[q] = u THEN nobody ELSE cPrior[q]],
                CacheKeys, CacheParties, nobody, Cache!NoKey)
      BY ONLY <3>2, <3>3, <3>5, <3>6, LeaveLines
    <3> QED  BY <3>1, <3>4, <3>7 DEF CacheLines
  <2>6. Cache!CacheTypeOK'
    BY <2>3, <2>4, <2>5 DEF CacheLines, Lined
  <2>7. KeysFit'
    BY <2>2 DEF CacheCore, KeysFit
  <2>8. TurnsHold'
    BY <2>1, <2>2, CachePartiesFit DEF CacheCore, TurnsHold, Cache!Holding, Cache!Leave
  <2> QED  BY <2>5, <2>6, <2>7, <2>8 DEF CacheCore
<1>9. ASSUME Cache!Close \/ Cache!Unlock
      PROVE  CacheCore'
  <2>1. UNCHANGED <<cTail, cPrior, size, disk, active, user, broken, fitted>>
    BY <1>9 DEF Cache!Close, Cache!Unlock
  <2>2. Cache!CacheTypeOK'
    BY <1>9, <2>1 DEF CacheCore, Cache!Close, Cache!Unlock
  <2>3. CacheLines' /\ KeysFit' /\ TurnsHold'
    BY <2>1 DEF CacheCore, CacheLines, Standing, KeysFit, TurnsHold, Cache!Holding
  <2> QED  BY <2>2, <2>3 DEF CacheCore
<1> QED  BY <1>1, <1>2, <1>3, <1>4, <1>5, <1>6, <1>7, <1>8, <1>9 DEF Cache!CacheNext, Cache!Proceed

(* The allowances: who looks for room or uses a directory is charged in    *)
(* full, nothing takes more than it is charged.                            *)
Least(n) == IF n <= RepositoryLimit THEN n ELSE RepositoryLimit
FullyCharged == \A u \in CacheUsers :
  user[u].pc \in {"listing", "evicting", "deleting", "making", "granted"} => size[user[u].key] = RepositoryLimit
Covered == \A k \in CacheKeys : Least(disk[k]) <= size[k]
Marked == \A k \in active : \E u \in CacheUsers : (Cache!Holding(u) /\ user[u].key = k) \/ user[u].victim = k
Locked == unlocked => shutting /\ \A u \in CacheUsers : user[u].pc = "out"

(* Charges that are not final count what the directory takes; with two     *)
(* failures a charge may stay.                                             *)
Charge == [k \in CacheKeys |-> IF k \in Cache!Settling THEN Least(disk[k]) ELSE size[k]]
Within == fitted /\ broken < 2 => Sum(Charge, CacheKeys) <= TotalLimit

CacheUse == FullyCharged /\ Covered /\ Cache!GrantedIsPresent /\ Marked /\ Locked
CacheIInv == CacheCore /\ CacheUse /\ Within

Settles(u) == user[u].pc \in {"listing", "evicting", "deleting", "releasing"}

LEMMA SettlingIs ==
  \A k : /\ k \in Cache!Settling <=> \E v \in CacheUsers : Settles(v) /\ user[v].key = k
         /\ k \in Cache!Settling' <=> \E v \in CacheUsers : Settles(v)' /\ user'[v].key = k
BY DEF Cache!Settling, Settles

LEMMA SettlingStays ==
  ASSUME NEW u \in CacheUsers, \A v \in CacheUsers : v # u => user'[v] = user[v],
         Settles(u)' <=> Settles(u), Settles(u) => user'[u].key = user[u].key
  PROVE  Cache!Settling' = Cache!Settling
<1>1. \A k : k \in Cache!Settling' <=> k \in Cache!Settling
  BY SettlingIs DEF Settles
<1> QED  BY ONLY <1>1

LEMMA SettlingGains ==
  ASSUME NEW u \in CacheUsers, \A v \in CacheUsers : v # u => user'[v] = user[v],
         Settles(u)', user'[u].key = user[u].key
  PROVE  Cache!Settling' = Cache!Settling \cup {user[u].key}
<1>1. \A k : k \in Cache!Settling' <=> k \in Cache!Settling \/ k = user[u].key
  BY SettlingIs DEF Settles
<1> QED  BY ONLY <1>1

LEMMA SettlingLoses ==
  ASSUME CacheCore, NEW u \in CacheUsers, \A v \in CacheUsers : v # u => user'[v] = user[v],
         Settles(u), ~Settles(u)'
  PROVE  Cache!Settling' = Cache!Settling \ {user[u].key}
<1>1. \A v \in CacheUsers : v # u /\ Settles(v) => user[v].key # user[u].key
  BY OneIsFirst DEF Settles, Cache!Holding
<1>2. \A k : k \in Cache!Settling' <=> k \in Cache!Settling /\ k # user[u].key
  BY <1>1, SettlingIs DEF Settles
<1> QED  BY ONLY <1>2

LEMMA LeastIs == \A n \in Nat : Least(n) \in Nat /\ Least(n) <= n /\ Least(n) <= RepositoryLimit /\ (n <= RepositoryLimit => Least(n) = n)
BY StoresAssumption DEF Least

LEMMA ChargeType ==
  ASSUME Cache!CacheTypeOK
  PROVE  /\ \A k \in CacheKeys : Charge[k] \in Nat /\ size[k] \in Nat /\ disk[k] \in Nat
         /\ \A k \in CacheKeys : Charge[k] = IF k \in Cache!Settling THEN Least(disk[k]) ELSE size[k]
<1>1. RepositoryLimit \in Nat /\ MaxDisk \in Nat
  BY StoresAssumption
<1>2. \A k \in CacheKeys : size[k] \in Nat /\ disk[k] \in Nat
  BY <1>1 DEF Cache!CacheTypeOK
<1> QED  BY <1>2, LeastIs DEF Charge

LEMMA ChargeTypeNext ==
  ASSUME Cache!CacheTypeOK'
  PROVE  /\ \A k \in CacheKeys : Charge'[k] \in Nat /\ size'[k] \in Nat /\ disk'[k] \in Nat
         /\ \A k \in CacheKeys : Charge'[k] = IF k \in Cache!Settling' THEN Least(disk'[k]) ELSE size'[k]
<1>1. RepositoryLimit \in Nat /\ MaxDisk \in Nat
  BY StoresAssumption
<1>2. \A k \in CacheKeys : size'[k] \in Nat /\ disk'[k] \in Nat
  BY <1>1 DEF Cache!CacheTypeOK
<1> QED  BY <1>2, LeastIs DEF Charge, Least

LEMMA WithinKept ==
  ASSUME Cache!CacheTypeOK, Cache!CacheTypeOK', Within, Covered',
         \/ Cache!Fits(size')
         \/ /\ fitted' => fitted
            /\ broken' < 2 => broken < 2 /\ \A k \in CacheKeys : Charge'[k] <= Charge[k]
  PROVE  Within'
<1> SUFFICES ASSUME fitted', broken' < 2 PROVE Sum(Charge', CacheKeys) <= TotalLimit
  BY DEF Within
<1>1. /\ \A k \in CacheKeys : Charge[k] \in Nat
      /\ \A k \in CacheKeys : Charge'[k] \in Nat /\ size'[k] \in Nat
      /\ \A k \in CacheKeys : Charge'[k] = IF k \in Cache!Settling' THEN Least(disk'[k]) ELSE size'[k]
  BY ChargeType, ChargeTypeNext
<1>2. IsFiniteSet(CacheKeys) /\ TotalLimit \in Nat
  BY StoresAssumption
<1>3. CASE fitted /\ broken < 2 /\ \A k \in CacheKeys : Charge'[k] <= Charge[k]
  <2>1. Sum(Charge, CacheKeys) <= TotalLimit
    BY <1>3 DEF Within
  <2>2. Sum(Charge', CacheKeys) <= Sum(Charge, CacheKeys)
    BY <1>1, <1>2, <1>3, SumMonotone
  <2>3. Sum(Charge, CacheKeys) \in Nat /\ Sum(Charge', CacheKeys) \in Nat
    BY <1>1, <1>2, SumType
  <2> QED  BY ONLY <2>1, <2>2, <2>3, <1>2
<1>4. CASE Cache!Fits(size')
  <2>1. Sum(size', CacheKeys) <= TotalLimit
    BY <1>4, CacheSum DEF Cache!Fits, Cache!SizeSum
  <2>2. \A k \in CacheKeys : Charge'[k] <= size'[k]
    BY <1>1 DEF Covered, Least
  <2>3. Sum(Charge', CacheKeys) <= Sum(size', CacheKeys)
    BY <1>1, <1>2, <2>2, SumMonotone
  <2>4. Sum(size', CacheKeys) \in Nat /\ Sum(Charge', CacheKeys) \in Nat
    BY <1>1, <1>2, SumType
  <2> QED  BY ONLY <2>1, <2>3, <2>4, <1>2
<1> QED  BY <1>3, <1>4

LEMMA CacheStepKeeps ==
  ASSUME CacheIInv, CacheCore', Cache!CacheNext
  PROVE  CacheUse' /\ Within'
<1> USE DEF Cache!Goto, CacheUse
<1>t. Cache!CacheTypeOK /\ Cache!CacheTypeOK' /\ CacheCore /\ CacheUse /\ Within
  BY DEF CacheIInv, CacheCore
<1>u. /\ RepositoryLimit \in Nat /\ TotalLimit \in Nat /\ MaxFaults \in Nat /\ MaxDisk \in Nat
      /\ user \in [CacheUsers -> [pc : Cache!Steps, key : CacheKeys \cup {Cache!NoKey},
                                  victim : CacheKeys \cup {Cache!NoKey}, candidates : SUBSET CacheKeys]]
      /\ size \in [CacheKeys -> 0 .. MaxDisk] /\ disk \in [CacheKeys -> 0 .. MaxDisk]
      /\ active \subseteq CacheKeys /\ broken \in Nat
      /\ KeysFit /\ CacheUse /\ Cache!NoKey \notin CacheKeys
  BY <1>t, StoresAssumption DEF Cache!CacheTypeOK, CacheCore
<1>c. /\ \A k \in CacheKeys : Charge[k] \in Nat /\ size[k] \in Nat /\ disk[k] \in Nat
      /\ \A k \in CacheKeys : Charge[k] = IF k \in Cache!Settling THEN Least(disk[k]) ELSE size[k]
      /\ \A k \in CacheKeys : Charge'[k] = IF k \in Cache!Settling' THEN Least(disk'[k]) ELSE size'[k]
      /\ \A k \in CacheKeys : Least(disk[k]) <= size[k] /\ Least(disk[k]) \in Nat
  BY <1>t, ChargeType, ChargeTypeNext, LeastIs DEF Covered
<1>k. \A u \in CacheUsers : /\ Cache!Holding(u) => user[u].key \in CacheKeys
                            /\ user[u].pc = "deleting" => user[u].victim \in CacheKeys
  BY <1>u DEF KeysFit, Cache!Holding
<1>o. /\ \A u, v \in CacheUsers : u # v /\ Cache!Holding(u) /\ Cache!Holding(v) => user[u].key # user[v].key
      /\ \A u, v \in CacheUsers : user[u].pc = "deleting" /\ Cache!Holding(v) => user[u].victim # user[v].key
  BY <1>t, OneIsFirst
<1>1. ASSUME NEW u \in CacheUsers, NEW k \in CacheKeys, Cache!Acquire(u, k)
      PROVE  CacheUse' /\ Within'
  <2>1. /\ user[u].pc = "out" /\ user'[u].pc = "waiting" /\ user'[u].key = k /\ user'[u].victim = user[u].victim
        /\ \A v \in CacheUsers : v # u => user'[v] = user[v]
        /\ UNCHANGED <<size, disk, active, shutting, unlocked, broken, fitted>> /\ ~shutting
    BY <1>1, <1>u DEF Cache!Acquire
  <2>a. FullyCharged' /\ Covered' /\ Cache!GrantedIsPresent'
    BY <2>1, <1>u DEF FullyCharged, Covered, Least, Cache!GrantedIsPresent
  <2>b. Marked'
    BY <2>1, <1>u DEF Marked, Cache!Holding
  <2>c. Locked'
    BY <2>1, <1>u DEF Locked
  <2>2. CacheUse'
    BY <2>a, <2>b, <2>c
  <2>3. Cache!Settling' = Cache!Settling
    BY <2>1, SettlingStays DEF Settles
  <2>4. \A l \in CacheKeys : Charge'[l] <= Charge[l]
    BY <1>c, <2>1, <2>3
  <2> QED  BY <2>1, <2>2, <2>4, <1>t, WithinKept
<1>2. ASSUME NEW u \in CacheUsers, Cache!Turn(u)
      PROVE  CacheUse' /\ Within'
  <2> DEFINE k == user[u].key
  <2>1. /\ user[u].pc = "waiting" /\ user'[u].key = k /\ user'[u].victim = user[u].victim
        /\ \A v \in CacheUsers : v # u => user'[v] = user[v]
        /\ UNCHANGED <<disk, shutting, unlocked, broken>> /\ k \in CacheKeys
        /\ user'[u].pc \in {"listing", "making", "releasing"}
    BY <1>2, <1>u DEF Cache!Turn, KeysFit
  <2>2. \/ active' = active \cup {k} /\ size' = [size EXCEPT ![k] = RepositoryLimit]
        \/ active' = active /\ size' = size /\ user'[u].pc = "releasing"
    BY <1>2, <1>u DEF Cache!Turn, Cache!Charged
  <2>3. \A l \in CacheKeys : size'[l] = size[l] \/ (l = k /\ size'[l] = RepositoryLimit)
    BY <2>1, <2>2, <1>u
  <2>4. user'[u].pc # "releasing" => size'[k] = RepositoryLimit
    BY <2>1, <2>2, <1>u
  <2>5. FullyCharged'
    BY <2>1, <2>3, <2>4, <1>k, <1>u DEF FullyCharged, Cache!Holding
  <2>6. Covered'
    BY <2>1, <2>3, <1>c, LeastIs DEF Covered, Least
  <2>7. Cache!GrantedIsPresent' /\ Locked'
    BY <2>1, <1>u DEF Cache!GrantedIsPresent, Locked
  <2>8. Marked'
    BY <2>1, <2>2, <1>u DEF Marked, Cache!Holding
  <2>9. CASE Cache!Fits(size')
    BY <2>1, <2>5, <2>6, <2>7, <2>8, <2>9, <1>t, WithinKept
  <2>10. CASE ~Cache!Fits(size')
    <3>1. /\ user'[u].pc \in {"listing", "releasing"} /\ (fitted' => fitted)
      <4>1. CASE size' = Cache!Charged(user[u].key)
        <5>1. ~Cache!Fits(Cache!Charged(user[u].key))
          BY <2>10, <4>1
        <5>2. user'[u].pc # "making" /\ (fitted' = fitted \/ fitted' = (fitted \/ Cache!Fits(Cache!Charged(user[u].key))))
          BY <1>2, <1>u, <5>1 DEF Cache!Turn
        <5>3. fitted' => fitted
          BY <5>1, <5>2, Zenon
        <5> QED  BY <2>1, <5>2, <5>3
      <4>2. CASE user' = [user EXCEPT ![u].pc = "releasing"] /\ UNCHANGED fitted
        BY <1>u, <4>2
      <4> QED  BY <1>2, <4>1, <4>2 DEF Cache!Turn
    <3>2. Cache!Settling' = Cache!Settling \cup {k}
      BY <2>1, <3>1, SettlingGains DEF Settles
    <3>3. \A l \in CacheKeys : Charge'[l] <= Charge[l]
      BY <1>c, <2>1, <2>3, <3>2
    <3> QED  BY <2>1, <2>5, <2>6, <2>7, <2>8, <3>1, <3>3, <1>t, WithinKept
  <2> QED  BY <2>9, <2>10
<1>3. ASSUME NEW u \in CacheUsers, Cache!List(u)
      PROVE  CacheUse' /\ Within'
  <2>1. /\ user[u].pc = "listing" /\ user'[u].pc \in {"evicting", "releasing"} /\ user'[u].key = user[u].key
        /\ user'[u].victim = user[u].victim
        /\ \A v \in CacheUsers : v # u => user'[v] = user[v]
        /\ UNCHANGED <<size, disk, active, shutting, unlocked, fitted>>
        /\ broken' = broken \/ broken' = broken + 1
    BY <1>3, <1>u DEF Cache!List, Cache!Fault
  <2>2. CacheUse'
    BY <2>1, <1>u DEF FullyCharged, Covered, Least, Cache!GrantedIsPresent, Marked, Locked, Cache!Holding
  <2>3. Cache!Settling' = Cache!Settling
    BY <2>1, SettlingStays DEF Settles
  <2>4. \A l \in CacheKeys : Charge'[l] <= Charge[l]
    BY <1>c, <2>1, <2>3
  <2>5. broken' < 2 => broken < 2
    BY <2>1, <1>u
  <2> QED  BY <2>1, <2>2, <2>4, <2>5, <1>t, WithinKept
<1>4. ASSUME NEW u \in CacheUsers, Cache!Evict(u)
      PROVE  CacheUse' /\ Within'
  <2>1. /\ user[u].pc = "evicting" /\ user'[u].pc \in {"evicting", "making", "deleting", "releasing"}
        /\ user'[u].key = user[u].key
        /\ \A v \in CacheUsers : v # u => user'[v] = user[v]
        /\ UNCHANGED <<size, disk, shutting, unlocked, broken>>
        /\ \A k \in active' : k \in active \/ user'[u].victim = k
    <3>0. user[u].pc = "evicting" /\ UNCHANGED <<size, disk, shutting, unlocked, broken>>
      BY <1>4 DEF Cache!Evict
    <3>1. CASE user[u].candidates = {}
      BY <1>4, <1>u, <3>0, <3>1 DEF Cache!Evict
    <3>2. CASE user[u].candidates # {}
      <4> PICK k \in user[u].candidates :
                 \/ active' = active \cup {k}
                    /\ user' = [user EXCEPT ![u].pc = "deleting", ![u].victim = k, ![u].candidates = @ \ {k}]
                 \/ user' = [user EXCEPT ![u].candidates = @ \ {k}] /\ active' = active
        BY <1>4, <3>2 DEF Cache!Evict
      <4> QED  BY <1>u, <3>0
    <3> QED  BY <3>1, <3>2
  <2>2. FullyCharged' /\ Covered' /\ Cache!GrantedIsPresent' /\ Locked'
    BY <2>1, <1>u DEF FullyCharged, Covered, Least, Cache!GrantedIsPresent, Locked
  <2>3. Marked'
    BY <2>1, <1>u DEF Marked, KeysFit, Cache!Holding
  <2>4. CASE Cache!Fits(size')
    BY <2>1, <2>2, <2>3, <2>4, <1>t, WithinKept
  <2>5. CASE ~Cache!Fits(size')
    <3>1. /\ user'[u].pc \in {"evicting", "deleting", "releasing"} /\ (fitted' => fitted)
      <4>1. CASE user[u].candidates = {}
        BY <1>4, <1>u, <2>1, <2>5, <4>1 DEF Cache!Evict
      <4>2. CASE user[u].candidates # {}
        <5> PICK k \in user[u].candidates :
                   \/ user' = [user EXCEPT ![u].pc = "deleting", ![u].victim = k, ![u].candidates = @ \ {k}]
                   \/ user' = [user EXCEPT ![u].candidates = @ \ {k}]
          BY <1>4, <4>2 DEF Cache!Evict
        <5>1. UNCHANGED fitted
          BY <1>4, <4>2 DEF Cache!Evict
        <5> QED  BY <1>u, <2>1, <5>1
      <4> QED  BY <4>1, <4>2
    <3>2. Cache!Settling' = Cache!Settling
      BY <2>1, <3>1, SettlingStays DEF Settles
    <3>3. \A l \in CacheKeys : Charge'[l] <= Charge[l]
      BY <1>c, <2>1, <3>2
    <3> QED  BY <2>1, <2>2, <2>3, <3>1, <3>3, <1>t, WithinKept
  <2> QED  BY <2>4, <2>5
<1>5. ASSUME NEW u \in CacheUsers, Cache!Evicted(u)
      PROVE  CacheUse' /\ Within'
  <2> DEFINE k == user[u].victim
  <2>1. /\ user[u].pc = "deleting" /\ user'[u].pc \in {"making", "evicting", "releasing"}
        /\ user'[u].key = user[u].key /\ k \in CacheKeys
        /\ \A v \in CacheUsers : v # u => user'[v] = user[v]
        /\ active' = active \ {k} /\ UNCHANGED <<shutting, unlocked>>
    BY <1>5, <1>u, <1>k DEF Cache!Evicted, Cache!Freed
  <2>2. /\ \A l \in CacheKeys : \/ size'[l] = size[l] /\ disk'[l] = disk[l]
                                \/ l = k /\ size'[l] = 0 /\ disk'[l] = 0
        /\ broken' = broken \/ broken' = broken + 1
    BY <1>5, <1>u, <2>1 DEF Cache!Evicted, Cache!Fault
  <2>3. \A v \in CacheUsers : Cache!Holding(v) => user[v].key # k
    BY <2>1, <1>o
  <2>4. FullyCharged'
    BY <2>1, <2>2, <2>3, <1>k, <1>u DEF FullyCharged, Cache!Holding
  <2>5. Covered'
    BY <2>2, <1>c, LeastIs DEF Covered, Least
  <2>6. Cache!GrantedIsPresent' /\ Locked'
    BY <2>1, <2>2, <2>3, <1>k, <1>u DEF Cache!GrantedIsPresent, Locked, Cache!Holding
  <2>7. Marked'
    BY <2>1, <2>3, <1>u DEF Marked, Cache!Holding
  <2>8. CASE Cache!Fits(size')
    BY <2>4, <2>5, <2>6, <2>7, <2>8, <1>t, WithinKept
  <2>9. CASE ~Cache!Fits(size')
    <3>1. user'[u].pc \in {"evicting", "releasing"} /\ (fitted' => fitted)
      BY <1>5, <1>u, <2>9 DEF Cache!Evicted
    <3>2. Cache!Settling' = Cache!Settling
      BY <2>1, <3>1, SettlingStays DEF Settles
    <3>3. ASSUME NEW l \in CacheKeys PROVE Charge'[l] <= Charge[l]
      <4>1. CASE size'[l] = size[l] /\ disk'[l] = disk[l]
        BY <1>c, <3>2, <4>1
      <4>2. CASE l = k /\ size'[l] = 0 /\ disk'[l] = 0
        BY <1>c, <1>u, <3>2, <4>2 DEF Least
      <4> QED  BY <2>2, <4>1, <4>2
    <3>4. broken' < 2 => broken < 2
      BY <2>2, <1>u
    <3> QED  BY <2>4, <2>5, <2>6, <2>7, <3>1, <3>3, <3>4, <1>t, WithinKept
  <2> QED  BY <2>8, <2>9
<1>6. ASSUME NEW u \in CacheUsers, Cache!Grant(u)
      PROVE  CacheUse' /\ Within'
  <2> DEFINE k == user[u].key
  <2>1. /\ user[u].pc = "making" /\ user'[u].pc \in {"granted", "releasing"}
        /\ user'[u].key = k /\ user'[u].victim = user[u].victim
        /\ k \in CacheKeys /\ size[k] = RepositoryLimit
        /\ \A v \in CacheUsers : v # u => user'[v] = user[v]
        /\ UNCHANGED <<size, active, shutting, unlocked, fitted>>
    BY <1>6, <1>u, <1>k DEF Cache!Grant, FullyCharged, Cache!Holding
  <2>2. /\ \A l \in CacheKeys : disk'[l] = IF l = k /\ user'[u].pc = "granted" /\ disk[l] = 0 THEN 1 ELSE disk[l]
        /\ broken' = broken \/ broken' = broken + 1
    BY <1>6, <1>u, <2>1 DEF Cache!Grant, Cache!Fault
  <2>3. Covered'
    <3> SUFFICES ASSUME NEW l \in CacheKeys PROVE Least(disk'[l]) <= size'[l]
      BY DEF Covered, Least
    <3>1. CASE disk'[l] = disk[l]
      BY <1>c, <2>1, <3>1
    <3>2. CASE l = k /\ disk'[l] = 1
      BY <2>1, <3>2, LeastIs
    <3> QED  BY <2>2, <3>1, <3>2
  <2>4. FullyCharged' /\ Locked' /\ Marked'
    BY <2>1, <1>u DEF FullyCharged, Locked, Marked, Cache!Holding
  <2>5. Cache!GrantedIsPresent'
    BY <2>1, <2>2, <1>k, <1>c, <1>u DEF Cache!GrantedIsPresent, Cache!Holding
  <2>6. CASE user'[u].pc = "releasing"
    <3>1. Cache!Settling' = Cache!Settling \cup {k}
      BY <2>1, <2>6, SettlingGains DEF Settles
    <3>2. \A l \in CacheKeys : Charge'[l] <= Charge[l]
      BY <1>c, <2>1, <2>2, <2>6, <3>1
    <3>3. broken' < 2 => broken < 2
      BY <2>2, <1>u
    <3> QED  BY <2>1, <2>3, <2>4, <2>5, <3>2, <3>3, <1>t, WithinKept
  <2>7. CASE user'[u].pc = "granted"
    <3>1. Cache!Settling' = Cache!Settling
      BY <2>1, <2>7, SettlingStays DEF Settles
    <3>2. k \notin Cache!Settling
      BY <2>1, <1>o, SettlingIs DEF Settles, Cache!Holding
    <3>3. \A l \in CacheKeys : Charge'[l] <= Charge[l]
      BY <1>c, <2>1, <2>2, <3>1, <3>2
    <3>4. broken' < 2 => broken < 2
      BY <2>2, <1>u
    <3> QED  BY <2>1, <2>3, <2>4, <2>5, <3>3, <3>4, <1>t, WithinKept
  <2> QED  BY <2>1, <2>6, <2>7
<1>7. ASSUME NEW u \in CacheUsers, Cache!Done(u)
      PROVE  CacheUse' /\ Within'
  <2> DEFINE k == user[u].key
  <2>1. /\ user[u].pc = "granted" /\ user'[u].pc = "releasing"
        /\ user'[u].key = k /\ user'[u].victim = user[u].victim
        /\ k \in CacheKeys /\ size[k] = RepositoryLimit
        /\ \A v \in CacheUsers : v # u => user'[v] = user[v]
        /\ UNCHANGED <<size, active, shutting, unlocked, broken, fitted>>
    BY <1>7, <1>u, <1>k DEF Cache!Done, FullyCharged, Cache!Holding
  <2>2. \A l \in CacheKeys : \/ disk'[l] = disk[l]
                             \/ l = k /\ disk'[l] \in Nat /\ disk'[l] > 0
    BY <1>7, <1>u, <2>1 DEF Cache!Done
  <2>3. Covered'
    <3> SUFFICES ASSUME NEW l \in CacheKeys PROVE Least(disk'[l]) <= size'[l]
      BY DEF Covered, Least
    <3>1. CASE disk'[l] = disk[l]
      BY <1>c, <2>1, <3>1
    <3>2. CASE l = k /\ disk'[l] \in Nat
      BY <2>1, <3>2, LeastIs
    <3> QED  BY <2>2, <3>1, <3>2
  <2>4. FullyCharged' /\ Locked' /\ Marked'
    BY <2>1, <1>u DEF FullyCharged, Locked, Marked, Cache!Holding
  <2>5. Cache!GrantedIsPresent'
    BY <2>1, <2>2, <1>k, <1>c, <1>u DEF Cache!GrantedIsPresent, Cache!Holding
  <2>6. Cache!Settling' = Cache!Settling \cup {k}
    BY <2>1, SettlingGains DEF Settles
  <2>7. k \notin Cache!Settling
    BY <2>1, <1>o, SettlingIs DEF Settles, Cache!Holding
  <2>8. \A l \in CacheKeys : Charge'[l] <= Charge[l]
    <3> SUFFICES ASSUME NEW l \in CacheKeys PROVE Charge'[l] <= Charge[l]
      OBVIOUS
    <3>1. CASE l = k
      BY <1>c, <2>1, <2>3, <2>6, <2>7, <3>1 DEF Covered, Least
    <3>2. CASE l # k
      BY <1>c, <2>1, <2>2, <2>6, <3>2
    <3> QED  BY <3>1, <3>2
  <2> QED  BY <2>1, <2>3, <2>4, <2>5, <2>8, <1>t, WithinKept
<1>8. ASSUME NEW u \in CacheUsers, Cache!Release(u)
      PROVE  CacheUse' /\ Within'
  <2> DEFINE k == user[u].key
  <2>1. /\ user[u].pc = "releasing" /\ user'[u] = Cache!Out /\ k \in CacheKeys /\ user[u].victim = Cache!NoKey
        /\ \A v \in CacheUsers : v # u => user'[v] = user[v]
        /\ active' = active \ {k} /\ UNCHANGED <<shutting, unlocked, fitted>>
    BY <1>8, <1>u, <1>k DEF Cache!Release, Cache!Holding, KeysFit
  <2>2. /\ \A l \in CacheKeys : l # k => size'[l] = size[l] /\ disk'[l] = disk[l]
        /\ broken' \in Nat /\ broken <= broken'
        /\ \/ disk[k] <= RepositoryLimit /\ size'[k] = disk[k] /\ disk'[k] = disk[k]
           \/ size'[k] = 0 /\ disk'[k] = 0
           \/ /\ size'[k] = RepositoryLimit /\ disk'[k] = disk[k]
              /\ disk[k] <= RepositoryLimit => broken' >= 2
    <3>1. CASE disk[k] \in 1 .. RepositoryLimit /\ size' = [size EXCEPT ![k] = disk[k]] /\ UNCHANGED <<disk, broken>>
      BY <1>u, <2>1, <3>1
    <3>2. CASE /\ broken' = broken + (IF disk[k] \in 1 .. RepositoryLimit THEN 1 ELSE 0)
               /\ disk' = [disk EXCEPT ![k] = 0] /\ size' = [size EXCEPT ![k] = 0]
      BY <1>u, <2>1, <3>2
    <3>3. CASE /\ disk[k] > 0 /\ broken' = broken + (1 + (IF disk[k] \in 1 .. RepositoryLimit THEN 1 ELSE 0))
               /\ size' = [size EXCEPT ![k] = RepositoryLimit] /\ UNCHANGED disk
      BY <1>c, <1>u, <2>1, <3>3
    <3> QED  BY <1>8, <3>1, <3>2, <3>3 DEF Cache!Release, Cache!Fails, Cache!Charged
  <2>3. \A v \in CacheUsers : v # u /\ Cache!Holding(v) => user[v].key # k
    BY <2>1, <1>o DEF Cache!Holding
  <2>4. FullyCharged'
    BY <2>1, <2>2, <2>3, <1>k, <1>u DEF FullyCharged, Cache!Holding, Cache!Out
  <2>5. Covered'
    <3> SUFFICES ASSUME NEW l \in CacheKeys PROVE Least(disk'[l]) <= size'[l]
      BY DEF Covered, Least
    <3>1. CASE l # k
      BY <1>c, <2>2, <3>1
    <3>2. CASE l = k
      BY <1>c, <1>u, <2>2, <3>2, LeastIs
    <3> QED  BY <3>1, <3>2
  <2>6. Cache!GrantedIsPresent'
    BY <2>1, <2>2, <2>3, <1>k, <1>u DEF Cache!GrantedIsPresent, Cache!Holding, Cache!Out
  <2>7. Marked'
    BY <2>1, <2>3, <1>u DEF Marked, Cache!Holding, Cache!Out
  <2>8. Locked'
    BY <2>1, <1>u DEF Locked
  <2>9. Cache!Settling' = Cache!Settling \ {k} /\ k \in Cache!Settling
    BY <2>1, <1>t, SettlingLoses, SettlingIs DEF Settles, Cache!Out
  <2>10. ASSUME broken' < 2 PROVE \A l \in CacheKeys : Charge'[l] <= Charge[l]
    <3> SUFFICES ASSUME NEW l \in CacheKeys PROVE Charge'[l] <= Charge[l]
      OBVIOUS
    <3>1. CASE l # k
      BY <1>c, <2>2, <2>9, <3>1
    <3>2. CASE l = k
      <4>1. Charge'[l] = size'[k] /\ Charge[l] = Least(disk[k]) /\ disk[k] \in Nat /\ Least(disk[k]) \in Nat
        BY <1>c, <2>9, <3>2, <2>1
      <4>2. disk[k] <= RepositoryLimit => Least(disk[k]) = disk[k]
        BY <4>1, LeastIs
      <4>3. ~(disk[k] <= RepositoryLimit) => Least(disk[k]) = RepositoryLimit
        BY DEF Least
      <4> HIDE DEF k
      <4> QED  BY ONLY <2>2, <2>10, <4>1, <4>2, <4>3, <1>u
    <3> QED  BY <3>1, <3>2
  <2>11. broken' < 2 => broken < 2
    BY <2>2, <1>u
  <2> QED  BY <2>1, <2>4, <2>5, <2>6, <2>7, <2>8, <2>10, <2>11, <1>t, WithinKept
<1>9. ASSUME Cache!Close \/ Cache!Unlock
      PROVE  CacheUse' /\ Within'
  <2>1. UNCHANGED <<cTail, size, disk, active, user, broken, fitted>>
    BY <1>9 DEF Cache!Close, Cache!Unlock
  <2>2. FullyCharged' /\ Covered' /\ Cache!GrantedIsPresent' /\ Marked'
    BY <2>1, <1>u DEF FullyCharged, Covered, Least, Cache!GrantedIsPresent, Marked, Cache!Holding
  <2>3. Within'
    BY <2>1, <1>t DEF Within, Charge, Cache!Settling, Least
  <2>4. Locked'
    <3>1. CASE Cache!Close
      BY <3>1, <1>u DEF Cache!Close, Locked
    <3>2. CASE Cache!Unlock
      <4>1. \A k \in CacheKeys : cTail[k] = nobody
        BY <3>2 DEF Cache!Unlock, Cache!Tailed
      <4>2. \A p \in CacheParties : Standing[p] = Cache!NoKey
        BY <4>1, <1>t DEF CacheCore, CacheLines, Lined
      <4>3. \A v \in CacheUsers : user[v].pc = "out"
        BY <4>2, <1>u, StandingIs, CachePartiesFit DEF KeysFit
      <4> QED  BY <3>2, <4>3, <2>1 DEF Cache!Unlock, Locked
    <3> QED  BY <1>9, <3>1, <3>2
  <2> QED  BY <2>2, <2>3, <2>4
<1> QED  BY <1>1, <1>2, <1>3, <1>4, <1>5, <1>6, <1>7, <1>8, <1>9 DEF Cache!CacheNext, Cache!Proceed

LEMMA CacheImplies ==
  ASSUME CacheIInv
  PROVE  /\ Cache!CacheTypeOK /\ Cache!OneHolder /\ Cache!GrantedIsPresent /\ Cache!CacheWithinTotal
         /\ Cache!MarksHaveOwners /\ Cache!LockOutlivesUse
<1>1. Cache!CacheTypeOK /\ CacheCore
  BY DEF CacheIInv, CacheCore
<1>2. Cache!CacheWithinTotal
  <2> SUFFICES ASSUME fitted, broken < 2 PROVE Sum(size, CacheKeys \ Cache!Settling) <= TotalLimit
    BY CacheSum DEF Cache!CacheWithinTotal
  <2>1. IsFiniteSet(CacheKeys) /\ TotalLimit \in Nat /\ IsFiniteSet(CacheKeys \ Cache!Settling)
    BY StoresAssumption, FS_Subset
  <2>2. /\ \A k \in CacheKeys : Charge[k] \in Nat /\ size[k] \in Nat
        /\ \A k \in CacheKeys \ Cache!Settling : size[k] = Charge[k]
    BY <1>1, ChargeType
  <2>3. \A k \in CacheKeys \ Cache!Settling : size[k] <= Charge[k]
    BY <2>2
  <2>4. Sum(size, CacheKeys \ Cache!Settling) <= Sum(Charge, CacheKeys)
    BY <2>1, <2>2, <2>3, SumMonotone
  <2>5. Sum(Charge, CacheKeys) <= TotalLimit
    BY DEF CacheIInv, Within
  <2>6. Sum(size, CacheKeys \ Cache!Settling) \in Nat /\ Sum(Charge, CacheKeys) \in Nat
    BY <2>1, <2>2, SumType
  <2> QED  BY ONLY <2>1, <2>4, <2>5, <2>6
<1>3. Cache!MarksHaveOwners
  <2>1. \A k \in active : \E u \in CacheUsers : (Cache!Holding(u) /\ user[u].key = k) \/ user[u].victim = k
    BY DEF CacheIInv, CacheUse, Marked
  <2>2. \A k \in CacheKeys : cTail[k] # nobody => cTail[k] \in CacheParties /\ Standing[cTail[k]] = k
    BY <1>1 DEF CacheCore, CacheLines, Lined
  <2>3. \A k \in CacheKeys : cTail[k] # nobody => \E u \in CacheUsers : user[u].key = k \/ user[u].victim = k
    BY <2>2, StandingIs, CachePartiesFit
  <2> QED  BY <2>1, <2>3 DEF Cache!MarksHaveOwners, Cache!Tailed
<1> QED  BY <1>1, <1>2, <1>3, OneIsFirst DEF CacheIInv, CacheUse, Locked, Cache!LockOutlivesUse

LEMMA CacheStarts ==
  ASSUME Cache!CacheInit
  PROVE  CacheIInv
<1> USE StoresAssumption DEF Cache!CacheInit
<1>1. Cache!CacheTypeOK
  <2>1. /\ size \in [CacheKeys -> 0 .. MaxDisk] /\ disk \in [CacheKeys -> 0 .. MaxDisk]
        /\ broken \in 0 .. MaxFaults
    OBVIOUS
  <2>2. user \in [CacheUsers -> [pc : Cache!Steps, key : CacheKeys \cup {Cache!NoKey},
                                 victim : CacheKeys \cup {Cache!NoKey}, candidates : SUBSET CacheKeys]]
    BY DEF Cache!Out, Cache!Steps
  <2>3. fitted \in BOOLEAN
    BY DEF Cache!Fits
  <2> QED  BY <2>1, <2>2, <2>3 DEF Cache!CacheTypeOK
<1>2. KeysFit /\ TurnsHold
  BY DEF KeysFit, TurnsHold, Cache!Out, Cache!Holding
<1>3. CacheLines
  <2>1. \A p \in CacheParties : Standing[p] = Cache!NoKey
    BY CachePartiesFit DEF Standing, Cache!Out
  <2>2. Standing \in [CacheParties -> CacheKeys \cup {Cache!NoKey}]
    BY <2>1 DEF Standing
  <2>3. \E r : Ranked(r, cPrior, CacheParties, nobody)
    <3>1. Ranked([p \in CacheParties |-> 0], cPrior, CacheParties, nobody)
      BY DEF Ranked
    <3> QED  BY <3>1
  <2> HIDE DEF Standing
  <2> QED  BY <2>1, <2>2, <2>3, CachePartiesFit DEF CacheLines, Lined
<1>4. CacheUse
  <2>1. FullyCharged /\ Cache!GrantedIsPresent /\ Marked /\ Locked
    BY DEF FullyCharged, Cache!GrantedIsPresent, Marked, Locked, Cache!Out
  <2>2. Covered
    BY LeastIs DEF Covered
  <2> QED  BY <2>1, <2>2 DEF CacheUse
<1>5. Within
  <2>1. \A k \in CacheKeys : Charge[k] = size[k] /\ size[k] \in Nat
    BY <1>1, ChargeType, SettlingIs DEF Settles, Cache!Out
  <2>2. Sum(Charge, CacheKeys) = Sum(size, CacheKeys)
    BY <2>1, SumSame
  <2>3. fitted => Sum(size, CacheKeys) <= TotalLimit
    BY CacheSum DEF Cache!Fits, Cache!SizeSum
  <2> QED  BY <2>2, <2>3 DEF Within
<1> QED  BY <1>1, <1>2, <1>3, <1>4, <1>5 DEF CacheIInv, CacheCore

-----------------------------------------------------------------------------
(* The registrations.  A call stands in the line of its branch unless it   *)
(* is out or inserts the row.                                              *)
InLine(c) == asked[c].pc \notin {"out", "insert"}
Place == [c \in BranchCalls |-> IF InLine(c) THEN asked[c].key ELSE Branches!NoKey]
BranchLines == Lined(Place, bTail, bPrior, BranchKeys, BranchCalls, nobody, Branches!NoKey)
BranchCallType == [pc : Branches!Steps, key : BranchKeys \cup {Branches!NoKey}]
CallsFit == \A c \in BranchCalls : asked[c].key = Branches!NoKey <=> asked[c].pc = "out"
WorkersFirst == \A c \in BranchCalls : Branches!Works(c) => bPrior[c] = nobody

(* What is counted for an owner are the calls in the lines of its          *)
(* branches, what is counted for all owners are the calls in any line.     *)
AdmittedOf(o) == {c \in BranchCalls : InLine(c) /\ BranchOwner(asked[c].key) = o}
AllAdmitted == {c \in BranchCalls : InLine(c)}
Counted ==
  /\ admitted \in [Branches!Owners -> Nat]
  /\ \A o \in Branches!Owners : admitted[o] = Cardinality(AdmittedOf(o)) /\ admitted[o] <= PerOwner
  /\ Sum(admitted, Branches!Owners) = Cardinality(AllAdmitted) /\ Cardinality(AllAdmitted) <= Server

BranchCore ==
  /\ asked \in [BranchCalls -> BranchCallType] /\ BranchLines /\ CallsFit /\ WorkersFirst /\ Counted

LEMMA BranchesFit ==
  /\ nobody \notin BranchCalls /\ Branches!NoKey \notin BranchKeys
  /\ IsFiniteSet(BranchCalls) /\ IsFiniteSet(Branches!Owners)
  /\ \A k \in BranchKeys : BranchOwner(k) \in Branches!Owners
  /\ PerOwner \in Nat /\ Server \in Nat /\ Failures \in Nat
<1>1. IsFiniteSet({BranchOwner(k) : k \in BranchKeys})
  <2>1. IsFiniteSet(BranchKeys)
    BY StoresAssumption
  <2>2. [k \in BranchKeys |-> BranchOwner(k)] \in Surjection(BranchKeys, {BranchOwner(k) : k \in BranchKeys})
    BY DEF Surjection
  <2> QED  BY <2>1, <2>2, FS_Surjection
<1>2. IsFiniteSet(Branches!Owners) /\ \A k \in BranchKeys : BranchOwner(k) \in Branches!Owners
  BY <1>1 DEF Branches!Owners
<1> QED  BY <1>2, StoresAssumption DEF Cache!NoKey, Branches!NoKey

(* A counter that goes up, or down, by one takes the sum with it.          *)
LEMMA SumUp ==
  ASSUME NEW S, IsFiniteSet(S), NEW f \in [S -> Nat], NEW g \in [S -> Nat], NEW x \in S,
         g[x] = f[x] + 1, \A y \in S : y # x => g[y] = f[y]
  PROVE  Sum(g, S) = Sum(f, S) + 1
<1>1. Sum(f, S) = f[x] + Sum(f, S \ {x}) /\ Sum(g, S) = g[x] + Sum(g, S \ {x})
  BY SumPull
<1>2. IsFiniteSet(S \ {x})
  BY FS_Subset
<1>3. Sum(g, S \ {x}) = Sum(f, S \ {x}) /\ Sum(f, S \ {x}) \in Nat
  <2>1. \A y \in S \ {x} : g[y] \in Nat /\ g[y] = f[y] /\ f[y] \in Nat
    OBVIOUS
  <2>2. Sum(g, S \ {x}) = Sum(f, S \ {x})
    BY <1>2, <2>1, SumSame
  <2>3. Sum(f, S \ {x}) \in Nat
    BY <1>2, <2>1, SumType
  <2> QED  BY <2>2, <2>3
<1>4. f[x] \in Nat
  OBVIOUS
<1> HIDE DEF Sum
<1>5. g[x] + Sum(g, S \ {x}) = f[x] + Sum(f, S \ {x}) + 1
  BY ONLY <1>3, <1>4, g[x] = f[x] + 1
<1> QED  BY ONLY <1>1, <1>5

LEMMA OneMore ==
  ASSUME NEW S, IsFiniteSet(S), NEW T, NEW x \in S, x \notin T, T \subseteq S
  PROVE  Cardinality(T \cup {x}) = Cardinality(T) + 1 /\ Cardinality(T) \in Nat
<1>1. IsFiniteSet(T)
  BY FS_Subset
<1> QED  BY <1>1, FS_AddElement, FS_CardinalityType

LEMMA EnterKeeps ==
  ASSUME BranchCore, NEW c \in BranchCalls, NEW k \in BranchKeys,
         asked[c].pc \in {"out", "insert"}, Branches!Enter(c, k)
  PROVE  BranchCore'
<1> USE BranchesFit
<1> DEFINE o == BranchOwner(k)
<1>1. /\ asked \in [BranchCalls -> BranchCallType]
      /\ asked' = [asked EXCEPT ![c] = [pc |-> "waiting", key |-> k]]
      /\ bPrior' = [bPrior EXCEPT ![c] = bTail[k]] /\ bTail' = [bTail EXCEPT ![k] = c]
      /\ admitted' = [admitted EXCEPT ![o] = @ + 1] /\ admitted[o] < PerOwner
      /\ Sum(admitted, Branches!Owners) < Server /\ o \in Branches!Owners
  BY BranchSum DEF BranchCore, Branches!Enter, Branches!Join, Branches!MayEnter
<1>2. /\ asked' \in [BranchCalls -> BranchCallType]
      /\ asked'[c].pc = "waiting" /\ asked'[c].key = k
      /\ \A d \in BranchCalls : d # c => asked'[d] = asked[d]
      /\ ~InLine(c) /\ InLine(c)' /\ \A d \in BranchCalls : d # c => (InLine(d)' <=> InLine(d))
  BY <1>1 DEF InLine, BranchCallType, Branches!Steps
<1>3. BranchLines'
  <2>1. \A d \in BranchCalls : Place'[d] = IF d = c THEN k ELSE Place[d]
    BY <1>2 DEF Place
  <2>2. Place' = [d \in BranchCalls |-> Place'[d]] /\ DOMAIN Place = BranchCalls /\ Place[c] = Branches!NoKey
    BY <1>2 DEF Place
  <2>3. BranchLines
    BY DEF BranchCore
  <2> HIDE DEF Place
  <2>4. Place' = [Place EXCEPT ![c] = k]
    BY <2>1, <2>2
  <2> QED  BY <1>1, <2>2, <2>3, <2>4, JoinLines DEF BranchLines
<1>4. CallsFit' /\ WorkersFirst'
  BY <1>1, <1>2 DEF BranchCore, CallsFit, WorkersFirst, Branches!Works
<1>5. Counted'
  <2>0. Counted
    BY DEF BranchCore
  <2>1. admitted' \in [Branches!Owners -> Nat] /\ \A p \in Branches!Owners : admitted'[p] = IF p = o THEN admitted[p] + 1 ELSE admitted[p]
    BY <1>1, <2>0 DEF Counted
  <2>2. AdmittedOf(o)' = AdmittedOf(o) \cup {c} /\ c \notin AdmittedOf(o) /\ AdmittedOf(o) \subseteq BranchCalls
    BY <1>2 DEF AdmittedOf
  <2>3. \A p \in Branches!Owners : p # o => AdmittedOf(p)' = AdmittedOf(p)
    BY <1>2 DEF AdmittedOf
  <2>4. AllAdmitted' = AllAdmitted \cup {c} /\ c \notin AllAdmitted /\ AllAdmitted \subseteq BranchCalls
    BY <1>2 DEF AllAdmitted
  <2>5. \A p \in Branches!Owners : admitted'[p] = Cardinality(AdmittedOf(p)')
    BY <2>0, <2>1, <2>2, <2>3, OneMore DEF Counted
  <2>6. Sum(admitted', Branches!Owners) = Sum(admitted, Branches!Owners) + 1
    BY <1>1, <2>0, <2>1, SumUp DEF Counted
  <2>7. Cardinality(AllAdmitted') = Cardinality(AllAdmitted) + 1 /\ Cardinality(AllAdmitted) \in Nat
    BY <2>4, OneMore
  <2>8. Sum(admitted, Branches!Owners) = Cardinality(AllAdmitted)
    BY <2>0 DEF Counted
  <2>9. Sum(admitted', Branches!Owners) = Cardinality(AllAdmitted') /\ Cardinality(AllAdmitted') <= Server
    BY ONLY <2>6, <2>7, <2>8, <1>1, Server \in Nat
  <2>10. \A p \in Branches!Owners : admitted'[p] <= PerOwner
    <3>1. \A p \in Branches!Owners : admitted[p] \in Nat /\ admitted[p] <= PerOwner
      BY <2>0 DEF Counted
    <3> QED  BY <1>1, <2>1, <3>1
  <2> QED  BY <2>1, <2>5, <2>9, <2>10 DEF Counted
<1> QED  BY <1>2, <1>3, <1>4, <1>5 DEF BranchCore

LEMMA LeftKeeps ==
  ASSUME BranchCore, NEW c \in BranchCalls, InLine(c), bPrior[c] = nobody, Branches!Left(c)
  PROVE  BranchCore'
<1> USE BranchesFit
<1>0. asked[c].key \in BranchKeys
  BY DEF BranchCore, CallsFit, InLine, BranchCallType
<1> PICK k \in BranchKeys : k = asked[c].key
  BY <1>0
<1> PICK o \in Branches!Owners : o = BranchOwner(k)
  OBVIOUS
<1>1. /\ asked \in [BranchCalls -> BranchCallType] /\ k \in BranchKeys
      /\ asked' = [asked EXCEPT ![c] = [pc |-> "out", key |-> Branches!NoKey]]
      /\ Branches!Leave(k, c)
      /\ admitted' = [admitted EXCEPT ![o] = @ - 1] /\ o \in Branches!Owners
  BY DEF BranchCore, Branches!Left
<1>2. /\ asked' \in [BranchCalls -> BranchCallType]
      /\ asked'[c].pc = "out" /\ asked'[c].key = Branches!NoKey
      /\ \A d \in BranchCalls : d # c => asked'[d] = asked[d]
      /\ ~InLine(c)' /\ \A d \in BranchCalls : d # c => (InLine(d)' <=> InLine(d))
  BY <1>1 DEF InLine, BranchCallType, Branches!Steps
<1>3. BranchLines'
  <2>1. \A d \in BranchCalls : Place'[d] = IF d = c THEN Branches!NoKey ELSE Place[d]
    BY <1>2 DEF Place
  <2>2. Place' = [d \in BranchCalls |-> Place'[d]] /\ DOMAIN Place = BranchCalls /\ Place[c] = k
    BY <1>2 DEF Place
  <2>3. Lined(Place, bTail, bPrior, BranchKeys, BranchCalls, nobody, Branches!NoKey)
    BY DEF BranchCore, BranchLines
  <2> HIDE DEF Place
  <2>4. Place' = [Place EXCEPT ![c] = Branches!NoKey]
    BY <2>1, <2>2
  <2>5. /\ bTail' = [bTail EXCEPT ![Place[c]] = IF @ = c THEN nobody ELSE @]
        /\ bPrior' = [q \in BranchCalls |-> IF bPrior[q] = c THEN nobody ELSE bPrior[q]]
    BY <1>1, <2>2 DEF Branches!Leave
  <2>6. Place[c] # Branches!NoKey
    BY <1>1, <2>2
  <2>7. Lined([Place EXCEPT ![c] = Branches!NoKey],
              [bTail EXCEPT ![Place[c]] = IF @ = c THEN nobody ELSE @],
              [q \in BranchCalls |-> IF bPrior[q] = c THEN nobody ELSE bPrior[q]],
              BranchKeys, BranchCalls, nobody, Branches!NoKey)
    BY ONLY <2>3, <2>6, BranchesFit, bPrior[c] = nobody, c \in BranchCalls, LeaveLines
  <2> QED  BY <2>4, <2>5, <2>7 DEF BranchLines
<1>4. CallsFit' /\ WorkersFirst'
  BY <1>1, <1>2 DEF BranchCore, CallsFit, WorkersFirst, Branches!Works, Branches!Leave
<1>5. Counted'
  <2>0. Counted
    BY DEF BranchCore
  <2>2. AdmittedOf(o) = AdmittedOf(o)' \cup {c} /\ c \notin AdmittedOf(o)' /\ AdmittedOf(o)' \subseteq BranchCalls
    BY <1>2 DEF AdmittedOf
  <2>3. \A p \in Branches!Owners : p # o => AdmittedOf(p)' = AdmittedOf(p)
    BY <1>1, <1>2 DEF AdmittedOf
  <2>4. AllAdmitted = AllAdmitted' \cup {c} /\ c \notin AllAdmitted' /\ AllAdmitted' \subseteq BranchCalls
    BY <1>2 DEF AllAdmitted
  <2>5. Cardinality(AdmittedOf(o)) = Cardinality(AdmittedOf(o)') + 1 /\ Cardinality(AdmittedOf(o)') \in Nat
    BY <2>2, OneMore
  <2>6. admitted[o] = Cardinality(AdmittedOf(o)') + 1 /\ admitted'[o] = admitted[o] - 1 /\ admitted[o] \in Nat
    BY <1>1, <2>0, <2>5 DEF Counted
  <2>7. admitted'[o] = Cardinality(AdmittedOf(o)') /\ admitted'[o] \in Nat /\ admitted[o] = admitted'[o] + 1
    BY ONLY <2>5, <2>6
  <2>8. admitted' \in [Branches!Owners -> Nat] /\ \A p \in Branches!Owners : p # o => admitted'[p] = admitted[p]
    BY <1>1, <2>0, <2>7 DEF Counted
  <2>9. \A p \in Branches!Owners : admitted'[p] = Cardinality(AdmittedOf(p)')
    BY <2>0, <2>3, <2>7, <2>8 DEF Counted
  <2>10. Sum(admitted, Branches!Owners) = Sum(admitted', Branches!Owners) + 1
    <3>1. admitted \in [Branches!Owners -> Nat] /\ \A p \in Branches!Owners : p # o => admitted[p] = admitted'[p]
      BY <2>0, <2>8 DEF Counted
    <3>2. admitted' \in [Branches!Owners -> Nat] /\ IsFiniteSet(Branches!Owners)
      BY <2>8
    <3> QED  BY ONLY <3>1, <3>2, <2>7, o \in Branches!Owners, SumUp
  <2>11. Cardinality(AllAdmitted) = Cardinality(AllAdmitted') + 1 /\ Cardinality(AllAdmitted') \in Nat
    BY <2>4, OneMore
  <2>12. Sum(admitted, Branches!Owners) = Cardinality(AllAdmitted) /\ Cardinality(AllAdmitted) <= Server
    BY <2>0 DEF Counted
  <2>13. Sum(admitted', Branches!Owners) \in Nat
    BY <2>8, SumType
  <2>14. Sum(admitted', Branches!Owners) = Cardinality(AllAdmitted') /\ Cardinality(AllAdmitted') <= Server
    BY ONLY <2>10, <2>11, <2>12, <2>13, Server \in Nat
  <2>15. \A p \in Branches!Owners : admitted'[p] <= PerOwner
    <3>1. \A p \in Branches!Owners : admitted[p] <= PerOwner
      BY <2>0 DEF Counted
    <3>2. admitted'[o] <= PerOwner
      BY <2>7, <3>1
    <3> QED  BY <2>8, <3>1, <3>2
  <2> QED  BY <2>8, <2>9, <2>14, <2>15 DEF Counted
<1> QED  BY <1>2, <1>3, <1>4, <1>5 DEF BranchCore

(* A call that goes on without joining or leaving.                         *)
LEMMA MoveKeeps ==
  ASSUME BranchCore, NEW c \in BranchCalls, UNCHANGED <<bTail, bPrior, admitted>>,
         asked' \in [BranchCalls -> BranchCallType],
         \A d \in BranchCalls : d # c => asked'[d] = asked[d],
         InLine(c)' <=> InLine(c), InLine(c) => asked'[c].key = asked[c].key,
         asked'[c].key = Branches!NoKey <=> asked'[c].pc = "out",
         Branches!Works(c)' => bPrior[c] = nobody
  PROVE  BranchCore'
<1>1. \A d \in BranchCalls : (InLine(d)' <=> InLine(d)) /\ (InLine(d) => asked'[d].key = asked[d].key)
  BY DEF InLine
<1>2. BranchLines'
  <2>1. Place' = Place
    BY <1>1 DEF Place
  <2> QED  BY <2>1 DEF BranchCore, BranchLines
<1>3. CallsFit' /\ WorkersFirst'
  BY DEF BranchCore, CallsFit, WorkersFirst, Branches!Works
<1>4. Counted'
  <2>1. AllAdmitted' = AllAdmitted /\ \A o : AdmittedOf(o)' = AdmittedOf(o)
    BY <1>1 DEF AllAdmitted, AdmittedOf
  <2> QED  BY <2>1 DEF BranchCore, Counted
<1> QED  BY <1>2, <1>3, <1>4 DEF BranchCore

LEMMA ZeroSum ==
  ASSUME NEW S, IsFiniteSet(S)
  PROVE  Sum([x \in S |-> 0], S) = 0
<1> DEFINE f == [x \in S |-> 0]
<1>1. \A x \in S : f[x] \in Nat /\ f[x] + f[x] = f[x]
  OBVIOUS
<1> DEFINE T == {s \in SUBSET S : Sum(f, s) # 0}
<1> SUFFICES ASSUME Sum(f, S) # 0 PROVE FALSE
  OBVIOUS
<1>2. T \in SUBSET SUBSET S /\ T # {}
  OBVIOUS
<1> HIDE DEF T
<1>3. PICK m \in T : \A s \in SUBSET m : s # m => s \notin T
  BY <1>2, Smallest
<1>4. m \in SUBSET S /\ Sum(f, m) # 0 /\ IsFiniteSet(m)
  BY FS_Subset DEF T
<1> HIDE DEF f
<1>5. m # {}
  <2>1. m = {} => Sum(f, m) = 0
    BY <1>4, SumRec
  <2> QED  BY <1>4, <2>1
<1>6. Chosen(m) \in m /\ Sum(f, m) = f[Chosen(m)] + Sum(f, m \ {Chosen(m)})
  BY <1>4, <1>5, SumRec, ChosenIs
<1>7. Sum(f, m \ {Chosen(m)}) = 0
  BY <1>3, <1>4, <1>6 DEF T
<1>8. f[Chosen(m)] = 0
  BY <1>4, <1>6 DEF f
<1> QED  BY <1>4, <1>6, <1>7, <1>8


(* Nobody is in line to begin with, nor after a restart.                   *)
Fresh ==
  /\ bTail = [k \in BranchKeys |-> nobody] /\ bPrior = [c \in BranchCalls |-> nobody]
  /\ asked = [c \in BranchCalls |-> [pc |-> "out", key |-> Branches!NoKey]]
  /\ admitted = [o \in Branches!Owners |-> 0]

LEMMA FreshBranches == Fresh => BranchCore
<1> SUFFICES ASSUME Fresh PROVE BranchCore
  OBVIOUS
<1> USE BranchesFit DEF Fresh
<1>1. asked \in [BranchCalls -> BranchCallType] /\ CallsFit /\ WorkersFirst
  BY DEF BranchCallType, Branches!Steps, CallsFit, WorkersFirst, Branches!Works
<1>2. BranchLines
  <2>1. Place = [c \in BranchCalls |-> Branches!NoKey]
    BY DEF Place
  <2>2. \E r : Ranked(r, bPrior, BranchCalls, nobody)
    <3>1. Ranked([c \in BranchCalls |-> 0], bPrior, BranchCalls, nobody)
      BY DEF Ranked
    <3> QED  BY <3>1
  <2> QED  BY <2>1, <2>2 DEF BranchLines, Lined
<1>3. Counted
  <2>1. AllAdmitted = {} /\ \A o : AdmittedOf(o) = {}
    BY DEF AllAdmitted, AdmittedOf, InLine
  <2>2. Cardinality({}) = 0
    BY FS_EmptySet
  <2>3. Sum(admitted, Branches!Owners) = 0
    BY ZeroSum
  <2> QED  BY <2>1, <2>2, <2>3 DEF Counted
<1> QED  BY <1>1, <1>2, <1>3 DEF BranchCore

(* The rows: who works finds its branch synchronising, or deleted.         *)
RowsTyped ==
  /\ branch \in [BranchKeys -> {"none", "PENDING", "SYNCING", "READY", "FAILED", "gone"}]
  /\ removing \subseteq BranchKeys /\ shut \in {"open", "closing", "closed"} /\ failures \in 0 .. Failures
RowsFit == \A c \in BranchCalls : Branches!Works(c) => branch[asked[c].key] \in {"SYNCING", "gone"}

BranchRows == RowsTyped /\ RowsFit /\ Branches!SyncingIsWorked /\ Branches!ClosedIsQuiet
BranchIInv == BranchCore /\ BranchRows

LEMMA OneWorks ==
  ASSUME BranchCore
  PROVE  \A c, d \in BranchCalls : c # d /\ Branches!Works(c) /\ (Branches!Works(d) \/ bPrior[d] = nobody) /\ InLine(d)
                                     => asked[c].key # asked[d].key
<1> SUFFICES ASSUME NEW c \in BranchCalls, NEW d \in BranchCalls, c # d, Branches!Works(c), InLine(d),
                    bPrior[d] = nobody, asked[c].key = asked[d].key
             PROVE  FALSE
  BY DEF BranchCore, WorkersFirst
<1>1. Place[c] = asked[c].key /\ Place[d] = asked[d].key /\ Place[c] # Branches!NoKey /\ bPrior[c] = nobody
  BY DEF BranchCore, CallsFit, WorkersFirst, Place, InLine, Branches!Works
<1> QED  BY <1>1 DEF BranchCore, BranchLines, Lined

LEMMA BranchStepKeeps ==
  ASSUME BranchIInv, Branches!RegistrationNext
  PROVE  BranchIInv'
<1> USE BranchesFit DEF Branches!Goto, Branches!Fault, Branches!Write
<1>t. /\ BranchCore /\ RowsTyped /\ RowsFit /\ Branches!SyncingIsWorked /\ Branches!ClosedIsQuiet /\ CallsFit
      /\ asked \in [BranchCalls -> [pc : Branches!Steps, key : BranchKeys \cup {Branches!NoKey}]]
      /\ failures \in Nat
  BY DEF BranchIInv, BranchRows, BranchCore, BranchCallType, RowsTyped
<1>k. \A c \in BranchCalls : asked[c].pc # "out" => asked[c].key \in BranchKeys
  BY <1>t DEF CallsFit
<1>o. \A c, d \in BranchCalls : c # d /\ Branches!Works(c) /\ (Branches!Works(d) \/ bPrior[d] = nobody) /\ InLine(d)
                                  => asked[c].key # asked[d].key
  BY <1>t, OneWorks
<1>n. ASSUME NEW c \in BranchCalls, NEW k \in BranchKeys, asked[c].pc \in {"out", "insert"}, Branches!Enter(c, k)
      PROVE  BranchIInv'
  <2>1. BranchCore'
    BY <1>t, <1>n, EnterKeeps
  <2>2. /\ asked'[c].pc = "waiting" /\ \A d \in BranchCalls : d # c => asked'[d] = asked[d]
        /\ shut = "open" /\ UNCHANGED <<branch, removing, shut, failures>>
    BY <1>t, <1>n DEF Branches!Enter
  <2>3. \A d \in BranchCalls : (Branches!Works(d)' <=> Branches!Works(d)) /\ (Branches!Works(d) => asked'[d] = asked[d])
    BY <1>n, <2>2 DEF Branches!Works
  <2>4. RowsTyped' /\ RowsFit'
    BY <1>t, <2>2, <2>3 DEF RowsTyped, RowsFit
  <2>5. Branches!SyncingIsWorked'
    BY <1>t, <2>2, <2>3 DEF Branches!SyncingIsWorked
  <2>6. Branches!ClosedIsQuiet'
    BY <2>2 DEF Branches!ClosedIsQuiet
  <2> QED  BY <2>1, <2>4, <2>5, <2>6 DEF BranchIInv, BranchRows
<1>1. ASSUME NEW c \in BranchCalls, NEW k \in BranchKeys, Branches!SyncOrPrepare(c, k)
      PROVE  BranchIInv'
  BY <1>1, <1>n DEF Branches!SyncOrPrepare
<1>2. ASSUME NEW c \in BranchCalls, NEW k \in BranchKeys, Branches!Register(c, k)
      PROVE  BranchIInv'
  <2>1. /\ asked' = [asked EXCEPT ![c] = [pc |-> "insert", key |-> k]] /\ asked[c].pc = "out"
        /\ branch[k] = "none" /\ branch' = [branch EXCEPT ![k] = "PENDING"] /\ shut = "open"
        /\ UNCHANGED <<bTail, bPrior, removing, admitted, shut, failures>>
    BY <1>2 DEF Branches!Register
  <2>2. /\ asked' \in [BranchCalls -> BranchCallType]
        /\ asked'[c].pc = "insert" /\ asked'[c].key = k /\ \A d \in BranchCalls : d # c => asked'[d] = asked[d]
    BY <1>t, <2>1 DEF BranchCallType, Branches!Steps
  <2>3. BranchCore'
    BY <1>t, <2>1, <2>2, MoveKeeps DEF InLine, Branches!Works
  <2>4. \A d \in BranchCalls : (Branches!Works(d)' <=> Branches!Works(d)) /\ (Branches!Works(d) => asked'[d] = asked[d])
    BY <2>1, <2>2 DEF Branches!Works
  <2>5. \A l \in BranchKeys : branch'[l] = IF l = k THEN "PENDING" ELSE branch[l]
    BY <1>t, <2>1 DEF RowsTyped
  <2>6. RowsTyped'
    BY <1>t, <2>1 DEF RowsTyped
  <2>7. RowsFit'
    BY <1>t, <1>k, <2>1, <2>4, <2>5 DEF RowsFit, Branches!Works
  <2>8. Branches!SyncingIsWorked'
    BY <1>t, <2>1, <2>4, <2>5 DEF Branches!SyncingIsWorked
  <2>9. Branches!ClosedIsQuiet'
    BY <2>1 DEF Branches!ClosedIsQuiet
  <2> QED  BY <2>3, <2>6, <2>7, <2>8, <2>9 DEF BranchIInv, BranchRows
<1>3. ASSUME NEW c \in BranchCalls, Branches!Registered(c)
      PROVE  BranchIInv'
  <2>1. CASE Branches!Enter(c, asked[c].key)
    BY <1>3, <1>k, <1>n, <2>1 DEF Branches!Registered
  <2>2. CASE /\ asked' = [asked EXCEPT ![c] = [pc |-> "out", key |-> Branches!NoKey]]
             /\ UNCHANGED <<bTail, bPrior, branch, removing, admitted, shut, failures>>
    <3>0. asked[c].pc = "insert"
      BY <1>3 DEF Branches!Registered
    <3>1. /\ asked' \in [BranchCalls -> BranchCallType]
          /\ asked'[c].pc = "out" /\ asked'[c].key = Branches!NoKey
          /\ \A d \in BranchCalls : d # c => asked'[d] = asked[d]
      BY <1>t, <2>2 DEF BranchCallType, Branches!Steps
    <3>2. BranchCore'
      BY <1>t, <2>2, <3>0, <3>1, MoveKeeps DEF InLine, Branches!Works
    <3>3. \A d \in BranchCalls : (Branches!Works(d)' <=> Branches!Works(d)) /\ (Branches!Works(d) => asked'[d] = asked[d])
      BY <3>0, <3>1 DEF Branches!Works
    <3>4. RowsTyped' /\ RowsFit'
      BY <1>t, <2>2, <3>3 DEF RowsTyped, RowsFit
    <3>5. Branches!SyncingIsWorked'
      BY <1>t, <2>2, <3>3 DEF Branches!SyncingIsWorked
    <3>6. Branches!ClosedIsQuiet'
      BY <1>t, <2>2, <3>1, <3>3 DEF Branches!ClosedIsQuiet
    <3> QED  BY <3>2, <3>4, <3>5, <3>6 DEF BranchIInv, BranchRows
  <2> QED  BY <1>3, <2>1, <2>2 DEF Branches!Registered
<1>l. ASSUME NEW c \in BranchCalls, InLine(c), bPrior[c] = nobody, Branches!Left(c),
             UNCHANGED <<removing, shut>>, failures' \in {failures, failures + 1}, failures' <= Failures,
             \/ UNCHANGED branch /\ ~Branches!Works(c)
             \/ UNCHANGED branch /\ failures' = failures + 1
             \/ \E s \in {"READY", "FAILED"} :
                  branch' = [branch EXCEPT ![asked[c].key] = IF @ = "gone" THEN "gone" ELSE s]
      PROVE  BranchIInv'
  <2>1. BranchCore'
    BY <1>t, <1>l, LeftKeeps
  <2>2. /\ asked'[c].pc = "out" /\ \A d \in BranchCalls : d # c => asked'[d] = asked[d]
        /\ asked[c].key \in BranchKeys
    BY <1>t, <1>k, <1>l DEF Branches!Left, InLine
  <2>3. \A l \in BranchKeys : \/ branch'[l] = branch[l]
                              \/ l = asked[c].key /\ branch'[l] \in {"READY", "FAILED", "gone"}
    BY <1>t, <1>l, <2>2 DEF RowsTyped
  <2>4. RowsTyped'
    <3>1. branch' \in [BranchKeys -> {"none", "PENDING", "SYNCING", "READY", "FAILED", "gone"}]
      BY <1>t, <1>l, <2>2 DEF RowsTyped
    <3> QED  BY <1>t, <1>l, <3>1 DEF RowsTyped
  <2>5. RowsFit'
    <3> SUFFICES ASSUME NEW d \in BranchCalls, Branches!Works(d)' PROVE branch'[asked'[d].key] \in {"SYNCING", "gone"}
      BY DEF RowsFit, Branches!Works
    <3>1. d # c /\ asked'[d] = asked[d] /\ Branches!Works(d)
      BY <2>2 DEF Branches!Works
    <3>2. asked[d].key # asked[c].key /\ asked[d].key \in BranchKeys
      BY <1>o, <1>k, <1>l, <3>1 DEF Branches!Works
    <3> QED  BY <1>t, <2>3, <3>1, <3>2 DEF RowsFit
  <2>6. Branches!SyncingIsWorked'
    <3> SUFFICES ASSUME NEW l \in BranchKeys, branch'[l] = "SYNCING", ~(failures' > 0)
                 PROVE  \E d \in BranchCalls : Branches!Works(d)' /\ asked'[d].key = l
      BY DEF Branches!SyncingIsWorked, Branches!Works
    <3>1. branch[l] = "SYNCING" /\ ~(failures > 0)
      BY <1>t, <1>l, <2>3
    <3>2. PICK d \in BranchCalls : Branches!Works(d) /\ asked[d].key = l
      BY <1>t, <3>1 DEF Branches!SyncingIsWorked
    <3>3. d # c
      <4>1. CASE UNCHANGED branch /\ ~Branches!Works(c)
        BY <3>2, <4>1
      <4>2. CASE failures' = failures + 1
        BY <1>t, <3>1, <4>2
      <4>3. CASE \E s \in {"READY", "FAILED"} :
                   branch' = [branch EXCEPT ![asked[c].key] = IF @ = "gone" THEN "gone" ELSE s]
        BY <1>t, <3>2, <4>3, <2>2 DEF RowsTyped
      <4> QED  BY <1>l, <4>1, <4>2, <4>3
    <3> QED  BY <2>2, <3>2, <3>3 DEF Branches!Works
  <2>7. Branches!ClosedIsQuiet'
    BY <1>t, <1>l, <2>2 DEF Branches!ClosedIsQuiet, Branches!Works
  <2> QED  BY <2>1, <2>4, <2>5, <2>6, <2>7 DEF BranchIInv, BranchRows
<1>m. ASSUME NEW c \in BranchCalls, NEW pc \in {"work", "ready", "failed"}, InLine(c), bPrior[c] = nobody,
             asked' = [asked EXCEPT ![c].pc = pc], UNCHANGED <<bTail, bPrior, admitted, removing, shut>>,
             failures' \in {failures, failures + 1}, failures' <= Failures,
             \/ UNCHANGED branch /\ Branches!Works(c)
             \/ /\ branch' = [branch EXCEPT ![asked[c].key] = IF @ = "gone" THEN "gone" ELSE "SYNCING"]
                /\ shut = "open"
      PROVE  BranchIInv'
  <2>1. /\ asked' \in [BranchCalls -> BranchCallType]
        /\ asked'[c].pc = pc /\ asked'[c].key = asked[c].key /\ asked[c].key \in BranchKeys
        /\ \A d \in BranchCalls : d # c => asked'[d] = asked[d]
    BY <1>t, <1>k, <1>m DEF BranchCallType, Branches!Steps, InLine
  <2>2. BranchCore'
    BY <1>t, <1>m, <2>1, MoveKeeps DEF InLine
  <2>3. \A l \in BranchKeys : \/ branch'[l] = branch[l] /\ (l = asked[c].key => branch'[l] \in {"SYNCING", "gone"})
                              \/ l = asked[c].key /\ branch'[l] \in {"SYNCING", "gone"}
    BY <1>t, <1>m, <2>1 DEF RowsTyped, RowsFit
  <2>4. RowsTyped'
    <3>1. branch' \in [BranchKeys -> {"none", "PENDING", "SYNCING", "READY", "FAILED", "gone"}]
      BY <1>t, <1>m, <2>1 DEF RowsTyped
    <3> QED  BY <1>t, <1>m, <3>1 DEF RowsTyped
  <2>5. RowsFit'
    <3> SUFFICES ASSUME NEW d \in BranchCalls, Branches!Works(d)' PROVE branch'[asked'[d].key] \in {"SYNCING", "gone"}
      BY DEF RowsFit, Branches!Works
    <3>1. CASE d = c
      BY <2>1, <2>3, <3>1
    <3>2. CASE d # c
      <4>1. Branches!Works(d) /\ asked'[d] = asked[d] /\ asked[d].key # asked[c].key /\ asked[d].key \in BranchKeys
        BY <1>k, <1>o, <1>m, <2>1, <3>2 DEF Branches!Works
      <4> QED  BY <1>t, <2>3, <4>1 DEF RowsFit
    <3> QED  BY <3>1, <3>2
  <2>6. Branches!SyncingIsWorked'
    <3> SUFFICES ASSUME NEW l \in BranchKeys, branch'[l] = "SYNCING", ~(failures' > 0)
                 PROVE  \E d \in BranchCalls : Branches!Works(d)' /\ asked'[d].key = l
      BY DEF Branches!SyncingIsWorked, Branches!Works
    <3>1. CASE l = asked[c].key
      BY <1>m, <2>1, <3>1 DEF Branches!Works
    <3>2. CASE l # asked[c].key
      <4>1. branch[l] = "SYNCING" /\ ~(failures > 0)
        BY <1>t, <1>m, <2>3, <3>2
      <4> QED  BY <1>t, <4>1, <2>1, <3>2 DEF Branches!SyncingIsWorked, Branches!Works
    <3> QED  BY <3>1, <3>2
  <2>7. Branches!ClosedIsQuiet'
    BY <1>t, <1>m, <2>1 DEF Branches!ClosedIsQuiet, Branches!Works
  <2> QED  BY <2>2, <2>4, <2>5, <2>6, <2>7 DEF BranchIInv, BranchRows
<1>w. \A c \in BranchCalls : Branches!Works(c) => bPrior[c] = nobody /\ InLine(c)
  BY <1>t DEF BranchCore, WorkersFirst, Branches!Works, InLine
<1>f. failures <= Failures /\ failures + 1 # failures
  BY <1>t DEF RowsTyped
<1>4. ASSUME NEW c \in BranchCalls, Branches!Mark(c)
      PROVE  BranchIInv'
  <2>1. InLine(c) /\ ~Branches!Works(c) /\ bPrior[c] = nobody /\ UNCHANGED <<removing, shut>>
    BY <1>4 DEF Branches!Mark, Branches!First, InLine, Branches!Works
  <2>2. CASE shut # "open" \/ branch[asked[c].key] = "gone"
    <3>1. Branches!Left(c) /\ UNCHANGED <<branch, failures>>
      BY <1>4, <2>2 DEF Branches!Mark, Branches!Refused
    <3> QED  BY <1>f, <1>l, <2>1, <3>1
  <2>3. CASE ~(shut # "open" \/ branch[asked[c].key] = "gone")
    <3>1. CASE /\ branch' = [branch EXCEPT ![asked[c].key] = IF @ = "gone" THEN "gone" ELSE "SYNCING"]
               /\ asked' = [asked EXCEPT ![c].pc = "work"] /\ UNCHANGED <<bTail, bPrior, admitted, failures>>
      BY <1>f, <1>m, <2>1, <2>3, <3>1
    <3>2. CASE failures < Failures /\ failures' = failures + 1 /\ Branches!Left(c) /\ UNCHANGED branch
      <4>1. failures' <= Failures
        BY <1>t, <3>2
      <4> QED  BY <1>l, <2>1, <3>2, <4>1
    <3> QED  BY <1>4, <2>3, <3>1, <3>2 DEF Branches!Mark
  <2> QED  BY <2>2, <2>3
<1>5. ASSUME NEW c \in BranchCalls, Branches!Work(c)
      PROVE  BranchIInv'
  <2>1. Branches!Works(c) /\ UNCHANGED <<bTail, bPrior, branch, removing, admitted, shut, failures>>
    BY <1>5 DEF Branches!Work, Branches!Works
  <2>2. PICK pc \in {"ready", "failed"} : asked' = [asked EXCEPT ![c].pc = pc]
    BY <1>5 DEF Branches!Work
  <2> QED  BY <1>f, <1>m, <1>w, <2>1, <2>2
<1>6. ASSUME NEW c \in BranchCalls, Branches!Ready(c)
      PROVE  BranchIInv'
  <2>1. Branches!Works(c) /\ UNCHANGED <<removing, shut>>
    BY <1>6 DEF Branches!Ready, Branches!Works
  <2>2. CASE /\ branch' = [branch EXCEPT ![asked[c].key] = IF @ = "gone" THEN "gone" ELSE "READY"]
             /\ Branches!Left(c) /\ UNCHANGED failures
    BY <1>f, <1>l, <1>w, <2>1, <2>2
  <2>3. CASE /\ failures < Failures /\ failures' = failures + 1
             /\ asked' = [asked EXCEPT ![c].pc = "failed"] /\ UNCHANGED <<bTail, bPrior, branch, admitted>>
    <3>1. failures' <= Failures
      BY <1>t, <2>3
    <3> QED  BY <1>m, <1>w, <2>1, <2>3, <3>1
  <2> QED  BY <1>6, <2>2, <2>3 DEF Branches!Ready
<1>7. ASSUME NEW c \in BranchCalls, Branches!Failed(c)
      PROVE  BranchIInv'
  <2>1. Branches!Works(c) /\ Branches!Left(c) /\ UNCHANGED <<removing, shut>>
    BY <1>7 DEF Branches!Failed, Branches!Works
  <2>2. CASE /\ branch' = [branch EXCEPT ![asked[c].key] = IF @ = "gone" THEN "gone" ELSE "FAILED"]
             /\ UNCHANGED failures
    BY <1>f, <1>l, <1>w, <2>1, <2>2
  <2>3. CASE failures < Failures /\ failures' = failures + 1 /\ UNCHANGED branch
    <3>1. failures' <= Failures
      BY <1>t, <2>3
    <3> QED  BY <1>l, <1>w, <2>1, <2>3, <3>1
  <2> QED  BY <1>7, <2>2, <2>3 DEF Branches!Failed
<1>s. ASSUME UNCHANGED <<bTail, bPrior, asked, admitted>>
      PROVE  BranchCore' /\ \A c \in BranchCalls : Branches!Works(c)' <=> Branches!Works(c)
  BY <1>t, <1>s DEF BranchCore, BranchLines, Place, InLine, CallsFit, WorkersFirst, Counted, AdmittedOf, AllAdmitted,
     Branches!Works
<1>8. ASSUME NEW k \in BranchKeys, Branches!Remove(k) \/ Branches!Removed(k)
      PROVE  BranchIInv'
  <2>1. /\ UNCHANGED <<bTail, bPrior, asked, admitted, shut, failures>> /\ removing' \subseteq BranchKeys
        /\ branch' = branch \/ branch' = [branch EXCEPT ![k] = "gone"]
    BY <1>8, <1>t DEF Branches!Remove, Branches!Removed, RowsTyped
  <2>2. BranchCore'
    BY <1>s, <2>1
  <2>3. RowsTyped' /\ RowsFit'
    BY <1>t, <1>k, <2>1 DEF RowsTyped, RowsFit, Branches!Works
  <2>4. Branches!SyncingIsWorked'
    BY <1>t, <2>1 DEF RowsTyped, Branches!SyncingIsWorked, Branches!Works
  <2>5. Branches!ClosedIsQuiet'
    BY <1>t, <2>1 DEF Branches!ClosedIsQuiet, Branches!Works
  <2> QED  BY <2>2, <2>3, <2>4, <2>5 DEF BranchIInv, BranchRows
<1>9. ASSUME Branches!Shut \/ Branches!ShutEnds
      PROVE  BranchIInv'
  <2>1. UNCHANGED <<bTail, bPrior, branch, asked, removing, admitted, failures>>
    BY <1>9 DEF Branches!Shut, Branches!ShutEnds
  <2>2. BranchCore'
    BY <1>s, <2>1
  <2>3. RowsTyped' /\ RowsFit' /\ Branches!SyncingIsWorked'
    BY <1>t, <1>9, <2>1 DEF Branches!Shut, Branches!ShutEnds, RowsTyped, RowsFit, Branches!SyncingIsWorked, Branches!Works
  <2>4. Branches!ClosedIsQuiet'
    <3>1. CASE Branches!Shut
      BY <3>1 DEF Branches!Shut, Branches!ClosedIsQuiet
    <3>2. CASE Branches!ShutEnds
      <4>1. \A k \in BranchKeys : bTail[k] = nobody
        BY <3>2 DEF Branches!ShutEnds, Branches!NobodyWorks, Branches!Tailed
      <4>2. \A c \in BranchCalls : Place[c] = Branches!NoKey
        BY <4>1, <1>t DEF BranchCore, BranchLines, Lined
      <4>3. \A c \in BranchCalls : ~InLine(c)
        BY <1>t, <4>2 DEF Place, CallsFit, InLine
      <4> QED  BY <2>1, <4>3 DEF Branches!ClosedIsQuiet, Branches!Works, InLine
    <3> QED  BY <1>9, <3>1, <3>2
  <2> QED  BY <2>2, <2>3, <2>4 DEF BranchIInv, BranchRows
<1>10. ASSUME Branches!Recover
      PROVE  BranchIInv'
  <2>1. /\ bTail' = [k \in BranchKeys |-> nobody] /\ bPrior' = [c \in BranchCalls |-> nobody]
        /\ asked' = [c \in BranchCalls |-> [pc |-> "out", key |-> Branches!NoKey]]
        /\ admitted' = [o \in Branches!Owners |-> 0]
    BY <1>10 DEF Branches!Recover
  <2>2. BranchCore'
    <3>1. Fresh'
      BY <2>1 DEF Fresh
    <3>2. Fresh' => BranchCore'
      BY FreshBranches, PTL
    <3> QED  BY <3>1, <3>2
  <2>3. RowsTyped'
    BY <1>t, <1>10 DEF Branches!Recover, RowsTyped
  <2>4. \A k \in BranchKeys : branch'[k] # "SYNCING"
    BY <1>t, <1>10 DEF Branches!Recover, RowsTyped
  <2>5. RowsFit' /\ Branches!SyncingIsWorked' /\ Branches!ClosedIsQuiet'
    BY <2>1, <2>4 DEF RowsFit, Branches!SyncingIsWorked, Branches!ClosedIsQuiet, Branches!Works
  <2> QED  BY <2>2, <2>3, <2>5 DEF BranchIInv, BranchRows
<1> QED  BY <1>1, <1>2, <1>3, <1>4, <1>5, <1>6, <1>7, <1>8, <1>9, <1>10
     DEF Branches!RegistrationNext, Branches!GoOn

LEMMA BranchImplies ==
  ASSUME BranchIInv
  PROVE  /\ Branches!RegistrationTypeOK /\ Branches!OneCallWorks /\ Branches!SyncingIsWorked
         /\ Branches!AdmissionsAreCalls /\ Branches!ClosedIsQuiet
<1>1. Branches!RegistrationTypeOK
  BY DEF BranchIInv, BranchCore, BranchRows, BranchLines, Lined, RowsTyped, Counted, BranchCallType,
     Branches!RegistrationTypeOK
<1>2. Branches!OneCallWorks
  BY OneWorks DEF BranchIInv, BranchRows, RowsFit, Branches!OneCallWorks, InLine, Branches!Works
<1>3. Branches!AdmissionsAreCalls
  <2>1. /\ \A o \in Branches!Owners : admitted[o] = Cardinality(AdmittedOf(o)) /\ admitted[o] <= PerOwner
        /\ Cardinality(AllAdmitted) <= Server
    BY DEF BranchIInv, BranchCore, Counted
  <2>2. /\ \A o : AdmittedOf(o) = {c \in BranchCalls : asked[c].pc \notin {"out", "insert"} /\ BranchOwner(asked[c].key) = o}
        /\ AllAdmitted = {c \in BranchCalls : asked[c].pc \notin {"out", "insert"}}
    BY Zenon DEF AdmittedOf, AllAdmitted, InLine
  <2>3. \A o \in Branches!Owners :
          admitted[o] = Cardinality({c \in BranchCalls : asked[c].pc \notin {"out", "insert"} /\ BranchOwner(asked[c].key) = o})
    BY <2>1, <2>2, Zenon
  <2>4. Cardinality({c \in BranchCalls : asked[c].pc \notin {"out", "insert"}}) <= Server
    BY <2>1, <2>2, Zenon
  <2>5. \A S : Branches!Cardinality(S) = Cardinality(S)
    BY Zenon DEF Branches!Cardinality, Cardinality
  <2> QED  BY <2>1, <2>3, <2>4, <2>5, Zenon DEF Branches!AdmissionsAreCalls
<1> QED  BY <1>1, <1>2, <1>3 DEF BranchIInv, BranchRows

LEMMA BranchStarts ==
  ASSUME Branches!RegistrationInit
  PROVE  BranchIInv
<1> USE DEF Branches!RegistrationInit
<1>1. BranchCore
  BY FreshBranches DEF Fresh
<1>2. BranchRows
  BY BranchesFit DEF BranchRows, RowsTyped, RowsFit, Branches!SyncingIsWorked, Branches!ClosedIsQuiet, Branches!Works
<1> QED  BY <1>1, <1>2 DEF BranchIInv

-----------------------------------------------------------------------------
(* The run storage.  What rests needs its directory no more, and never     *)
(* will again: what is deleted was found to rest, or rested already when   *)
(* the database was asked. The shared directory rests when all who refer   *)
(* to it are idle and the runs of the earlier version rest.                *)
Rests(r) == job[r] \in {"expired", "approved", "final"} /\ r \notin Storage!Executed
AtRest(r) == job[r] \notin {"prepared", "active", "approvable", "cli"} /\ r \notin Storage!Executed
SharedRests == (\A r \in earlier : Rests(r)) /\ \A r \in Runs : Storage!Refers(r) => AtRest(r)
DirectoryRests(d) == IF d = Shared THEN SharedRests ELSE Rests(d)

LooksKept ==
  /\ cleaner.pc \in {"query", "protect"} => cleaner.candidates \subseteq directory
  /\ cleaner.pc = "protect" => /\ \A r \in cleaner.known : r \in cleaner.protected \cup {Shared} \/ Rests(r)
                               /\ Shared \in cleaner.protected \/ SharedRests
  /\ cleaner.pc \in {"retention", "quota"} => \A d \in cleaner.candidates \ cleaner.protected : DirectoryRests(d)

(* An execution is no run of the command line and is not prepared; a run   *)
(* of the earlier version has its row.                                     *)
RunIInv ==
  /\ Storage!RunTypeOK
  /\ \A e \in DOMAIN Execution : job[e] \notin {"prepared", "cli"}
  /\ \A r \in earlier : job[r] \notin {"none", "prepared", "cli"}
  /\ LooksKept

CleanerType == [pc : Storage!Steps, candidates : SUBSET Storage!Directories, known : SUBSET Storage!Directories,
                protected : SUBSET Storage!Directories, joined : BOOLEAN]

LEMMA RunsAre ==
  ASSUME RunIInv
  PROVE  /\ job \in [Runs -> Storage!Jobs] /\ earlier \subseteq Runs
         /\ directory \subseteq Storage!Directories /\ aged \subseteq Storage!Directories
         /\ cleaner \in CleanerType /\ admission \in {"none", "asks"} \cup Storage!Answers
         /\ \A e \in DOMAIN Execution : job[e] \notin {"prepared", "cli"} /\ e \in Runs /\ Execution[e] \in Runs
         /\ \A r \in earlier : job[r] \notin {"none", "prepared", "cli"}
         /\ LooksKept
         /\ Storage!Directories = Runs \cup {Shared} /\ Shared \notin Runs
BY StoresAssumption DEF RunIInv, Storage!RunTypeOK, CleanerType, Storage!Directories

(* Who becomes active was neither idle nor executed before: it was started *)
(* just now, or approved from a dry run that could be.                     *)
LEMMA JobsMove ==
  ASSUME RunIInv, Storage!RunNext
  PROVE  /\ UNCHANGED earlier /\ job' \in [Runs -> Storage!Jobs]
         /\ \/ UNCHANGED job
            \/ \E r \in Runs : /\ job' = [job EXCEPT ![r] = job'[r]]
                               /\ r \in DOMAIN Execution => job[r] \in {"active", "approvable"}
                               /\ \/ job[r] = "none" /\ job'[r] = "prepared" /\ r \notin DOMAIN Execution
                                  \/ job[r] = "prepared" /\ job'[r] = "active"
                                  \/ job[r] = "active" /\ job'[r] \in {"approvable", "final"}
                                  \/ job[r] = "approvable" /\ job'[r] = "expired"
            \/ \E e \in DOMAIN Execution :
                 /\ job[e] = "none" /\ job[Execution[e]] = "approvable"
                 /\ job' = [job EXCEPT ![e] = "active", ![Execution[e]] = "approved"]
<1>0. job \in [Runs -> Storage!Jobs] /\ \A e \in DOMAIN Execution : e \in Runs /\ Execution[e] \in Runs /\ job[e] # "prepared"
  BY RunsAre
<1>1. ASSUME NEW r \in Runs, Storage!Prepare(r) \/ Storage!JobGoesOn(r)
      PROVE  /\ UNCHANGED earlier /\ job' \in [Runs -> Storage!Jobs]
             /\ job' = [job EXCEPT ![r] = job'[r]]
             /\ r \in DOMAIN Execution => job[r] \in {"active", "approvable"}
             /\ \/ job[r] = "none" /\ job'[r] = "prepared" /\ r \notin DOMAIN Execution
                \/ job[r] = "prepared" /\ job'[r] = "active"
                \/ job[r] = "active" /\ job'[r] \in {"approvable", "final"}
                \/ job[r] = "approvable" /\ job'[r] = "expired"
  BY <1>0, <1>1 DEF Storage!Prepare, Storage!JobGoesOn, Storage!Become, Storage!Jobs
<1>2. ASSUME NEW e \in DOMAIN Execution, Storage!Approve(e)
      PROVE  /\ UNCHANGED earlier /\ job' \in [Runs -> Storage!Jobs]
             /\ job[e] = "none" /\ job[Execution[e]] = "approvable"
             /\ job' = [job EXCEPT ![e] = "active", ![Execution[e]] = "approved"]
  BY <1>0, <1>2 DEF Storage!Approve, Storage!Jobs
<1>3. CASE UNCHANGED <<earlier, job>>
  BY <1>0, <1>3
<1>4. Storage!RunNext => \/ \E r \in Runs : Storage!Prepare(r) \/ Storage!JobGoesOn(r)
                         \/ \E e \in DOMAIN Execution : Storage!Approve(e)
                         \/ UNCHANGED <<earlier, job>>
  BY DEF Storage!RunNext, Storage!Age, Storage!Tick, Storage!Ask, Storage!Clean, Storage!Again, Storage!Before,
         Storage!Scan, Storage!Query, Storage!ProtectUnknown, Storage!Retention, Storage!Quota, Storage!CleanFails
<1>5. CASE \E r \in Runs : Storage!Prepare(r) \/ Storage!JobGoesOn(r)
  BY <1>1, <1>5
<1>6. CASE \E e \in DOMAIN Execution : Storage!Approve(e)
  BY <1>2, <1>6
<1> QED  BY <1>3, <1>4, <1>5, <1>6

LEMMA AtRestStays ==
  ASSUME RunIInv, Storage!RunNext, NEW r \in Runs, AtRest(r),
         job[r] = "none" => r \in DOMAIN Execution /\ job[Execution[r]] # "approvable"
  PROVE  AtRest(r)' /\ (Rests(r) => Rests(r)')
<1>0. /\ job \in [Runs -> Storage!Jobs] /\ \A e \in DOMAIN Execution : e \in Runs /\ Execution[e] \in Runs
      /\ job[r] \in {"none", "expired", "approved", "final"}
      /\ \A e \in DOMAIN Execution : job[e] = "active" => Execution[e] # r
  BY RunsAre DEF AtRest, Storage!Jobs, Storage!Executed
<1>1. job'[r] = job[r] /\ \A e \in DOMAIN Execution : job'[e] = "active" => Execution[e] # r
  <2>1. CASE UNCHANGED job
    BY <1>0, <2>1
  <2>2. ASSUME NEW s \in Runs, job' = [job EXCEPT ![s] = job'[s]],
               s \in DOMAIN Execution => job[s] \in {"active", "approvable"},
               \/ job[s] = "none" /\ job'[s] = "prepared" /\ s \notin DOMAIN Execution
               \/ job[s] = "prepared" /\ job'[s] = "active"
               \/ job[s] = "active" /\ job'[s] \in {"approvable", "final"}
               \/ job[s] = "approvable" /\ job'[s] = "expired"
        PROVE  job'[r] = job[r] /\ \A e \in DOMAIN Execution : job'[e] = "active" => Execution[e] # r
    <3>1. s # r
      BY <1>0, <2>2
    <3>2. \A e \in DOMAIN Execution : job'[e] = "active" => job[e] = "active"
      BY <1>0, <2>2
    <3> QED  BY <1>0, <2>2, <3>1, <3>2
  <2>3. ASSUME NEW e \in DOMAIN Execution, job[e] = "none", job[Execution[e]] = "approvable",
               job' = [job EXCEPT ![e] = "active", ![Execution[e]] = "approved"]
        PROVE  job'[r] = job[r] /\ \A x \in DOMAIN Execution : job'[x] = "active" => Execution[x] # r
    <3>1. e # r /\ Execution[e] # r
      BY <1>0, <2>3
    <3>2. \A x \in DOMAIN Execution : job'[x] = "active" => job[x] = "active" \/ x = e
      BY <1>0, <2>3
    <3> QED  BY <1>0, <2>3, <3>1, <3>2
  <2> QED  BY <2>1, <2>2, <2>3, JobsMove
<1> QED  BY <1>0, <1>1 DEF AtRest, Rests, Storage!Executed

LEMMA RestsStay ==
  ASSUME RunIInv, Storage!RunNext
  PROVE  /\ \A r \in Runs : Rests(r) => Rests(r)'
         /\ SharedRests => SharedRests'
<1>1. ASSUME NEW r \in Runs, Rests(r) PROVE Rests(r)'
  <2>1. AtRest(r) /\ job[r] # "none"
    BY <1>1 DEF AtRest, Rests
  <2> QED  BY <1>1, <2>1, AtRestStays
<1>2. ASSUME SharedRests PROVE SharedRests'
  <2>1. earlier' = earlier /\ earlier \subseteq Runs
    BY JobsMove, RunsAre
  <2>2. \A r \in earlier : Rests(r)'
    BY <1>1, <1>2, <2>1 DEF SharedRests
  <2>3. ASSUME NEW r \in Runs, Storage!Refers(r) PROVE AtRest(r)'
    <3>1. AtRest(r)
      BY <1>2, <2>3 DEF SharedRests
    <3>2. job[r] = "none" => r \in DOMAIN Execution /\ job[Execution[r]] # "approvable"
      BY <1>2, <2>3 DEF SharedRests, Rests, Storage!Refers
    <3> QED  BY <3>1, <3>2, AtRestStays
  <2>4. \A r \in Runs : Storage!Refers(r)' => Storage!Refers(r)
    BY <2>1 DEF Storage!Refers
  <2> QED  BY <2>1, <2>2, <2>3, <2>4 DEF SharedRests
<1> QED  BY <1>1, <1>2

LEMMA RunStepKeeps ==
  ASSUME RunIInv, Storage!RunNext
  PROVE  RunIInv'
<1> USE DEF Storage!IdleCleaner
<1>0. /\ job \in [Runs -> Storage!Jobs] /\ earlier \subseteq Runs
      /\ directory \subseteq Storage!Directories /\ aged \subseteq Storage!Directories
      /\ cleaner \in CleanerType /\ admission \in {"none", "asks"} \cup Storage!Answers
      /\ \A e \in DOMAIN Execution : job[e] \notin {"prepared", "cli"} /\ e \in Runs /\ Execution[e] \in Runs
      /\ \A r \in earlier : job[r] \notin {"none", "prepared", "cli"}
      /\ LooksKept /\ Storage!Directories = Runs \cup {Shared} /\ Shared \notin Runs
  BY RunsAre
<1>r. (\A r \in Runs : Rests(r) => Rests(r)') /\ (SharedRests => SharedRests')
  BY RestsStay
<1>j. /\ earlier' = earlier /\ job' \in [Runs -> Storage!Jobs]
      /\ \A e \in DOMAIN Execution : job'[e] \notin {"prepared", "cli"}
      /\ \A r \in earlier : job'[r] \notin {"none", "prepared", "cli"}
  BY <1>0, JobsMove
<1>q. ASSUME directory' \subseteq Storage!Directories, aged' \subseteq Storage!Directories, cleaner' \in CleanerType,
             admission' \in {"none", "asks"} \cup Storage!Answers, LooksKept'
      PROVE  RunIInv'
  BY <1>0, <1>j, <1>q DEF RunIInv, Storage!RunTypeOK, CleanerType, Storage!Directories
<1>k. ASSUME cleaner'.pc = cleaner.pc, cleaner'.candidates \subseteq cleaner.candidates, cleaner'.known = cleaner.known,
             cleaner'.protected = cleaner.protected, cleaner.pc \in {"query", "protect"} => directory \subseteq directory'
      PROVE  LooksKept'
  <2>1. cleaner.candidates \subseteq Runs \cup {Shared} /\ cleaner.known \subseteq Runs \cup {Shared}
    BY <1>0 DEF CleanerType
  <2>2. \A d \in Runs \cup {Shared} : DirectoryRests(d) => DirectoryRests(d)'
    BY <1>r DEF DirectoryRests
  <2> QED  BY <1>0, <1>k, <1>r, <2>1, <2>2 DEF LooksKept
<1>1. ASSUME UNCHANGED <<cleaner, admission>>, directory \subseteq directory', directory' \subseteq Storage!Directories,
             aged' \subseteq Storage!Directories
      PROVE  RunIInv'
  <2>1. LooksKept'
    BY <1>1, <1>k
  <2> QED  BY <1>0, <1>1, <1>q, <2>1
<1>2. ASSUME NEW r \in Runs, Storage!Prepare(r) \/ Storage!JobGoesOn(r)
      PROVE  RunIInv'
  <2>1. /\ UNCHANGED <<cleaner, admission>> /\ directory \subseteq directory'
        /\ directory' \subseteq Storage!Directories /\ aged' \subseteq Storage!Directories
    BY <1>0, <1>2 DEF Storage!Prepare, Storage!JobGoesOn
  <2> QED  BY <1>1, <2>1
<1>3. ASSUME NEW d \in Storage!Directories, Storage!Age(d)
      PROVE  RunIInv'
  <2>1. /\ UNCHANGED <<cleaner, admission, directory>> /\ aged' \subseteq Storage!Directories
    BY <1>0, <1>3 DEF Storage!Age
  <2> QED  BY <1>0, <1>1, <2>1
<1>4. ASSUME NEW e \in DOMAIN Execution, Storage!Approve(e)
      PROVE  RunIInv'
  <2>1. /\ UNCHANGED <<aged, cleaner, admission>> /\ directory \subseteq directory'
        /\ directory' \subseteq Storage!Directories
    BY <1>0, <1>4 DEF Storage!Approve
  <2> QED  BY <1>0, <1>1, <2>1
<1>5. ASSUME Storage!Tick \/ Storage!Ask \/ Storage!Again
      PROVE  RunIInv'
  <2>1. /\ UNCHANGED <<directory, aged>> /\ admission' \in {"none", "asks"} \cup Storage!Answers
        /\ cleaner' \in CleanerType
    BY <1>0, <1>5 DEF Storage!Tick, Storage!Ask, Storage!Again, Storage!Steps, CleanerType
  <2>2. \/ cleaner'.pc = "before"
        \/ /\ cleaner'.pc = cleaner.pc /\ cleaner'.candidates = cleaner.candidates
           /\ cleaner'.known = cleaner.known /\ cleaner'.protected = cleaner.protected
    BY <1>0, <1>5 DEF Storage!Tick, Storage!Ask, Storage!Again, CleanerType
  <2>3. LooksKept'
    BY <1>k, <2>1, <2>2 DEF LooksKept
  <2> QED  BY <1>0, <1>q, <2>1, <2>3
<1>6. ASSUME Storage!Before \/ Storage!Scan \/ Storage!CleanFails
      PROVE  RunIInv'
  <2>1. UNCHANGED <<directory, aged>> /\ admission' \in {"none", "asks"} \cup Storage!Answers
    BY <1>0, <1>6 DEF Storage!Before, Storage!Scan, Storage!CleanFails, Storage!Answers
  <2>2. \/ cleaner' \in CleanerType /\ cleaner'.pc \in {"scan", "idle"}
        \/ cleaner' \in CleanerType /\ cleaner'.pc = "query" /\ cleaner'.candidates = directory
    <3>1. CASE Storage!Before
      BY <1>0, <3>1 DEF Storage!Before, CleanerType, Storage!Steps
    <3>2. CASE Storage!Scan
      BY <1>0, <3>2 DEF Storage!Scan, CleanerType, Storage!Steps
    <3>3. CASE Storage!CleanFails
      BY <3>3 DEF Storage!CleanFails, CleanerType, Storage!Steps
    <3> QED  BY <1>6, <3>1, <3>2, <3>3
  <2>3. LooksKept'
    BY <2>1, <2>2 DEF LooksKept
  <2> QED  BY <1>0, <1>q, <2>1, <2>2, <2>3
<1>7. ASSUME Storage!Query
      PROVE  RunIInv'
  <2> DEFINE K == Storage!DirectoriesOf({r \in Runs : job[r] \notin {"none", "prepared", "cli"}})
             N == Storage!DirectoriesOf({r \in Runs : Storage!Needs(r)})
  <2>1. /\ UNCHANGED <<directory, aged, admission>> /\ cleaner.pc = "query"
        /\ cleaner' = [cleaner EXCEPT !.pc = "protect", !.known = K, !.protected = N]
    BY <1>7 DEF Storage!Query
  <2>2. K \subseteq Runs \cup {Shared} /\ N \subseteq Runs \cup {Shared}
    BY DEF Storage!DirectoriesOf
  <2>3. ASSUME NEW r \in K PROVE r \in N \cup {Shared} \/ Rests(r)
    BY <1>0, <2>3 DEF Rests, Storage!Needs, Storage!Jobs, Storage!DirectoriesOf
  <2>4. Shared \in N \/ SharedRests
    <3> SUFFICES ASSUME Shared \notin N PROVE SharedRests
      OBVIOUS
    <3>1. \A r \in Runs : Storage!Refers(r) => ~Storage!Needs(r)
      BY <1>0 DEF Storage!DirectoriesOf
    <3>2. \A r \in Runs : Storage!Refers(r) => r \in earlier \/ r \in DOMAIN Execution
      BY DEF Storage!Refers
    <3>3. \A r \in Runs : Storage!Refers(r) => AtRest(r)
      BY <1>0, <3>1, <3>2 DEF AtRest, Storage!Needs
    <3>4. \A r \in earlier : AtRest(r)
      BY <1>0, <3>3 DEF Storage!Refers
    <3>5. \A r \in earlier : Rests(r)
      BY <1>0, <3>4 DEF AtRest, Rests, Storage!Jobs
    <3> QED  BY <3>3, <3>5 DEF SharedRests
  <2> HIDE DEF K, N
  <2>5. /\ cleaner' \in CleanerType
        /\ cleaner'.pc = "protect" /\ cleaner'.known = K /\ cleaner'.protected = N
        /\ cleaner'.candidates = cleaner.candidates
    BY <1>0, <2>1, <2>2 DEF Storage!Steps, CleanerType
  <2>6. LooksKept'
    BY <1>0, <1>r, <2>1, <2>2, <2>3, <2>4, <2>5 DEF LooksKept
  <2> QED  BY <1>0, <1>q, <2>1, <2>5, <2>6
<1>8. ASSUME Storage!ProtectUnknown
      PROVE  RunIInv'
  <2>1. /\ UNCHANGED <<directory, aged, admission>> /\ cleaner.pc = "protect"
        /\ cleaner' \in CleanerType
        /\ cleaner'.pc = "retention" /\ cleaner'.candidates = cleaner.candidates
        /\ cleaner'.protected = cleaner.protected \cup (directory \ (cleaner.known \cup {Shared}))
    BY <1>0, <1>8 DEF Storage!ProtectUnknown, Storage!Steps, CleanerType
  <2>2. ASSUME NEW d \in cleaner.candidates, d \notin cleaner'.protected PROVE DirectoryRests(d)
    BY <1>0, <2>1, <2>2 DEF LooksKept, DirectoryRests
  <2>3. cleaner.candidates \subseteq Runs \cup {Shared}
    BY <1>0 DEF CleanerType
  <2>4. \A d \in cleaner'.candidates \ cleaner'.protected : DirectoryRests(d)'
    BY <1>r, <2>1, <2>2, <2>3 DEF DirectoryRests
  <2>5. LooksKept'
    BY <2>1, <2>4 DEF LooksKept
  <2> QED  BY <1>0, <1>q, <2>1, <2>5
<1>9. ASSUME Storage!Retention \/ Storage!Quota
      PROVE  RunIInv'
  <2>1. /\ directory' \subseteq Storage!Directories /\ aged' \subseteq Storage!Directories
        /\ admission' \in {"none", "asks"} \cup Storage!Answers /\ cleaner.pc \in {"retention", "quota"}
    BY <1>0, <1>9 DEF Storage!Retention, Storage!Quota, Storage!Delete, Storage!Answers
  <2>2. \/ cleaner' = Storage!IdleCleaner
        \/ cleaner' = [cleaner EXCEPT !.pc = "quota"]
        \/ \E d \in Storage!Directories : cleaner' = [cleaner EXCEPT !.candidates = @ \ {d}]
    BY <1>0, <1>9 DEF Storage!Retention, Storage!Quota, Storage!Expired, Storage!Spare, CleanerType
  <2>3. cleaner' \in CleanerType
    <3>1. CASE cleaner' = Storage!IdleCleaner
      BY <3>1 DEF Storage!Steps, CleanerType
    <3>2. CASE cleaner' = [cleaner EXCEPT !.pc = "quota"]
      BY <1>0, <3>2 DEF Storage!Steps, CleanerType
    <3>3. CASE \E d \in Storage!Directories : cleaner' = [cleaner EXCEPT !.candidates = @ \ {d}]
      <4> PICK d \in Storage!Directories : cleaner' = [cleaner EXCEPT !.candidates = @ \ {d}]
        BY <3>3
      <4> QED  BY <1>0 DEF CleanerType
    <3> QED  BY <2>2, <3>1, <3>2, <3>3
  <2>4. \/ cleaner'.pc = "idle"
        \/ /\ cleaner'.pc \in {"retention", "quota"} /\ cleaner'.candidates \subseteq cleaner.candidates
           /\ cleaner'.protected = cleaner.protected
    BY <1>0, <2>1, <2>2 DEF CleanerType
  <2>5. cleaner.candidates \subseteq Runs \cup {Shared}
    BY <1>0 DEF CleanerType
  <2>6. \A d \in cleaner.candidates \ cleaner.protected : DirectoryRests(d)'
    BY <1>0, <1>r, <2>1, <2>5 DEF LooksKept, DirectoryRests
  <2>7. LooksKept'
    BY <2>1, <2>4, <2>6 DEF LooksKept
  <2> QED  BY <1>q, <2>1, <2>3, <2>7
<1> QED  BY <1>2, <1>3, <1>4, <1>5, <1>6, <1>7, <1>8, <1>9 DEF Storage!RunNext, Storage!Clean

LEMMA RunStarts ==
  ASSUME Storage!RunInit
  PROVE  RunIInv
<1> USE StoresAssumption DEF Storage!RunInit, Storage!IdleCleaner, Storage!Directories
<1>1. earlier \subseteq Runs /\ \A r \in earlier : job[r] = "active" /\ r \notin DOMAIN Execution
  OBVIOUS
<1>2. \A e \in DOMAIN Execution : job[e] = "none"
  BY <1>1
<1>3. Storage!RunTypeOK
  BY DEF Storage!RunTypeOK, Storage!Jobs, Storage!Steps
<1>4. LooksKept
  BY DEF LooksKept
<1> QED  BY <1>1, <1>2, <1>3, <1>4 DEF RunIInv

(* What rests is not in use; a new run is refused only when nothing is     *)
(* left to delete.                                                         *)
LEMMA RunStepFits ==
  ASSUME RunIInv, Storage!RunNext
  PROVE  /\ directory \ directory' \subseteq Storage!Directories \ Storage!InUse
         /\ admission = "asks" /\ admission' = "refused"
              => /\ Storage!Cardinality(cleaner.candidates) > MaxBytes
                 /\ cleaner.candidates \subseteq cleaner.protected
<1>0. /\ directory \subseteq Storage!Directories /\ LooksKept /\ cleaner \in CleanerType
      /\ Storage!Directories = Runs \cup {Shared} /\ Shared \notin Runs
  BY RunsAre
<1>1. directory \ directory' \subseteq Storage!Directories \ Storage!InUse
  <2>1. CASE \E d \in cleaner.candidates \ cleaner.protected :
               directory' = directory \ {d} /\ cleaner.pc \in {"retention", "quota"}
    <3> PICK d \in cleaner.candidates \ cleaner.protected :
               directory' = directory \ {d} /\ cleaner.pc \in {"retention", "quota"}
      BY <2>1
    <3>1. DirectoryRests(d) /\ d \in Storage!Directories
      BY <1>0 DEF LooksKept, CleanerType
    <3>2. CASE d = Shared
      <4>1. \A r \in Runs : Storage!Refers(r) => AtRest(r)
        BY <3>1, <3>2 DEF DirectoryRests, SharedRests
      <4>2. Shared \notin Storage!InUse
        BY <1>0, <4>1 DEF AtRest, Storage!InUse, Storage!DirectoriesOf
      <4> QED  BY <1>0, <3>1, <3>2, <4>2
    <3>3. CASE d # Shared
      <4>1. Rests(d)
        BY <3>1, <3>3 DEF DirectoryRests
      <4>2. d \notin Storage!InUse
        BY <3>3, <4>1 DEF Rests, Storage!InUse, Storage!DirectoriesOf
      <4> QED  BY <1>0, <3>1, <4>2
    <3> QED  BY <3>2, <3>3
  <2>2. CASE directory \subseteq directory'
    BY <2>2
  <2> QED  BY <2>1, <2>2 DEF Storage!RunNext, Storage!Prepare, Storage!JobGoesOn, Storage!Age, Storage!Approve,
           Storage!Tick, Storage!Ask, Storage!Clean, Storage!Again, Storage!Before, Storage!Scan, Storage!Query,
           Storage!ProtectUnknown, Storage!Retention, Storage!Quota, Storage!Expired, Storage!Spare, Storage!Delete,
           Storage!CleanFails
<1>2. ASSUME admission = "asks", admission' = "refused"
      PROVE  /\ Storage!Cardinality(cleaner.candidates) > MaxBytes
             /\ cleaner.candidates \subseteq cleaner.protected
  <2>1. CASE Storage!Quota
    <3>1. ~(Storage!OverQuota /\ Storage!Spare # {}) /\ Storage!Cardinality(cleaner.candidates) > MaxBytes
      BY <1>2, <2>1 DEF Storage!Quota
    <3>2. Storage!Spare = {}
      BY <3>1 DEF Storage!OverQuota
    <3> QED  BY <3>1, <3>2 DEF Storage!Spare
  <2>2. CASE ~Storage!Quota
    BY <1>2, <2>2 DEF Storage!RunNext, Storage!Prepare, Storage!JobGoesOn, Storage!Age, Storage!Approve,
       Storage!Tick, Storage!Ask, Storage!Clean, Storage!Again, Storage!Before, Storage!Scan, Storage!Query,
       Storage!ProtectUnknown, Storage!Retention, Storage!CleanFails
  <2> QED  BY <2>1, <2>2
<1> QED  BY <1>1, <1>2

-----------------------------------------------------------------------------
(* The three of them: a step is one of one, the others rest.               *)
StoresIInv == store \in {"cache", "branches", "runs"} /\ CacheIInv /\ BranchIInv /\ RunIInv

LEMMA CacheRests == ASSUME CacheIInv, UNCHANGED cacheVars PROVE CacheIInv'
<1> USE DEF cacheVars
<1>1. CacheCore'
  BY DEF CacheIInv, CacheCore, Cache!CacheTypeOK, CacheLines, Standing, KeysFit, TurnsHold, Cache!Holding
<1>2. CacheUse'
  BY DEF CacheIInv, CacheUse, FullyCharged, Covered, Least, Cache!GrantedIsPresent, Marked, Locked, Cache!Holding
<1>3. Within'
  BY DEF CacheIInv, Within, Charge, Least, Cache!Settling
<1> QED  BY <1>1, <1>2, <1>3 DEF CacheIInv

LEMMA BranchRests == ASSUME BranchIInv, UNCHANGED branchVars PROVE BranchIInv'
<1> USE DEF branchVars
<1>1. BranchCore'
  BY DEF BranchIInv, BranchCore, BranchLines, Place, InLine, CallsFit, WorkersFirst, Counted, AdmittedOf, AllAdmitted,
     Branches!Works
<1>2. BranchRows'
  BY DEF BranchIInv, BranchRows, RowsTyped, RowsFit, Branches!SyncingIsWorked, Branches!ClosedIsQuiet, Branches!Works
<1> QED  BY <1>1, <1>2 DEF BranchIInv

LEMMA RunRests == ASSUME RunIInv, UNCHANGED runVars PROVE RunIInv'
BY DEF runVars, RunIInv, Storage!RunTypeOK, LooksKept, Rests, DirectoryRests, SharedRests, AtRest, Storage!Executed,
       Storage!Refers, Storage!Directories, Storage!Answers

LEMMA StoresStart == MCInit => StoresIInv
BY CacheStarts, BranchStarts, RunStarts DEF MCInit, StoresIInv

LEMMA StoresNext == StoresIInv /\ [MCNext]_allVars => StoresIInv'
<1> SUFFICES ASSUME StoresIInv, [MCNext]_allVars PROVE StoresIInv'
  OBVIOUS
<1> USE DEF StoresIInv
<1>1. CASE CacheStep(Cache!CacheNext)
  <2>1. Cache!CacheNext /\ UNCHANGED <<store, branchVars, runVars>>
    BY <1>1 DEF CacheStep, Of
  <2>2. CacheCore'
    BY <2>1, CacheCoreStep DEF CacheIInv
  <2>3. CacheIInv'
    BY <2>1, <2>2, CacheStepKeeps DEF CacheIInv
  <2> QED  BY <2>1, <2>3, BranchRests, RunRests
<1>2. CASE BranchStep(Branches!RegistrationNext)
  BY <1>2, BranchStepKeeps, CacheRests, RunRests DEF BranchStep, Of
<1>3. CASE RunStep(Storage!RunNext)
  BY <1>3, RunStepKeeps, CacheRests, BranchRests DEF RunStep, Of
<1>4. CASE UNCHANGED allVars
  BY <1>4, CacheRests, BranchRests, RunRests DEF allVars
<1> QED  BY <1>1, <1>2, <1>3, <1>4 DEF MCNext

LEMMA StoresHold == MCSpec => []StoresIInv
<1>1. MCInit => StoresIInv
  BY StoresStart
<1>2. StoresIInv /\ [MCNext]_allVars => StoresIInv'
  BY StoresNext
<1> QED  BY <1>1, <1>2, PTL DEF MCSpec

(* GitCache, GitRegistrations: a cached directory has one holder, is there *)
(* and stays while it is granted, and once a directory was found to fit    *)
(* the cache keeps within its limit, however acquires, evictions and       *)
(* releases interleave and fail; one call works on a registered branch,    *)
(* what is said to be synchronising is, the admissions are those of the    *)
(* calls under way, within the limit of each owner and of the server.      *)
THEOREM HoldersStayReal == MCSpec => []HoldersAreReal
<1>1. StoresIInv => HoldersAreReal
  <2> SUFFICES ASSUME StoresIInv PROVE HoldersAreReal
    OBVIOUS
  <2>1. CacheIInv /\ BranchIInv /\ Storage!RunTypeOK /\ store \in {"cache", "branches", "runs"}
    BY DEF StoresIInv, RunIInv
  <2> QED  BY <2>1, CacheImplies, BranchImplies DEF HoldersAreReal
<1> QED  BY <1>1, StoresHold, PTL

(* RuntimeRunStorage: no run directory is deleted while its job prepares,  *)
(* runs, can be approved or is executed, nor the shared one while such a   *)
(* job refers to it, although jobs go on between the look at the database  *)
(* and the deletion; a new run is refused for want of room only when       *)
(* everything left is protected.                                           *)
THEOREM NeedsStayKept == MCSpec => NeedsAreKept
<1>1. StoresIInv /\ [MCNext]_allVars
        => /\ [directory \ directory' \subseteq Storage!Directories \ Storage!InUse]_<<earlier, job, directory, aged, cleaner, admission>>
           /\ [admission = "asks" /\ admission' = "refused"
                 => /\ Storage!Cardinality(cleaner.candidates) > MaxBytes
                    /\ cleaner.candidates \subseteq cleaner.protected]_<<earlier, job, directory, aged, cleaner, admission>>
  <2> SUFFICES ASSUME StoresIInv, [MCNext]_allVars
               PROVE  \/ UNCHANGED runVars
                      \/ /\ directory \ directory' \subseteq Storage!Directories \ Storage!InUse
                         /\ admission = "asks" /\ admission' = "refused"
                              => /\ Storage!Cardinality(cleaner.candidates) > MaxBytes
                                 /\ cleaner.candidates \subseteq cleaner.protected
    BY DEF runVars
  <2>1. CASE RunStep(Storage!RunNext)
    BY <2>1, RunStepFits DEF RunStep, StoresIInv
  <2>2. CASE ~RunStep(Storage!RunNext)
    BY <2>2 DEF MCNext, CacheStep, BranchStep, allVars
  <2> QED  BY <2>1, <2>2
<1>2. MCSpec => [][MCNext]_allVars
  BY PTL DEF MCSpec
<1> QED  BY <1>1, <1>2, StoresHold, PTL
     DEF NeedsAreKept, Storage!NeedsAreKept, Storage!RefusedForNeeds, Storage!runVars
=============================================================================
