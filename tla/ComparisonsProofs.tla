-------------------------- MODULE ComparisonsProofs -------------------------
(***************************************************************************)
(* The comparisons of a process for any number of comparisons, sources and *)
(* lanes. What holds of a comparison is one predicate of its request, its  *)
(* row, its task and its pins (Sound); the pins of a source are counted by *)
(* their holders; a drain starts waiting tasks only (DrainStep).           *)
(***************************************************************************)
EXTENDS Comparisons, FiniteSetTheorems, TLAPS

Row   == [pc : Steps, reserved : BOOLEAN, prepared : SUBSET Registered, held : SUBSET Registered]
Tasks == Working \cup {"none", "waiting", "ended"}
Due   == Working \cup {"waiting"}

(* What holds of a request m of comparison c, whose row says s, whose task *)
(* is at t, with its sources pinned (k) and its result in place (a), after *)
(* a fault or with the database closed (x).                                *)
RequestSound(c, m, s, t, k) ==
  /\ m.pc = "new" => m = Fresh
  /\ m.pc \in {"new", "prepare", "pin", "resolve", "create"} => s = "none"
  /\ m.pc \in {"readback", "reject"} => s # "none"
  /\ m.prepared \subseteq Own(c) /\ m.held \subseteq m.prepared
  /\ m.pc \in {"reject", "ended"} => ~m.reserved /\ m.held = {}
  /\ k <=> m.pc \in {"create", "readback"} \/ t \in Due

TaskSound(m, s, t, a) ==
  /\ t # "none" => m.pc = "ended" /\ s # "none"
  /\ t \in {"compare", "write", "commit"} => s = "RUNNING"
  /\ t = "commit" \/ s = "SUCCEEDED" => a

Carried(m, s, t, f, ph) ==
  /\ s = "QUEUED" => m.pc \in {"readback", "reject"} \/ t \in {"waiting", "start"} \/ f > 0 \/ ph = "closed"
  /\ s = "RUNNING" => t \in Working \ {"start"} \/ f > 0

Sound(c, m, s, t, k, a, f, ph) ==
  RequestSound(c, m, s, t, k) /\ TaskSound(m, s, t, a) /\ Carried(m, s, t, f, ph)

(* What holds of the directories of a request; store gives their states.   *)
Left == {"gone", "undeleted"}
DirectoriesSound(m, s, store) ==
  /\ \A p \in m.prepared : store[p].state \in Left \cup {"ready", "deleting"}
  /\ \A p, q \in m.prepared : store[p].state = "deleting" /\ store[q].state = "deleting" => p = q
  /\ \A p \in m.prepared : store[p].state = "deleting" => m.pc = "remove"
  /\ m.pc = "ended" /\ s = "none" => \A p \in m.prepared : store[p].state \in Left

Begun(f) == {c \in Comparisons : f[c].pc # "new"}
Holders(f, p) == {c \in Comparisons : p \in f[c].held}
Users(ks, p) == {c \in ks : p \in Uses(c)}

Counted(store, f, ks) ==
  \A p \in Projects : store[p].pins = Cardinality(Holders(f, p)) + Cardinality(Users(ks, p))

(* The tasks that wait wait once; a queue that is idle for good stays so.  *)
QueueSound(tasks, q) ==
  /\ \A k \in DOMAIN q : tasks[q[k]] = "waiting"
  /\ \A k, l \in DOMAIN q : q[k] = q[l] => k = l

Busy(tasks) == {c \in Comparisons : tasks[c] \in Working}
LanesSound(tasks) == IsFiniteSet(Busy(tasks)) /\ Cardinality(Busy(tasks)) <= Concurrency
Quiet(tasks, q, ph) == ph \in {"recovered", "closed"} => Busy(tasks) = {} /\ q = <<>>

ComparisonInv ==
  /\ TypeOK
  /\ \A p \in Projects : project[p].pins > 0 => project[p].state = "ready"
  /\ \A c \in Comparisons :
       /\ Sound(c, req[c], row[c], task[c], c \in pinned, c \in artifact, bounds.faults, phase)
       /\ DirectoriesSound(req[c], row[c], project)
  /\ IsFiniteSet(Begun(req)) /\ Counted(project, req, pinned)
  /\ QueueSound(task, waiting) /\ LanesSound(task) /\ Quiet(task, waiting, phase)

-----------------------------------------------------------------------------
Rows     == [Comparisons -> Row]
Statuses == [Comparisons -> Status \cup {"none"}]
Places   == [Projects -> [state : Directory, pins : Nat, timer : BOOLEAN]]
AllTasks == [Comparisons -> Tasks]
Bounds   == [faults : 0 .. MaxFaults, restarts : 0 .. MaxRestarts]

LEMMA Types ==
  TypeOK <=> /\ project \in Places /\ storage \in {"open", "closed"}
             /\ req \in Rows /\ row \in Statuses /\ task \in AllTasks
             /\ artifact \subseteq Comparisons /\ pinned \subseteq Comparisons
             /\ waiting \in Seq(Comparisons)
             /\ phase \in {"open", "stopping", "recovered", "closed"} /\ aborting \in BOOLEAN
             /\ bounds \in Bounds
BY DEF TypeOK, StorageTypeOK, Places, Rows, Row, Statuses, AllTasks, Tasks, Bounds

One(e) == IF e THEN 1 ELSE 0

(* A set with and without c.                                               *)
LEMMA CountOne ==
  ASSUME NEW S, IsFiniteSet(S), NEW T, NEW c, S \ {c} = T \ {c}
  PROVE  /\ IsFiniteSet(T)
         /\ Cardinality(T) \in Nat /\ Cardinality(S) \in Nat
         /\ Cardinality(T) + One(c \in S) = Cardinality(S) + One(c \in T)
<1>1. Cardinality(S) \in Nat
  BY FS_CardinalityType
<1>2. CASE T = S
  BY <1>1, <1>2
<1>3. CASE c \in T /\ c \notin S
  <2>1. T = S \cup {c}
    BY <1>3
  <2> QED  BY <1>1, <1>3, <2>1, FS_AddElement DEF One
<1>4. CASE c \notin T /\ c \in S
  <2>1. T = S \ {c}
    BY <1>4
  <2>2. IsFiniteSet(T) /\ Cardinality(T) = Cardinality(S) - 1
    BY <1>4, <2>1, FS_RemoveElement
  <2>3. Cardinality(T) \in Nat
    BY <2>2, FS_CardinalityType
  <2> QED  BY <1>1, <1>4, <2>2, <2>3 DEF One
<1> QED  BY <1>2, <1>3, <1>4

(* The pins of p that are due to a comparison c, with its request at m and *)
(* its sources pinned or not (k).                                          *)
Mine(c, m, k, p) == One(p \in m.held) + One(k /\ p \in Uses(c))

LEMMA PinsFinite ==
  ASSUME IsFiniteSet(Begun(req)), pinned \subseteq Begun(req), NEW p,
         \A c \in Comparisons : req[c].held # {} => c \in Begun(req)
  PROVE  IsFiniteSet(Holders(req, p)) /\ IsFiniteSet(Users(pinned, p))
<1>1. Holders(req, p) \subseteq Begun(req) /\ Users(pinned, p) \subseteq Begun(req)
  BY DEF Holders, Users
<1> QED  BY <1>1, FS_Subset

(* When the pins that are due to c come and go, the count stays right.     *)
LEMMA PinsStep ==
  ASSUME IsFiniteSet(Begun(req)), pinned \subseteq Begun(req),
         \A d \in Comparisons : req[d].held # {} => d \in Begun(req),
         Counted(project, req, pinned),
         NEW c \in Comparisons, NEW store, NEW f, NEW ks \in SUBSET Comparisons,
         pinned \subseteq Comparisons,
         \A d \in Comparisons \ {c} : f[d] = req[d] /\ (d \in ks <=> d \in pinned),
         \A p \in Projects : store[p].pins \in Nat,
         \A p \in Projects : store[p].pins + Mine(c, req[c], c \in pinned, p)
                               = project[p].pins + Mine(c, f[c], c \in ks, p)
  PROVE  Counted(store, f, ks) /\ IsFiniteSet(Begun(f))
<1>1. ASSUME NEW p \in Projects
      PROVE  store[p].pins = Cardinality(Holders(f, p)) + Cardinality(Users(ks, p))
  <2>1. IsFiniteSet(Holders(req, p)) /\ IsFiniteSet(Users(pinned, p))
    BY PinsFinite
  <2>2. /\ Holders(req, p) \ {c} = Holders(f, p) \ {c}
        /\ Users(pinned, p) \ {c} = Users(ks, p) \ {c}
    BY DEF Holders, Users
  <2>3. /\ c \in Holders(req, p) <=> p \in req[c].held
        /\ c \in Holders(f, p) <=> p \in f[c].held
        /\ c \in Users(pinned, p) <=> c \in pinned /\ p \in Uses(c)
        /\ c \in Users(ks, p) <=> c \in ks /\ p \in Uses(c)
    BY DEF Holders, Users
  <2> DEFINE h == Cardinality(Holders(req, p))
             h2 == Cardinality(Holders(f, p))
             u == Cardinality(Users(pinned, p))
             u2 == Cardinality(Users(ks, p))
             a == One(p \in req[c].held)
             a2 == One(p \in f[c].held)
             b == One(c \in pinned /\ p \in Uses(c))
             b2 == One(c \in ks /\ p \in Uses(c))
             n == store[p].pins
             o == project[p].pins
  <2>4. h \in Nat /\ h2 \in Nat /\ h2 + a = h + a2
    <3>1. /\ h \in Nat /\ h2 \in Nat
          /\ h2 + One(c \in Holders(req, p)) = h + One(c \in Holders(f, p))
      BY <2>1, <2>2, CountOne
    <3> QED  BY <3>1, <2>3 DEF One
  <2>5. u \in Nat /\ u2 \in Nat /\ u2 + b = u + b2
    <3>1. /\ u \in Nat /\ u2 \in Nat
          /\ u2 + One(c \in Users(pinned, p)) = u + One(c \in Users(ks, p))
      BY <2>1, <2>2, CountOne
    <3> QED  BY <3>1, <2>3 DEF One
  <2>6. o = h + u
    BY DEF Counted
  <2>7. n \in Nat /\ n + (a + b) = o + (a2 + b2)
    BY DEF Mine
  <2>8. a \in Nat /\ b \in Nat /\ a2 \in Nat /\ b2 \in Nat
    BY DEF One
  <2> HIDE DEF h, h2, u, u2, a, a2, b, b2, n, o
  <2>9. h2 = (h + a2) - a /\ h \in Nat /\ h2 \in Nat
    BY <2>4, <2>8
  <2>10. u2 = (u + b2) - b /\ u \in Nat /\ u2 \in Nat
    BY <2>5, <2>8
  <2>11. n = ((h + u) + (a2 + b2)) - (a + b)
    <3>1. h + u \in Nat /\ a + b \in Nat /\ a2 + b2 \in Nat
      BY <2>8, <2>9, <2>10
    <3>2. n \in Nat /\ n + (a + b) = (h + u) + (a2 + b2)
      BY <2>6, <2>7
    <3> QED  BY <3>1, <3>2
  <2>12. n = h2 + u2
    BY <2>8, <2>9, <2>10, <2>11
  <2> QED  BY <2>12 DEF h2, u2, n
<1>2. Begun(f) \ {c} = Begun(req) \ {c}
  BY DEF Begun
<1>3. IsFiniteSet(Begun(f))
  BY <1>2, CountOne
<1> QED  BY <1>1, <1>3 DEF Counted

(* A comparison's own pins are among those of the source.                  *)
LEMMA OwnPins ==
  ASSUME IsFiniteSet(Begun(req)), pinned \subseteq Begun(req), project \in Places,
         \A d \in Comparisons : req[d].held # {} => d \in Begun(req),
         Counted(project, req, pinned), NEW c \in Comparisons, NEW p \in Projects
  PROVE  project[p].pins \in Nat /\ project[p].pins >= Mine(c, req[c], c \in pinned, p)
<1>1. IsFiniteSet(Holders(req, p)) /\ IsFiniteSet(Users(pinned, p))
  BY PinsFinite
<1>2. /\ Cardinality(Holders(req, p)) \in Nat
      /\ Cardinality(Holders(req, p)) >= One(p \in req[c].held)
  <2>1. CASE p \in req[c].held
    <3>1. Holders(req, p) # {}
      BY <2>1 DEF Holders
    <3> QED  BY <3>1, <1>1, FS_CardinalityType, FS_EmptySet DEF One
  <2>2. CASE p \notin req[c].held
    BY <2>2, <1>1, FS_CardinalityType DEF One
  <2> QED  BY <2>1, <2>2
<1>3. /\ Cardinality(Users(pinned, p)) \in Nat
      /\ Cardinality(Users(pinned, p)) >= One(c \in pinned /\ p \in Uses(c))
  <2>1. CASE c \in pinned /\ p \in Uses(c)
    <3>1. Users(pinned, p) # {}
      BY <2>1 DEF Users
    <3> QED  BY <3>1, <2>1, <1>1, FS_CardinalityType, FS_EmptySet DEF One
  <2>2. CASE ~(c \in pinned /\ p \in Uses(c))
    BY <2>2, <1>1, FS_CardinalityType DEF One
  <2> QED  BY <2>1, <2>2
<1>4. One(p \in req[c].held) \in Nat /\ One(c \in pinned /\ p \in Uses(c)) \in Nat
  BY DEF One
<1> QED  BY <1>2, <1>3, <1>4 DEF Counted, Mine

-----------------------------------------------------------------------------
(* A drain starts tasks that wait, no more than there are free lanes.      *)
LEMMA DrainStep ==
  ASSUME ComparisonsAssumption, NEW tasks \in AllTasks, NEW q \in Seq(Comparisons),
         QueueSound(tasks, q), LanesSound(tasks), Drain(tasks, q)
  PROVE  /\ task' \in AllTasks /\ waiting' \in Seq(Comparisons)
         /\ QueueSound(task', waiting') /\ LanesSound(task')
         /\ \A c \in Comparisons : task'[c] = tasks[c] \/ (tasks[c] = "waiting" /\ task'[c] = "start")
         /\ q = <<>> => waiting' = <<>> /\ task' = tasks
<1> DEFINE busy == Cardinality(Busy(tasks))
           free == Concurrency - busy
           n == IF Len(q) < free THEN Len(q) ELSE free
           started == {q[k] : k \in 1 .. n}
<1>1. /\ waiting' = SubSeq(q, n + 1, Len(q))
      /\ task' = [c \in Comparisons |-> IF c \in started THEN "start" ELSE tasks[c]]
  BY DEF Drain, Busy
<1>2. /\ busy \in Nat /\ Concurrency \in Nat /\ busy <= Concurrency /\ IsFiniteSet(Busy(tasks))
  BY FS_CardinalityType DEF LanesSound, ComparisonsAssumption
<1> HIDE DEF busy
<1>3. n \in Nat /\ n <= Len(q) /\ busy + n <= Concurrency /\ Len(q) \in Nat /\ (q = <<>> => n = 0)
  BY <1>2
<1>4. DOMAIN q = 1 .. Len(q) /\ \A k \in DOMAIN q : q[k] \in Comparisons
  OBVIOUS
<1> HIDE DEF n
<1>5. /\ waiting' \in Seq(Comparisons) /\ DOMAIN waiting' = 1 .. Len(q) - n
      /\ \A k \in DOMAIN waiting' : waiting'[k] = q[k + n] /\ k + n \in DOMAIN q /\ k + n \notin 1 .. n
  BY <1>1, <1>3, <1>4
<1>6. \A c \in started : c \in Comparisons /\ tasks[c] = "waiting"
  BY <1>3, <1>4 DEF QueueSound
<1>7. task' \in AllTasks /\ \A c \in Comparisons : task'[c] = IF c \in started THEN "start" ELSE tasks[c]
  <2> HIDE DEF started
  <2> QED  BY <1>1 DEF AllTasks, Tasks, Working
<1>8. QueueSound(task', waiting')
  <2>1. ASSUME NEW k \in DOMAIN waiting' PROVE waiting'[k] \notin started
    <3>1. SUFFICES ASSUME NEW l \in 1 .. n, q[k + n] = q[l] PROVE FALSE
      BY <1>5
    <3>2. l \in DOMAIN q
      BY <1>3, <1>4
    <3> QED  BY <1>5, <3>1, <3>2 DEF QueueSound
  <2>2. \A k \in DOMAIN waiting' : task'[waiting'[k]] = "waiting"
    BY <1>4, <1>5, <1>7, <2>1 DEF QueueSound
  <2>3. \A k, l \in DOMAIN waiting' : waiting'[k] = waiting'[l] => k = l
    BY <1>3, <1>4, <1>5 DEF QueueSound
  <2> QED  BY <2>2, <2>3 DEF QueueSound
<1>9. LanesSound(task')
  <2>1. IsFiniteSet(started) /\ Cardinality(started) <= n /\ Cardinality(started) \in Nat
    <3> DEFINE g == [k \in 1 .. n |-> q[k]]
    <3>1. g \in Surjection(1 .. n, started)
      BY DEF Surjection
    <3>2. IsFiniteSet(1 .. n) /\ Cardinality(1 .. n) = n
      BY <1>3, FS_Interval
    <3> HIDE DEF g, started
    <3> QED  BY <3>1, <3>2, FS_Surjection, FS_CardinalityType
  <2>2. Busy(task') = Busy(tasks) \cup started
    <3> HIDE DEF started
    <3> QED  BY <1>6, <1>7 DEF Busy, Working
  <2> HIDE DEF started
  <2>3. Busy(tasks) \cap started = {}
    BY <1>6 DEF Busy, Working
  <2>4. /\ IsFiniteSet(Busy(task'))
        /\ Cardinality(Busy(task')) = busy + Cardinality(started)
    <3>1. /\ IsFiniteSet(Busy(task'))
          /\ Cardinality(Busy(task')) = Cardinality(Busy(tasks)) + Cardinality(started) - Cardinality({})
      BY <1>2, <2>1, <2>2, <2>3, FS_Union
    <3>2. Cardinality({}) = 0 /\ Cardinality(Busy(tasks)) = busy
      BY FS_EmptySet DEF busy
    <3> QED  BY <1>2, <2>1, <3>1, <3>2
  <2> QED  BY <1>2, <1>3, <2>1, <2>4 DEF LanesSound
<1>10. ASSUME q = <<>> PROVE waiting' = <<>> /\ task' = tasks
  <2>1. n = 0 /\ Len(q) = 0
    BY <1>3, <1>10
  <2>2. started = {}
    BY <2>1
  <2>3. waiting' = <<>>
    BY <1>5, <2>1, <1>10
  <2> QED  BY <1>1, <2>2, <2>3 DEF AllTasks
<1> QED  BY <1>5, <1>6, <1>7, <1>8, <1>9, <1>10
-----------------------------------------------------------------------------
LEMMA InvAt ==
  ASSUME ComparisonInv, NEW c \in Comparisons
  PROVE  /\ req \in Rows /\ row \in Statuses /\ task \in AllTasks /\ project \in Places
         /\ bounds \in Bounds
         /\ req[c] \in Row /\ row[c] \in Status \cup {"none"} /\ task[c] \in Tasks
         /\ RequestSound(c, req[c], row[c], task[c], c \in pinned)
         /\ TaskSound(req[c], row[c], task[c], c \in artifact)
         /\ Carried(req[c], row[c], task[c], bounds.faults, phase)
         /\ DirectoriesSound(req[c], row[c], project)
BY Types DEF ComparisonInv, Sound, Rows, Statuses, AllTasks

LEMMA PinsBase ==
  ASSUME ComparisonInv
  PROVE  /\ IsFiniteSet(Begun(req)) /\ pinned \subseteq Begun(req) /\ project \in Places
         /\ \A d \in Comparisons : req[d].held # {} => d \in Begun(req)
         /\ Counted(project, req, pinned)
<1>1. \A d \in Comparisons : req[d].held # {} => d \in Begun(req)
  BY InvAt DEF RequestSound, Fresh, Begun
<1>2. pinned \subseteq Comparisons /\ project \in Places
  BY Types DEF ComparisonInv
<1>3. \A d \in pinned : d \in Begun(req)
  BY <1>2, InvAt DEF RequestSound, TaskSound, Begun, Due, Working
<1> QED  BY <1>1, <1>2, <1>3 DEF ComparisonInv

LEMMA Pins ==
  ASSUME ComparisonInv, NEW c \in Comparisons, NEW p \in Projects
  PROVE  /\ project[p].pins \in Nat /\ project[p].pins >= Mine(c, req[c], c \in pinned, p)
         /\ project[p].pins > 0 => project[p].state = "ready"
BY PinsBase, OwnPins DEF ComparisonInv

(* What is pinned for c is there.                                          *)
LEMMA PinnedReady ==
  ASSUME ComparisonInv, NEW c \in Comparisons, NEW p \in Projects,
         p \in req[c].held \/ (c \in pinned /\ p \in Uses(c))
  PROVE  project[p].state = "ready" /\ project[p].pins > 0
<1>1. Mine(c, req[c], c \in pinned, p) \in Nat /\ Mine(c, req[c], c \in pinned, p) > 0
  BY DEF Mine, One
<1> QED  BY <1>1, Pins

LEMMA BoundsStep ==
  ASSUME ComparisonsAssumption, ComparisonInv, Fault \/ Works \/ UNCHANGED bounds
  PROVE  /\ bounds' \in Bounds /\ bounds'.faults >= bounds.faults /\ bounds.faults \in Nat
         /\ bounds'.faults \in Nat /\ bounds'.restarts = bounds.restarts
         /\ Fault => bounds'.faults > 0 \/ phase = "closed"
<1>1. bounds \in Bounds /\ bounds.faults \in 0 .. MaxFaults /\ bounds.restarts \in 0 .. MaxRestarts
  BY Types DEF ComparisonInv, Bounds
<1>2. MaxFaults \in Nat /\ MaxRestarts \in Nat
  BY DEF ComparisonsAssumption
<1>3. CASE UNCHANGED bounds /\ (Fault => phase = "closed")
  BY <1>1, <1>2, <1>3
<1>4. CASE bounds.faults < MaxFaults /\ bounds' = [bounds EXCEPT !.faults = @ + 1]
  BY <1>1, <1>2, <1>4 DEF Bounds
<1> QED  BY <1>3, <1>4 DEF Fault, Works

(* A waiting task that starts is as sound as before.                       *)
LEMMA StartSound ==
  ASSUME NEW c, NEW m, NEW s, NEW k, NEW a, NEW f \in Nat, NEW g \in Nat, g >= f, NEW ph, NEW t, NEW u,
         Sound(c, m, s, t, k, a, f, ph), u = t \/ (t = "waiting" /\ u = "start")
  PROVE  Sound(c, m, s, u, k, a, g, ph)
<1>1. g > 0 \/ ~(f > 0)
  OBVIOUS
<1> QED  BY <1>1 DEF Sound, RequestSound, TaskSound, Carried, Due, Working

Queued(c, t, q) ==
  \/ q = waiting /\ t = task[c]
  \/ q = waiting /\ t # "waiting" /\ task[c] # "waiting" /\ (t \in Working => task[c] \in Working)
  \/ q = Append(waiting, c) /\ t = "waiting" /\ task[c] \notin Due /\ phase = "open"

LEMMA QueuedSound ==
  ASSUME ComparisonsAssumption, ComparisonInv,
         NEW c \in Comparisons, NEW t \in Tasks, NEW q, Queued(c, t, q)
  PROVE  LET tasks == [task EXCEPT ![c] = t]
         IN  /\ tasks \in AllTasks /\ tasks[c] = t /\ \A d \in Comparisons \ {c} : tasks[d] = task[d]
             /\ q \in Seq(Comparisons) /\ QueueSound(tasks, q) /\ LanesSound(tasks)
             /\ Quiet(tasks, q, phase)
<1> DEFINE tasks == [task EXCEPT ![c] = t]
<1>1. task \in AllTasks /\ waiting \in Seq(Comparisons)
  BY Types DEF ComparisonInv
<1>2. tasks \in AllTasks /\ tasks[c] = t /\ \A d \in Comparisons \ {c} : tasks[d] = task[d]
  BY <1>1 DEF AllTasks
<1> HIDE DEF tasks
<1>3. /\ \A k \in DOMAIN waiting : waiting[k] \in Comparisons /\ task[waiting[k]] = "waiting"
      /\ \A k, l \in DOMAIN waiting : waiting[k] = waiting[l] => k = l
  BY <1>1 DEF ComparisonInv, QueueSound
<1>4. Busy(tasks) \subseteq Busy(task)
  BY <1>2 DEF Queued, Busy, Working
<1>5. LanesSound(tasks)
  <2>1. IsFiniteSet(Busy(task)) /\ Cardinality(Busy(task)) <= Concurrency
    BY DEF ComparisonInv, LanesSound
  <2>2. IsFiniteSet(Busy(tasks)) /\ Cardinality(Busy(tasks)) <= Cardinality(Busy(task))
    BY <1>4, <2>1, FS_Subset
  <2>3. Cardinality(Busy(task)) \in Nat /\ Cardinality(Busy(tasks)) \in Nat
    BY <2>1, <2>2, FS_CardinalityType
  <2>4. Cardinality(Busy(tasks)) <= Concurrency
    BY <2>1, <2>2, <2>3 DEF ComparisonsAssumption
  <2> QED  BY <2>2, <2>4 DEF LanesSound
<1>6. CASE q = waiting
  <2>1. \A k \in DOMAIN waiting : tasks[waiting[k]] = "waiting"
    BY <1>1, <1>2, <1>3, <1>6 DEF Queued
  <2>2. QueueSound(tasks, q)
    BY <1>3, <1>6, <2>1 DEF QueueSound
  <2>3. Quiet(tasks, q, phase)
    BY <1>4, <1>6 DEF ComparisonInv, Quiet
  <2> QED  BY <1>1, <1>2, <1>5, <1>6, <2>2, <2>3 DEF tasks
<1>7. CASE q = Append(waiting, c) /\ t = "waiting" /\ task[c] \notin Due /\ phase = "open"
  <2>1. /\ q \in Seq(Comparisons) /\ DOMAIN q = 1 .. Len(waiting) + 1 /\ Len(waiting) \in Nat
        /\ DOMAIN waiting = 1 .. Len(waiting)
        /\ q[Len(waiting) + 1] = c /\ \A k \in 1 .. Len(waiting) : q[k] = waiting[k]
    BY <1>1, <1>7
  <2>2. \A k \in DOMAIN waiting : waiting[k] # c
    BY <1>3, <1>7 DEF Due
  <2>3. QueueSound(tasks, q)
    BY <1>2, <1>3, <1>7, <2>1, <2>2 DEF QueueSound
  <2>4. Quiet(tasks, q, phase)
    BY <1>7 DEF Quiet
  <2> QED  BY <1>2, <1>5, <2>1, <2>3, <2>4 DEF tasks
<1> QED  BY <1>6, <1>7 DEF Queued

(* A step of one comparison c, whose request becomes x and whose task is   *)
(* at t before a drain of q, keeps the invariant when it keeps what holds  *)
(* of c and counts the pins it takes and gives back.                       *)
LEMMA CallStep ==
  ASSUME ComparisonsAssumption, ComparisonInv, NEW c \in Comparisons,
         NEW x \in Row, NEW t \in Tasks, NEW q, Queued(c, t, q),
         req' = [req EXCEPT ![c] = x],
         row' \in Statuses, pinned' \subseteq Comparisons, artifact' \subseteq Comparisons,
         \A d \in Comparisons \ {c} : /\ row'[d] = row[d]
                                      /\ d \in pinned' <=> d \in pinned
                                      /\ d \in artifact' <=> d \in artifact,
         project' \in Places, storage' \in {"open", "closed"},
         phase' = phase, aborting' = aborting,
         bounds' \in Bounds, bounds'.faults >= bounds.faults,
         \A p \in Projects : project'[p].pins > 0 => project'[p].state = "ready",
         \A p \in Projects \ Own(c) : project'[p].state = project[p].state,
         \A p \in Projects : project'[p].pins + Mine(c, req[c], c \in pinned, p)
                               = project[p].pins + Mine(c, x, c \in pinned', p),
         Sound(c, x, row'[c], t, c \in pinned', c \in artifact', bounds'.faults, phase),
         DirectoriesSound(x, row'[c], project'),
         \/ task' = [task EXCEPT ![c] = t] /\ waiting' = q
         \/ Drain([task EXCEPT ![c] = t], q)
  PROVE  ComparisonInv'
<1> DEFINE tasks == [task EXCEPT ![c] = t]
<1>1. /\ req \in Rows /\ req' \in Rows /\ req'[c] = x
      /\ \A d \in Comparisons \ {c} : req'[d] = req[d]
  BY Types DEF ComparisonInv, Rows
<1>2. /\ tasks \in AllTasks /\ tasks[c] = t /\ \A d \in Comparisons \ {c} : tasks[d] = task[d]
      /\ q \in Seq(Comparisons) /\ QueueSound(tasks, q) /\ LanesSound(tasks) /\ Quiet(tasks, q, phase)
  BY QueuedSound
<1>3. (task' = tasks /\ waiting' = q) \/ Drain(tasks, q)
  OBVIOUS
<1> HIDE DEF tasks
<1>4. /\ task' \in AllTasks /\ waiting' \in Seq(Comparisons)
      /\ QueueSound(task', waiting') /\ LanesSound(task')
      /\ \A d \in Comparisons : task'[d] = tasks[d] \/ (tasks[d] = "waiting" /\ task'[d] = "start")
      /\ q = <<>> => waiting' = <<>> /\ task' = tasks
  BY <1>2, <1>3, DrainStep
<1>5. Quiet(task', waiting', phase')
  BY <1>2, <1>4 DEF Quiet
<1>6. Counted(project', req', pinned') /\ IsFiniteSet(Begun(req'))
  <2>1. \A p \in Projects : project'[p].pins \in Nat
    BY DEF Places
  <2>2. pinned \subseteq Comparisons
    BY Types DEF ComparisonInv
  <2>3. \A p \in Projects : project'[p].pins + Mine(c, req[c], c \in pinned, p)
                              = project[p].pins + Mine(c, req'[c], c \in pinned', p)
    BY <1>1
  <2>4. /\ IsFiniteSet(Begun(req)) /\ pinned \subseteq Begun(req)
        /\ \A d \in Comparisons : req[d].held # {} => d \in Begun(req)
        /\ Counted(project, req, pinned)
    BY PinsBase
  <2>5. \A d \in Comparisons \ {c} : req'[d] = req[d] /\ (d \in pinned' <=> d \in pinned)
    BY <1>1
  <2>6. pinned' \in SUBSET Comparisons
    OBVIOUS
  <2> DEFINE store == project'
             f == req'
             ks == pinned'
  <2>7. Counted(store, f, ks) /\ IsFiniteSet(Begun(f))
    <3> HIDE DEF store, f, ks
    <3>1. /\ ks \in SUBSET Comparisons /\ \A p \in Projects : store[p].pins \in Nat
          /\ \A d \in Comparisons \ {c} : f[d] = req[d] /\ (d \in ks <=> d \in pinned)
          /\ \A p \in Projects : store[p].pins + Mine(c, req[c], c \in pinned, p)
                                     = project[p].pins + Mine(c, f[c], c \in ks, p)
      BY <2>1, <2>3, <2>5, <2>6 DEF store, f, ks
    <3> QED  BY <2>2, <2>4, <3>1, PinsStep
  <2> QED  BY <2>7
<1>7. bounds.faults \in Nat /\ bounds'.faults \in Nat
  BY Types DEF ComparisonInv, Bounds, ComparisonsAssumption
<1>8. ASSUME NEW d \in Comparisons
      PROVE  /\ Sound(d, req'[d], row'[d], task'[d], d \in pinned', d \in artifact', bounds'.faults, phase')
             /\ DirectoriesSound(req'[d], row'[d], project')
  <2>1. CASE d = c
    <3>1. Sound(c, x, row'[c], task'[c], c \in pinned', c \in artifact', bounds'.faults, phase)
      BY <1>2, <1>4, <1>7, StartSound
    <3> QED  BY <1>1, <2>1, <3>1
  <2>2. CASE d # c
    <3>1. /\ req'[d] = req[d] /\ row'[d] = row[d] /\ (d \in pinned' <=> d \in pinned)
          /\ (d \in artifact' <=> d \in artifact)
          /\ task'[d] = task[d] \/ (task[d] = "waiting" /\ task'[d] = "start")
      BY <1>1, <1>2, <1>4, <2>2
    <3>2. Sound(d, req[d], row[d], task[d], d \in pinned, d \in artifact, bounds.faults, phase)
      BY DEF ComparisonInv
    <3>3. Sound(d, req[d], row[d], task'[d], d \in pinned, d \in artifact, bounds'.faults, phase)
      BY <1>7, <3>1, <3>2, StartSound
    <3>4. DirectoriesSound(req[d], row[d], project) /\ req[d].prepared \subseteq Own(d)
      BY InvAt DEF RequestSound
    <3>5. \A p \in req[d].prepared : p \in Projects \ Own(c)
      BY <2>2, <3>4 DEF Own, ComparisonsAssumption
    <3>6. \A p \in req[d].prepared : project'[p].state = project[p].state
      BY <3>5
    <3>7. DirectoriesSound(req[d], row[d], project')
      BY <3>4, <3>6 DEF DirectoriesSound
    <3> QED  BY <3>1, <3>3, <3>7
  <2> QED  BY <2>1, <2>2
<1>9. TypeOK'
  <2>1. phase \in {"open", "stopping", "recovered", "closed"} /\ aborting \in BOOLEAN
    BY Types DEF ComparisonInv
  <2>2. bounds' \in [faults : 0 .. MaxFaults, restarts : 0 .. MaxRestarts]
    BY DEF Bounds
  <2> QED  BY <1>1, <1>4, <2>1, <2>2 DEF TypeOK, StorageTypeOK, Places, Rows, Row, Statuses, AllTasks, Tasks
<1> QED  BY <1>4, <1>5, <1>6, <1>8, <1>9 DEF ComparisonInv
(* A step of c that leaves the sources alone.                              *)
LEMMA PlainStep ==
  ASSUME ComparisonsAssumption, ComparisonInv, NEW c \in Comparisons,
         NEW x \in Row, NEW t \in Tasks, Queued(c, t, waiting),
         req' = [req EXCEPT ![c] = x], x.held = req[c].held,
         row' \in Statuses, \A d \in Comparisons \ {c} : row'[d] = row[d],
         artifact' \in {artifact, artifact \cup {c}}, task' = [task EXCEPT ![c] = t],
         UNCHANGED <<storageVars, pinned, waiting, phase, aborting>>,
         Fault \/ Works \/ UNCHANGED bounds,
         Sound(c, x, row'[c], t, c \in pinned, c \in artifact', bounds'.faults, phase),
         DirectoriesSound(x, row'[c], project)
  PROVE  ComparisonInv'
<1>1. /\ project \in Places /\ storage \in {"open", "closed"} /\ pinned \subseteq Comparisons
      /\ artifact \subseteq Comparisons
  BY Types DEF ComparisonInv
<1>2. project' = project /\ storage' = storage /\ pinned' = pinned /\ waiting' = waiting
  BY DEF storageVars
<1>3. bounds' \in Bounds /\ bounds'.faults >= bounds.faults
  BY BoundsStep
<1>4. \A p \in Projects : /\ project'[p].pins > 0 => project'[p].state = "ready"
                          /\ project'[p].state = project[p].state
  BY <1>2 DEF ComparisonInv
<1>5. \A p \in Projects : project'[p].pins + Mine(c, req[c], c \in pinned, p)
                            = project[p].pins + Mine(c, x, c \in pinned', p)
  BY <1>2 DEF Mine
<1>6. \A d \in Comparisons \ {c} : d \in artifact' <=> d \in artifact
  OBVIOUS
<1>7. Sound(c, x, row'[c], t, c \in pinned', c \in artifact', bounds'.faults, phase)
      /\ DirectoriesSound(x, row'[c], project')
  BY <1>2
<1>8. pinned' \subseteq Comparisons /\ artifact' \subseteq Comparisons /\ phase' = phase /\ aborting' = aborting
  BY <1>1, <1>2
<1> HIDE DEF ComparisonInv
<1> QED  BY <1>1, <1>2, <1>3, <1>4, <1>5, <1>6, <1>7, <1>8, CallStep

(* A request that goes on to pc, its row becoming s.                       *)
LEMMA GotoStep ==
  ASSUME ComparisonsAssumption, ComparisonInv, NEW c \in Comparisons,
         NEW pc \in Steps, Goto(c, pc), NEW s \in Status \cup {"none"}, row' = [row EXCEPT ![c] = s],
         UNCHANGED <<storageVars, artifact, task, pinned, waiting, phase, aborting>>,
         Fault \/ Works \/ UNCHANGED bounds,
         \A x \in Row : x.pc = pc /\ x.reserved = req[c].reserved /\ x.prepared = req[c].prepared
                          /\ x.held = req[c].held
                        => /\ Sound(c, x, s, task[c], c \in pinned, c \in artifact, bounds'.faults, phase)
                           /\ DirectoriesSound(x, s, project)
  PROVE  ComparisonInv'
<1> DEFINE x == [req[c] EXCEPT !.pc = pc]
<1>1. req[c] \in Row /\ req \in Rows /\ row \in Statuses /\ task \in AllTasks /\ task[c] \in Tasks
  BY InvAt
<1>2. /\ x \in Row /\ x.pc = pc /\ x.reserved = req[c].reserved /\ x.prepared = req[c].prepared
      /\ x.held = req[c].held
  BY <1>1 DEF Row
<1>3. req' = [req EXCEPT ![c] = x]
  BY <1>1 DEF Goto, Rows
<1> HIDE DEF x
<1>4. row' \in Statuses /\ row'[c] = s /\ \A d \in Comparisons \ {c} : row'[d] = row[d]
  BY <1>1 DEF Statuses
<1>5. task' = [task EXCEPT ![c] = task[c]]
  BY <1>1 DEF AllTasks
<1>6. Queued(c, task[c], waiting)
  BY DEF Queued
<1>7. UNCHANGED <<storageVars, pinned, waiting, phase, aborting>> /\ artifact' = artifact
  OBVIOUS
<1> QED  BY <1>1, <1>2, <1>3, <1>4, <1>5, <1>6, <1>7, PlainStep

LEMMA UnpinnedFacts ==
  ASSUME NEW store \in Places, NEW ps, \A p \in Projects : p \in ps => store[p].pins > 0
  PROVE  /\ Unpinned(store, ps) \in Places
         /\ \A p \in Projects : /\ Unpinned(store, ps)[p].state = store[p].state
                                /\ Unpinned(store, ps)[p].pins + One(p \in ps) = store[p].pins
<1>1. ASSUME NEW p \in Projects
      PROVE  /\ Unpinned(store, ps)[p] \in [state : Directory, pins : Nat, timer : BOOLEAN]
             /\ Unpinned(store, ps)[p].state = store[p].state
             /\ Unpinned(store, ps)[p].pins + One(p \in ps) = store[p].pins
  <2>1. store[p] \in [state : Directory, pins : Nat, timer : BOOLEAN]
    BY DEF Places
  <2>2. CASE p \notin ps
    <3>1. Unpinned(store, ps)[p] = store[p]
      BY <2>2 DEF Unpinned
    <3> QED  BY <2>1, <2>2, <3>1 DEF One
  <2>3. CASE p \in ps
    <3> DEFINE n == store[p].pins - 1
               b == store[p].timer \/ (store[p].pins = 1 /\ store[p].state = "ready")
    <3>1. Unpinned(store, ps)[p] = [store[p] EXCEPT !.pins = n, !.timer = b]
      BY <2>3 DEF Unpinned
    <3>2. n \in Nat /\ n + 1 = store[p].pins
      BY <2>1, <2>3
    <3>3. b \in BOOLEAN
      BY <2>1
    <3> HIDE DEF n, b
    <3> QED  BY <2>1, <2>3, <3>1, <3>2, <3>3 DEF One
  <2> QED  BY <2>2, <2>3
<1>2. Unpinned(store, ps) = [p \in Projects |-> Unpinned(store, ps)[p]]
  BY DEF Unpinned
<1> QED  BY <1>1, <1>2 DEF Places

LEMMA ReleasedFacts ==
  ASSUME ComparisonInv, NEW c \in Comparisons
  PROVE  /\ Released(c) \in Places
         /\ \A p \in Projects : /\ Released(c)[p].state = project[p].state
                                /\ Released(c)[p].pins + One(c \in pinned /\ p \in Uses(c)) = project[p].pins
<1>1. project \in Places
  BY InvAt
<1>2. CASE c \in pinned
  <2>1. \A p \in Projects : p \in Uses(c) => project[p].pins > 0
    BY <1>2, PinnedReady
  <2>2. Released(c) = Unpinned(project, Uses(c))
    BY <1>2 DEF Released
  <2> QED  BY <1>1, <1>2, <2>1, <2>2, UnpinnedFacts DEF One
<1>3. CASE c \notin pinned
  <2>1. Released(c) = project /\ \A p \in Projects : project[p].pins \in Nat
    BY <1>1, <1>3 DEF Released, Places
  <2> QED  BY <1>1, <1>3, <2>1 DEF One
<1> QED  BY <1>2, <1>3

(* A step of c that gives pins back and otherwise leaves the sources alone.*)
LEMMA ReleaseStep ==
  ASSUME ComparisonsAssumption, ComparisonInv, NEW c \in Comparisons,
         NEW x \in Row, NEW t \in Tasks, NEW q, Queued(c, t, q),
         req' = [req EXCEPT ![c] = x], x.held \subseteq req[c].held,
         row' \in Statuses, \A d \in Comparisons \ {c} : row'[d] = row[d],
         pinned' \in {pinned, pinned \ {c}},
         project' \in Places, \A p \in Projects : project'[p].state = project[p].state,
         \A p \in Projects : project'[p].pins + Mine(c, req[c], c \in pinned, p)
                               = project[p].pins + Mine(c, x, c \in pinned', p),
         UNCHANGED <<storage, artifact, phase, aborting>>,
         Fault \/ Works \/ UNCHANGED bounds,
         Sound(c, x, row'[c], t, c \in pinned', c \in artifact, bounds'.faults, phase),
         DirectoriesSound(x, row'[c], project),
         \/ task' = [task EXCEPT ![c] = t] /\ waiting' = q
         \/ Drain([task EXCEPT ![c] = t], q)
  PROVE  ComparisonInv'
<1>1. /\ storage' \in {"open", "closed"} /\ pinned' \subseteq Comparisons /\ artifact' \subseteq Comparisons
      /\ phase' = phase /\ aborting' = aborting
  BY Types DEF ComparisonInv
<1>2. \A d \in Comparisons \ {c} : /\ row'[d] = row[d]
                                   /\ d \in pinned' <=> d \in pinned
                                   /\ d \in artifact' <=> d \in artifact
  OBVIOUS
<1>3. bounds' \in Bounds /\ bounds'.faults >= bounds.faults
  BY BoundsStep
<1>4. ASSUME NEW p \in Projects, project'[p].pins > 0 PROVE project'[p].state = "ready"
  <2>1. /\ Mine(c, x, c \in pinned', p) <= Mine(c, req[c], c \in pinned, p)
        /\ Mine(c, x, c \in pinned', p) \in Nat /\ Mine(c, req[c], c \in pinned, p) \in Nat
    BY DEF Mine, One
  <2>2. project'[p].pins \in Nat /\ project[p].pins \in Nat
    BY Pins DEF Places
  <2>3. project'[p].pins + Mine(c, req[c], c \in pinned, p) = project[p].pins + Mine(c, x, c \in pinned', p)
    OBVIOUS
  <2>4. project[p].pins > 0
    BY <1>4, <2>1, <2>2, <2>3
  <2> QED  BY <2>4, Pins
<1>5. DirectoriesSound(x, row'[c], project')
  <2>1. x.prepared \subseteq Projects
    BY DEF Row, ComparisonsAssumption
  <2> QED  BY <2>1 DEF DirectoriesSound
<1>6. Sound(c, x, row'[c], t, c \in pinned', c \in artifact', bounds'.faults, phase)
  OBVIOUS
<1> HIDE DEF ComparisonInv
<1> QED  BY <1>1, <1>2, <1>3, <1>4, <1>5, <1>6, CallStep
-----------------------------------------------------------------------------
(* The steps of a request.                                                 *)
LEMMA ReserveKeeps ==
  ASSUME ComparisonsAssumption, ComparisonInv, NEW c \in Comparisons, Reserve(c)
  PROVE  ComparisonInv'
<1> DEFINE x == [req[c] EXCEPT !.pc = "prepare", !.reserved = TRUE]
<1>1. /\ req \in Rows /\ row \in Statuses /\ task \in AllTasks /\ task[c] \in Tasks /\ req[c] \in Row
      /\ RequestSound(c, req[c], row[c], task[c], c \in pinned)
      /\ TaskSound(req[c], row[c], task[c], c \in artifact)
      /\ Carried(req[c], row[c], task[c], bounds.faults, phase)
      /\ DirectoriesSound(req[c], row[c], project)
  BY InvAt
<1>2. req[c].pc = "new" /\ req[c] = Fresh /\ row[c] = "none" /\ task[c] = "none" /\ c \notin pinned
  BY <1>1 DEF Reserve, At, RequestSound, TaskSound, Due, Working, Fresh
<1>3. /\ x \in Row /\ x.pc = "prepare" /\ x.prepared = {} /\ x.held = {}
  <2>1. req[c].prepared = {} /\ req[c].held = {}
    BY <1>2 DEF Fresh
  <2> QED  BY <1>1, <2>1 DEF Row, Steps
<1>4. req' = [req EXCEPT ![c] = x]
  BY <1>1 DEF Reserve, Rows
<1> HIDE DEF x
<1>5. Sound(c, x, row[c], task[c], c \in pinned, c \in artifact, bounds.faults, phase)
  BY <1>2, <1>3 DEF Sound, RequestSound, TaskSound, Carried, Due, Working
<1>6. DirectoriesSound(x, row[c], project)
  BY <1>3 DEF DirectoriesSound
<1>7. task' = [task EXCEPT ![c] = task[c]] /\ Queued(c, task[c], waiting)
  BY <1>1 DEF AllTasks, Reserve, Queued
<1>8. /\ row' = row /\ artifact' = artifact /\ bounds' = bounds
      /\ UNCHANGED <<storageVars, pinned, waiting, phase, aborting>> /\ x.held = req[c].held
  BY <1>2, <1>3 DEF Reserve, Fresh
<1> QED  BY <1>1, <1>3, <1>4, <1>5, <1>6, <1>7, <1>8, PlainStep

(* A request that gives up before its job exists, or whose job can be left *)
(* to the next start.                                                      *)
LEMMA GivesUp ==
  ASSUME ComparisonInv, NEW c \in Comparisons, NEW x \in Row,
         req[c].pc \in {"prepare", "pin", "resolve"}, x.pc \in {"prepare", "pin", "resolve", "discard"},
         x.prepared = req[c].prepared, x.held = req[c].held,
         NEW f \in Nat, f >= bounds.faults, bounds.faults \in Nat
  PROVE  /\ Sound(c, x, row[c], task[c], c \in pinned, c \in artifact, f, phase)
         /\ DirectoriesSound(x, row[c], project)
<1>1. /\ RequestSound(c, req[c], row[c], task[c], c \in pinned)
      /\ TaskSound(req[c], row[c], task[c], c \in artifact)
      /\ DirectoriesSound(req[c], row[c], project)
  BY InvAt
<1>2. row[c] = "none" /\ task[c] = "none" /\ c \notin pinned
  BY <1>1 DEF RequestSound, TaskSound, Due, Working
<1>3. Sound(c, x, row[c], task[c], c \in pinned, c \in artifact, f, phase)
  BY <1>1, <1>2 DEF Sound, RequestSound, TaskSound, Carried, Due, Working
<1>4. DirectoriesSound(x, row[c], project)
  BY <1>1 DEF DirectoriesSound
<1> QED  BY <1>3, <1>4

LEMMA GiveUpStep ==
  ASSUME ComparisonsAssumption, ComparisonInv, NEW c \in Comparisons, NEW pc \in {"resolve", "discard"},
         req[c].pc \in {"prepare", "pin", "resolve"}, Goto(c, pc),
         UNCHANGED <<storageVars, row, artifact, task, pinned, waiting, phase, aborting>>,
         Fault \/ Works \/ UNCHANGED bounds
  PROVE  ComparisonInv'
<1>1. row \in Statuses /\ row[c] \in Status \cup {"none"}
  BY InvAt
<1>2. row' = [row EXCEPT ![c] = row[c]]
  BY <1>1 DEF Statuses
<1>3. bounds'.faults >= bounds.faults /\ bounds.faults \in Nat /\ bounds'.faults \in Nat
  BY BoundsStep
<1>4. \A x \in Row : x.pc = pc /\ x.reserved = req[c].reserved /\ x.prepared = req[c].prepared
                          /\ x.held = req[c].held
                        => /\ Sound(c, x, row[c], task[c], c \in pinned, c \in artifact, bounds'.faults, phase)
                           /\ DirectoriesSound(x, row[c], project)
  BY <1>3, GivesUp
<1>5. pc \in Steps /\ UNCHANGED <<storageVars, artifact, task, pinned, waiting, phase, aborting>>
  BY DEF Steps
<1> QED  BY <1>1, <1>2, <1>4, <1>5, GotoStep

LEMMA PrepareKeeps ==
  ASSUME ComparisonsAssumption, ComparisonInv, NEW c \in Comparisons, Prepare(c)
  PROVE  ComparisonInv'
<1>0. req[c].pc = "prepare" /\ UNCHANGED <<storage, row, artifact, task, pinned, waiting, phase, aborting, bounds>>
  BY DEF Prepare, At
<1>1. CASE \E pc \in {"resolve", "discard"} : Goto(c, pc) /\ UNCHANGED project
  BY <1>0, <1>1, GiveUpStep DEF storageVars
<1>2. CASE \E p \in Own(c) \ req[c].prepared :
             /\ project' = [project EXCEPT ![p].state = "ready", ![p].timer = TRUE]
             /\ Goto(c, "pin")
  <2>1. PICK p \in Own(c) \ req[c].prepared :
             /\ project' = [project EXCEPT ![p].state = "ready", ![p].timer = TRUE]
             /\ Goto(c, "pin")
    BY <1>2
  <2> DEFINE x == [req[c] EXCEPT !.pc = "pin"]
             y == [project[p] EXCEPT !.state = "ready", !.timer = TRUE]
  <2>2. /\ req \in Rows /\ req[c] \in Row /\ project \in Places /\ task \in AllTasks /\ task[c] \in Tasks
        /\ row \in Statuses /\ bounds \in Bounds
        /\ DirectoriesSound(req[c], row[c], project) /\ req[c].prepared \subseteq Own(c)
    BY InvAt DEF RequestSound
  <2>3. p \in Projects /\ Own(c) \subseteq Projects /\ p \in Own(c)
    BY DEF Own, ComparisonsAssumption
  <2>4. /\ x \in Row /\ x.pc = "pin" /\ x.prepared = req[c].prepared /\ x.held = req[c].held
        /\ req' = [req EXCEPT ![c] = x]
    BY <2>1, <2>2 DEF Row, Steps, Goto, Rows
  <2>5. /\ y \in [state : Directory, pins : Nat, timer : BOOLEAN]
        /\ y.state = "ready" /\ y.pins = project[p].pins
        /\ project' = [project EXCEPT ![p] = y]
    BY <2>1, <2>2, <2>3 DEF Places, Directory
  <2> HIDE DEF x, y
  <2>6. /\ project' \in Places /\ project'[p] = y
        /\ \A r \in Projects \ {p} : project'[r] = project[r]
    BY <2>2, <2>3, <2>5 DEF Places
  <2>7. \A r \in Projects : project'[r].pins > 0 => project'[r].state = "ready"
    BY <2>5, <2>6 DEF ComparisonInv
  <2>8. \A r \in Projects : project'[r].pins + Mine(c, req[c], c \in pinned, r)
                              = project[r].pins + Mine(c, x, c \in pinned', r)
    <3>1. \A r \in Projects : project'[r].pins = project[r].pins
      BY <2>5, <2>6
    <3>2. \A r \in Projects : Mine(c, x, c \in pinned', r) = Mine(c, req[c], c \in pinned, r)
      BY <1>0, <2>4 DEF Mine
    <3> QED  BY <3>1, <3>2
  <2>9. bounds.faults \in Nat /\ bounds'.faults = bounds.faults /\ bounds' \in Bounds
    BY <1>0, <2>2 DEF Bounds, ComparisonsAssumption
  <2>10. Sound(c, x, row[c], task[c], c \in pinned, c \in artifact, bounds.faults, phase)
         /\ DirectoriesSound(x, row[c], project)
    BY <1>0, <2>4, <2>9, GivesUp
  <2>11. DirectoriesSound(x, row[c], project')
    <3>1. \A r \in x.prepared : project'[r] = project[r]
      BY <2>2, <2>3, <2>4, <2>6
    <3> QED  BY <2>10, <3>1 DEF DirectoriesSound
  <2>12. /\ Queued(c, task[c], waiting) /\ task' = [task EXCEPT ![c] = task[c]] /\ waiting' = waiting
    BY <1>0, <2>2 DEF Queued, AllTasks
  <2>13. /\ row' \in Statuses /\ pinned' \subseteq Comparisons /\ artifact' \subseteq Comparisons
         /\ storage' \in {"open", "closed"} /\ phase' = phase /\ aborting' = aborting
    BY <1>0, Types DEF ComparisonInv
  <2>14. \A d \in Comparisons \ {c} : row'[d] = row[d] /\ (d \in pinned' <=> d \in pinned)
                                        /\ (d \in artifact' <=> d \in artifact)
    BY <1>0
  <2>15. \A r \in Projects \ Own(c) : project'[r].state = project[r].state
    BY <2>3, <2>6
  <2>16. Sound(c, x, row'[c], task[c], c \in pinned', c \in artifact', bounds'.faults, phase)
         /\ DirectoriesSound(x, row'[c], project') /\ bounds'.faults >= bounds.faults
    BY <1>0, <2>9, <2>10, <2>11
  <2> QED  BY <2>2, <2>4, <2>6, <2>7, <2>8, <2>9, <2>12, <2>13, <2>14, <2>15, <2>16, CallStep
<1>3. \/ \E pc \in {"resolve", "discard"} : Goto(c, pc) /\ UNCHANGED project
      \/ \E p \in Own(c) \ req[c].prepared :
             /\ project' = [project EXCEPT ![p].state = "ready", ![p].timer = TRUE]
             /\ Goto(c, "pin")
  BY Zenon DEF Prepare
<1> QED  BY <1>1, <1>2, <1>3

LEMMA PrepareFailsKeeps ==
  ASSUME ComparisonsAssumption, ComparisonInv, NEW c \in Comparisons, PrepareFails(c)
  PROVE  ComparisonInv'
BY GiveUpStep DEF PrepareFails, At, storageVars
LEMMA PinPreparedKeeps ==
  ASSUME ComparisonsAssumption, ComparisonInv, NEW c \in Comparisons, PinPrepared(c)
  PROVE  ComparisonInv'
<1>0. req[c].pc = "pin" /\ UNCHANGED <<storage, row, artifact, task, pinned, waiting, phase, aborting, bounds>>
  BY DEF PinPrepared, At
<1>1. CASE Goto(c, "discard") /\ UNCHANGED project
  BY <1>0, <1>1, GiveUpStep DEF storageVars
<1>2. CASE \E p \in Own(c) \ req[c].prepared :
             /\ PinProject(p)
             /\ req' = [req EXCEPT ![c].pc = "prepare", ![c].prepared = @ \cup {p}, ![c].held = @ \cup {p}]
  <2>1. PICK p \in Own(c) \ req[c].prepared :
             /\ PinProject(p)
             /\ req' = [req EXCEPT ![c].pc = "prepare", ![c].prepared = @ \cup {p}, ![c].held = @ \cup {p}]
    BY <1>2
  <2> DEFINE x == [req[c] EXCEPT !.pc = "prepare", !.prepared = @ \cup {p}, !.held = @ \cup {p}]
             n == project[p].pins + 1
             y == [project[p] EXCEPT !.pins = n, !.timer = FALSE]
  <2>2. /\ req \in Rows /\ req[c] \in Row /\ project \in Places /\ task \in AllTasks /\ task[c] \in Tasks
        /\ row \in Statuses /\ bounds \in Bounds
        /\ DirectoriesSound(req[c], row[c], project)
        /\ RequestSound(c, req[c], row[c], task[c], c \in pinned)
        /\ TaskSound(req[c], row[c], task[c], c \in artifact)
    BY InvAt
  <2>3. p \in Projects /\ Own(c) \subseteq Projects /\ p \in Own(c) /\ p \in Registered
    BY DEF Own, ComparisonsAssumption
  <2>4. /\ x \in Row /\ x.pc = "prepare" /\ x.prepared = req[c].prepared \cup {p}
        /\ x.held = req[c].held \cup {p}
        /\ req' = [req EXCEPT ![c] = x]
    BY <2>1, <2>2, <2>3 DEF Row, Steps, Rows
  <2>5. n \in Nat /\ project[p].pins \in Nat /\ n = project[p].pins + 1
    BY <2>3, Pins
  <2> HIDE DEF n
  <2>6. /\ y \in [state : Directory, pins : Nat, timer : BOOLEAN]
        /\ y.state = "ready" /\ project[p].state = "ready" /\ y.pins = n
        /\ project' = [project EXCEPT ![p] = y]
    BY <2>1, <2>2, <2>3, <2>5 DEF Places, PinProject, n
  <2> HIDE DEF x, y
  <2>7. /\ project' \in Places /\ project'[p] = y
        /\ \A r \in Projects \ {p} : project'[r] = project[r]
    BY <2>2, <2>3, <2>6 DEF Places
  <2>8. \A r \in Projects : project'[r].pins > 0 => project'[r].state = "ready"
    BY <2>6, <2>7 DEF ComparisonInv
  <2>9. \A r \in Projects : project'[r].pins + Mine(c, req[c], c \in pinned, r)
                              = project[r].pins + Mine(c, x, c \in pinned', r)
    <3> TAKE r \in Projects
    <3>1. CASE r = p
      <4>1. p \in x.held /\ p \notin req[c].held
        BY <2>1, <2>2, <2>4 DEF RequestSound
      <4>2. /\ One(p \in x.held) = 1 /\ One(p \in req[c].held) = 0
            /\ One(c \in pinned /\ p \in Uses(c)) \in Nat
        BY <4>1 DEF One
      <4>3. /\ Mine(c, req[c], c \in pinned, r) \in Nat
            /\ Mine(c, x, c \in pinned', r) = Mine(c, req[c], c \in pinned, r) + 1
        BY <1>0, <3>1, <4>2 DEF Mine
      <4>4. project'[r].pins = project[r].pins + 1 /\ project[r].pins \in Nat
        BY <2>5, <2>6, <2>7, <3>1
      <4> QED  BY <4>3, <4>4
    <3>2. CASE r # p
      <4>1. project'[r].pins = project[r].pins
        BY <2>7, <3>2
      <4>2. r \in x.held <=> r \in req[c].held
        BY <2>4, <3>2
      <4>3. Mine(c, x, c \in pinned', r) = Mine(c, req[c], c \in pinned, r)
        BY <1>0, <4>2 DEF Mine, One
      <4> QED  BY <4>1, <4>3
    <3> QED  BY <3>1, <3>2
  <2>10. bounds.faults \in Nat /\ bounds'.faults = bounds.faults /\ bounds' \in Bounds
    BY <1>0, <2>2 DEF Bounds, ComparisonsAssumption
  <2>11. row[c] = "none" /\ task[c] = "none" /\ c \notin pinned
    BY <1>0, <2>2 DEF RequestSound, TaskSound, Due, Working
  <2>12. Sound(c, x, row'[c], task[c], c \in pinned', c \in artifact', bounds'.faults, phase)
    BY <1>0, <2>2, <2>3, <2>4, <2>11 DEF Sound, RequestSound, TaskSound, Carried, Due, Working
  <2>13. DirectoriesSound(x, row'[c], project')
    <3>1. \A r \in req[c].prepared : project'[r] = project[r] /\ project[r].state # "deleting"
                                       /\ project[r].state \in Left \cup {"ready", "deleting"}
      BY <1>0, <2>1, <2>2, <2>3, <2>7 DEF DirectoriesSound, RequestSound
    <3>2. \A r \in x.prepared : project'[r].state \in Left \cup {"ready"}
      BY <2>4, <2>6, <2>7, <3>1
    <3> QED  BY <2>4, <3>2 DEF DirectoriesSound, Left
  <2>14. /\ Queued(c, task[c], waiting) /\ task' = [task EXCEPT ![c] = task[c]] /\ waiting' = waiting
    BY <1>0, <2>2 DEF Queued, AllTasks
  <2>15. /\ row' \in Statuses /\ pinned' \subseteq Comparisons /\ artifact' \subseteq Comparisons
         /\ storage' \in {"open", "closed"} /\ phase' = phase /\ aborting' = aborting
    BY <1>0, Types DEF ComparisonInv
  <2>16. \A d \in Comparisons \ {c} : row'[d] = row[d] /\ (d \in pinned' <=> d \in pinned)
                                        /\ (d \in artifact' <=> d \in artifact)
    BY <1>0
  <2>17. /\ \A r \in Projects \ Own(c) : project'[r].state = project[r].state
         /\ bounds'.faults >= bounds.faults
    BY <2>3, <2>7, <2>10
  <2> QED  BY <2>2, <2>4, <2>7, <2>8, <2>9, <2>10, <2>12, <2>13, <2>14, <2>15, <2>16, <2>17, CallStep
<1> QED  BY <1>1, <1>2 DEF PinPrepared

LEMMA ResolveKeeps ==
  ASSUME ComparisonsAssumption, ComparisonInv, NEW c \in Comparisons, Resolve(c)
  PROVE  ComparisonInv'
<1>0. req[c].pc = "resolve" /\ UNCHANGED <<storage, row, artifact, task, waiting, phase, aborting, bounds>>
  BY DEF Resolve, At
<1>1. CASE Goto(c, "discard") /\ UNCHANGED <<project, pinned>>
  BY <1>0, <1>1, GiveUpStep DEF storageVars
<1>2. CASE /\ \A p \in Uses(c) : project[p].state = "ready"
           /\ project' = PinAll(c) /\ pinned' = pinned \cup {c} /\ Goto(c, "create")
  <2> DEFINE x == [req[c] EXCEPT !.pc = "create"]
  <2>1. /\ req \in Rows /\ req[c] \in Row /\ project \in Places /\ task \in AllTasks /\ task[c] \in Tasks
        /\ row \in Statuses /\ bounds \in Bounds
        /\ DirectoriesSound(req[c], row[c], project)
        /\ RequestSound(c, req[c], row[c], task[c], c \in pinned)
        /\ TaskSound(req[c], row[c], task[c], c \in artifact)
    BY InvAt
  <2>2. /\ x \in Row /\ x.pc = "create" /\ x.prepared = req[c].prepared /\ x.held = req[c].held
        /\ req' = [req EXCEPT ![c] = x]
    BY <1>2, <2>1 DEF Row, Steps, Goto, Rows
  <2> HIDE DEF x
  <2>3. row[c] = "none" /\ task[c] = "none" /\ c \notin pinned
    BY <1>0, <2>1 DEF RequestSound, TaskSound, Due, Working
  <2>4. ASSUME NEW p \in Projects
        PROVE  /\ project'[p] \in [state : Directory, pins : Nat, timer : BOOLEAN]
               /\ project'[p].state = project[p].state /\ project[p].pins \in Nat
               /\ project'[p].pins = project[p].pins + One(p \in Uses(c))
    <3>1. project[p] \in [state : Directory, pins : Nat, timer : BOOLEAN]
      BY <2>1 DEF Places
    <3>2. CASE p \notin Uses(c)
      <4>1. project'[p] = project[p]
        BY <1>2, <3>2 DEF PinAll
      <4> QED  BY <3>1, <3>2, <4>1 DEF One
    <3>3. CASE p \in Uses(c)
      <4> DEFINE n == project[p].pins + 1
      <4>1. project'[p] = [project[p] EXCEPT !.pins = n, !.timer = FALSE]
        BY <1>2, <3>3 DEF PinAll
      <4>2. n \in Nat /\ n = project[p].pins + One(p \in Uses(c))
        BY <3>1, <3>3 DEF One
      <4> HIDE DEF n
      <4> QED  BY <3>1, <4>1, <4>2
    <3> QED  BY <3>2, <3>3
  <2>5. project' \in Places
    <3>1. project' = [p \in Projects |-> project'[p]]
      BY <1>2 DEF PinAll
    <3> QED  BY <2>4, <3>1 DEF Places
  <2>6. ASSUME NEW p \in Projects, project'[p].pins > 0 PROVE project'[p].state = "ready"
    <3>1. CASE p \in Uses(c)
      BY <1>2, <2>4, <3>1
    <3>2. CASE p \notin Uses(c)
      BY <2>4, <2>6, <3>2, Pins DEF One
    <3> QED  BY <3>1, <3>2
  <2>7. ASSUME NEW p \in Projects
        PROVE  project'[p].pins + Mine(c, req[c], c \in pinned, p)
                 = project[p].pins + Mine(c, x, c \in pinned', p)
    <3>1. /\ Mine(c, req[c], c \in pinned, p) = One(p \in req[c].held)
          /\ One(p \in req[c].held) \in Nat /\ One(p \in Uses(c)) \in Nat
      BY <2>3 DEF Mine, One
    <3>2. Mine(c, x, c \in pinned', p) = One(p \in req[c].held) + One(p \in Uses(c))
      BY <1>2, <2>2 DEF Mine
    <3> QED  BY <2>4, <3>1, <3>2
  <2>8. Sound(c, x, row'[c], task[c], c \in pinned', c \in artifact', bounds'.faults, phase)
    BY <1>0, <1>2, <2>1, <2>2, <2>3 DEF Sound, RequestSound, TaskSound, Carried, Due, Working
  <2>9. DirectoriesSound(x, row'[c], project')
    <3>1. \A p \in req[c].prepared : project'[p].state = project[p].state
      BY <2>1, <2>4 DEF Row, ComparisonsAssumption
    <3> QED  BY <1>0, <2>1, <2>2, <3>1 DEF DirectoriesSound
  <2>10. /\ Queued(c, task[c], waiting) /\ task' = [task EXCEPT ![c] = task[c]] /\ waiting' = waiting
    BY <1>0, <2>1 DEF Queued, AllTasks
  <2>11. /\ row' \in Statuses /\ pinned' \subseteq Comparisons /\ artifact' \subseteq Comparisons
         /\ storage' \in {"open", "closed"} /\ phase' = phase /\ aborting' = aborting
    BY <1>0, <1>2, Types DEF ComparisonInv
  <2>12. \A d \in Comparisons \ {c} : row'[d] = row[d] /\ (d \in pinned' <=> d \in pinned)
                                        /\ (d \in artifact' <=> d \in artifact)
    BY <1>0, <1>2
  <2>13. /\ \A p \in Projects \ Own(c) : project'[p].state = project[p].state
         /\ bounds' \in Bounds /\ bounds'.faults >= bounds.faults
    BY <1>0, <2>1, <2>4 DEF Bounds, ComparisonsAssumption
  <2> QED  BY <2>1, <2>2, <2>5, <2>6, <2>7, <2>8, <2>9, <2>10, <2>11, <2>12, <2>13, CallStep
<1> QED  BY <1>1, <1>2 DEF Resolve
(* The pins of the job are given back, and the request fails.              *)
LEMMA FailsKeeps ==
  ASSUME ComparisonsAssumption, ComparisonInv, NEW c \in Comparisons, InsertFails(c) \/ ReadBackFails(c)
  PROVE  ComparisonInv'
<1> DEFINE x == [req[c] EXCEPT !.pc = "discard"]
<1>0. /\ req[c].pc \in {"create", "readback"} /\ Fault
      /\ project' = Released(c) /\ pinned' = pinned \ {c} /\ Goto(c, "discard")
      /\ UNCHANGED <<storage, row, artifact, task, waiting, phase, aborting>>
  BY DEF InsertFails, ReadBackFails, At
<1>1. /\ req \in Rows /\ req[c] \in Row /\ task \in AllTasks /\ task[c] \in Tasks /\ row \in Statuses
      /\ DirectoriesSound(req[c], row[c], project)
      /\ RequestSound(c, req[c], row[c], task[c], c \in pinned)
      /\ TaskSound(req[c], row[c], task[c], c \in artifact)
      /\ Carried(req[c], row[c], task[c], bounds.faults, phase)
  BY InvAt
<1>2. /\ x \in Row /\ x.pc = "discard" /\ x.prepared = req[c].prepared /\ x.held = req[c].held
      /\ req' = [req EXCEPT ![c] = x]
  BY <1>0, <1>1 DEF Row, Steps, Goto, Rows
<1> HIDE DEF x
<1>3. task[c] = "none" /\ (req[c].pc = "create" => row[c] = "none")
  BY <1>0, <1>1 DEF RequestSound, TaskSound
<1>4. /\ bounds'.faults > 0 \/ phase = "closed"
      /\ bounds'.faults \in Nat /\ bounds.faults \in Nat /\ bounds'.faults >= bounds.faults
  BY <1>0, BoundsStep
<1>5. Sound(c, x, row'[c], task[c], c \in pinned', c \in artifact, bounds'.faults, phase)
  <2>1. row'[c] = row[c] /\ c \notin pinned'
    BY <1>0
  <2>2. RequestSound(c, x, row'[c], task[c], c \in pinned')
    BY <1>0, <1>1, <1>2, <1>3, <2>1 DEF RequestSound, Due, Working
  <2>3. TaskSound(x, row'[c], task[c], c \in artifact)
    BY <1>1, <1>2, <1>3, <2>1 DEF TaskSound
  <2>4. Carried(x, row'[c], task[c], bounds'.faults, phase)
    BY <1>1, <1>2, <1>3, <1>4, <2>1 DEF Carried, Working
  <2> QED  BY <2>2, <2>3, <2>4 DEF Sound
<1>6. DirectoriesSound(x, row'[c], project)
  BY <1>0, <1>1, <1>2 DEF DirectoriesSound
<1>7. /\ project' \in Places /\ \A p \in Projects : project'[p].state = project[p].state
      /\ \A p \in Projects : project'[p].pins + Mine(c, req[c], c \in pinned, p)
                               = project[p].pins + Mine(c, x, c \in pinned', p)
  <2>1. project' \in Places /\ \A p \in Projects :
          /\ project'[p].state = project[p].state
          /\ project'[p].pins + One(c \in pinned /\ p \in Uses(c)) = project[p].pins
    BY <1>0, ReleasedFacts
  <2>2. ASSUME NEW p \in Projects
        PROVE  project'[p].pins + Mine(c, req[c], c \in pinned, p)
                 = project[p].pins + Mine(c, x, c \in pinned', p)
    <3>1. /\ Mine(c, x, c \in pinned', p) = One(p \in req[c].held)
          /\ One(p \in req[c].held) \in Nat /\ One(c \in pinned /\ p \in Uses(c)) \in Nat
          /\ Mine(c, req[c], c \in pinned, p) = One(p \in req[c].held) + One(c \in pinned /\ p \in Uses(c))
      BY <1>0, <1>2 DEF Mine, One
    <3>2. project'[p].pins \in Nat
      BY <2>1 DEF Places
    <3> QED  BY <2>1, <3>1, <3>2
  <2> QED  BY <2>1, <2>2
<1>8. /\ Queued(c, task[c], waiting) /\ task' = [task EXCEPT ![c] = task[c]] /\ waiting' = waiting
  BY <1>0, <1>1 DEF Queued, AllTasks
<1>9. /\ row' \in Statuses /\ \A d \in Comparisons \ {c} : row'[d] = row[d]
      /\ pinned' \in {pinned, pinned \ {c}} /\ UNCHANGED <<storage, artifact, phase, aborting>>
      /\ x.held \subseteq req[c].held
  BY <1>0, <1>1, <1>2
<1> QED  BY <1>0, <1>1, <1>2, <1>5, <1>6, <1>7, <1>8, <1>9, ReleaseStep

LEMMA InsertKeeps ==
  ASSUME ComparisonsAssumption, ComparisonInv, NEW c \in Comparisons, Insert(c)
  PROVE  ComparisonInv'
<1>1. /\ RequestSound(c, req[c], row[c], task[c], c \in pinned)
      /\ TaskSound(req[c], row[c], task[c], c \in artifact)
      /\ DirectoriesSound(req[c], row[c], project)
  BY InvAt
<1>2. req[c].pc = "create" /\ row[c] = "none" /\ task[c] = "none" /\ c \in pinned
  BY <1>1 DEF Insert, At, RequestSound, TaskSound
<1>3. \A x \in Row : x.pc = "readback" /\ x.reserved = req[c].reserved /\ x.prepared = req[c].prepared
                          /\ x.held = req[c].held
                        => /\ Sound(c, x, "QUEUED", task[c], c \in pinned, c \in artifact, bounds'.faults, phase)
                           /\ DirectoriesSound(x, "QUEUED", project)
  <2>1. ASSUME NEW x \in Row, x.pc = "readback", x.prepared = req[c].prepared, x.held = req[c].held
        PROVE  /\ Sound(c, x, "QUEUED", task[c], c \in pinned, c \in artifact, bounds'.faults, phase)
               /\ DirectoriesSound(x, "QUEUED", project)
    <3>1. Sound(c, x, "QUEUED", task[c], c \in pinned, c \in artifact, bounds'.faults, phase)
      BY <1>1, <1>2, <2>1 DEF Sound, RequestSound, TaskSound, Carried, Due, Working
    <3>2. DirectoriesSound(x, "QUEUED", project)
      BY <1>1, <1>2, <2>1 DEF DirectoriesSound
    <3> QED  BY <3>1, <3>2
  <2> QED  BY <2>1
<1>4. /\ "readback" \in Steps /\ "QUEUED" \in Status \cup {"none"} /\ Goto(c, "readback") /\ Works
      /\ row' = [row EXCEPT ![c] = "QUEUED"]
      /\ UNCHANGED <<storageVars, artifact, task, pinned, waiting, phase, aborting>>
  BY DEF Insert, Steps, Status
<1> QED  BY <1>3, <1>4, GotoStep

LEMMA RejectKeeps ==
  ASSUME ComparisonsAssumption, ComparisonInv, NEW c \in Comparisons, Reject(c)
  PROVE  ComparisonInv'
<1>1. /\ RequestSound(c, req[c], row[c], task[c], c \in pinned)
      /\ TaskSound(req[c], row[c], task[c], c \in artifact)
      /\ Carried(req[c], row[c], task[c], bounds.faults, phase)
      /\ DirectoriesSound(req[c], row[c], project) /\ row[c] \in Status \cup {"none"} /\ row \in Statuses
  BY InvAt
<1>2. req[c].pc = "reject" /\ row[c] # "none" /\ task[c] = "none" /\ c \notin pinned
  BY <1>1 DEF Reject, At, RequestSound, TaskSound, Due, Working
<1>3. PICK s \in Status \cup {"none"} :
        /\ row' = [row EXCEPT ![c] = s] /\ s \in {"FAILED", row[c]}
        /\ s \in {"QUEUED", "RUNNING"} => Fault
  <2>1. row = [row EXCEPT ![c] = row[c]]
    BY <1>1 DEF Statuses
  <2>2. CASE row' = MarkedFailed(c)
    BY <1>1, <2>1, <2>2 DEF MarkedFailed, Status
  <2>3. CASE Fault /\ row' = row
    BY <1>1, <2>1, <2>3
  <2> QED  BY <2>2, <2>3 DEF Reject
<1>4. /\ Fault => bounds'.faults > 0 \/ phase = "closed"
      /\ bounds'.faults \in Nat /\ bounds.faults \in Nat /\ bounds'.faults >= bounds.faults
  BY BoundsStep DEF Reject
<1>5. \A x \in Row : x.pc = "ended" /\ x.reserved = req[c].reserved /\ x.prepared = req[c].prepared
                          /\ x.held = req[c].held
                        => /\ Sound(c, x, s, task[c], c \in pinned, c \in artifact, bounds'.faults, phase)
                           /\ DirectoriesSound(x, s, project)
  <2>1. ASSUME NEW x \in Row, x.pc = "ended", x.reserved = req[c].reserved, x.prepared = req[c].prepared,
               x.held = req[c].held
        PROVE  /\ Sound(c, x, s, task[c], c \in pinned, c \in artifact, bounds'.faults, phase)
               /\ DirectoriesSound(x, s, project)
    <3>1. RequestSound(c, x, s, task[c], c \in pinned) /\ TaskSound(x, s, task[c], c \in artifact)
      BY <1>1, <1>2, <1>3, <2>1 DEF RequestSound, TaskSound, Due, Working
    <3>2. Carried(x, s, task[c], bounds'.faults, phase)
      BY <1>1, <1>2, <1>3, <1>4 DEF Carried, Working
    <3>3. DirectoriesSound(x, s, project)
      BY <1>1, <1>2, <1>3, <2>1 DEF DirectoriesSound
    <3> QED  BY <3>1, <3>2, <3>3 DEF Sound
  <2> QED  BY <2>1
<1>6. /\ "ended" \in Steps /\ Goto(c, "ended") /\ (Fault \/ Works)
      /\ UNCHANGED <<storageVars, artifact, task, pinned, waiting, phase, aborting>>
  BY DEF Reject, Steps
<1> QED  BY <1>3, <1>5, <1>6, GotoStep
LEMMA HeldFacts ==
  ASSUME ComparisonsAssumption, ComparisonInv, NEW c \in Comparisons, NEW ps, ps \subseteq req[c].held
  PROVE  /\ Unpinned(project, ps) \in Places
         /\ \A p \in Projects : /\ Unpinned(project, ps)[p].state = project[p].state
                                /\ Unpinned(project, ps)[p].pins + One(p \in ps) = project[p].pins
<1>1. project \in Places
  BY InvAt
<1>2. \A p \in Projects : p \in ps => project[p].pins > 0
  BY PinnedReady
<1> QED  BY <1>1, <1>2, UnpinnedFacts

(* A job that a closed queue refuses gives all pins of c back.             *)
LEMMA AllGivenBack ==
  ASSUME ComparisonsAssumption, ComparisonInv, NEW c \in Comparisons
  PROVE  LET store == Unpinned(Released(c), req[c].held)
         IN  /\ store \in Places
             /\ \A p \in Projects : /\ store[p].state = project[p].state
                                    /\ store[p].pins + Mine(c, req[c], c \in pinned, p) = project[p].pins
<1> DEFINE store == Unpinned(Released(c), req[c].held)
<1>1. /\ Released(c) \in Places
      /\ \A p \in Projects : /\ Released(c)[p].state = project[p].state
                             /\ Released(c)[p].pins + One(c \in pinned /\ p \in Uses(c)) = project[p].pins
  BY ReleasedFacts
<1>2. ASSUME NEW p \in Projects
      PROVE  /\ Released(c)[p].pins \in Nat /\ Released(c)[p].pins >= One(p \in req[c].held)
             /\ One(p \in req[c].held) \in Nat /\ One(c \in pinned /\ p \in Uses(c)) \in Nat
  <2>1. /\ project[p].pins \in Nat
        /\ project[p].pins >= One(p \in req[c].held) + One(c \in pinned /\ p \in Uses(c))
    BY Pins DEF Mine
  <2>2. One(p \in req[c].held) \in Nat /\ One(c \in pinned /\ p \in Uses(c)) \in Nat
    BY DEF One
  <2>3. Released(c)[p].pins \in Nat
    BY <1>1 DEF Places
  <2> QED  BY <1>1, <2>1, <2>2, <2>3
<1>3. \A p \in Projects : p \in req[c].held => Released(c)[p].pins > 0
  BY <1>2 DEF One
<1>4. /\ store \in Places
      /\ \A p \in Projects : /\ store[p].state = Released(c)[p].state
                             /\ store[p].pins + One(p \in req[c].held) = Released(c)[p].pins
  BY <1>1, <1>3, UnpinnedFacts
<1> HIDE DEF store
<1>5. \A p \in Projects : store[p].pins + Mine(c, req[c], c \in pinned, p) = project[p].pins
  <2> TAKE p \in Projects
  <2>1. store[p].pins \in Nat
    BY <1>4 DEF Places
  <2> QED  BY <1>1, <1>2, <1>4, <2>1 DEF Mine
<1> QED  BY <1>1, <1>4, <1>5 DEF store

LEMMA EnqueueKeeps ==
  ASSUME ComparisonsAssumption, ComparisonInv, NEW c \in Comparisons, Enqueue(c)
  PROVE  ComparisonInv'
<1>0. /\ req[c].pc = "readback" /\ Works
      /\ UNCHANGED <<storage, row, artifact, phase, aborting>>
  BY DEF Enqueue, At
<1>1. /\ req \in Rows /\ req[c] \in Row /\ task \in AllTasks /\ task[c] \in Tasks /\ row \in Statuses
      /\ DirectoriesSound(req[c], row[c], project)
      /\ RequestSound(c, req[c], row[c], task[c], c \in pinned)
      /\ TaskSound(req[c], row[c], task[c], c \in artifact)
      /\ Carried(req[c], row[c], task[c], bounds.faults, phase)
  BY InvAt
<1>2. task[c] = "none" /\ row[c] # "none" /\ c \in pinned
  BY <1>0, <1>1 DEF RequestSound, TaskSound
<1>3. bounds' = bounds
  BY <1>0 DEF Works
<1>4. row' \in Statuses /\ \A d \in Comparisons \ {c} : row'[d] = row[d]
  BY <1>0, <1>1
<1>5. CASE /\ phase = "open"
           /\ req' = Ended(c) /\ project' = Unpinned(project, req[c].held)
           /\ Drain([task EXCEPT ![c] = "waiting"], Append(waiting, c))
           /\ UNCHANGED pinned
  <2> DEFINE x == [req[c] EXCEPT !.pc = "ended", !.reserved = FALSE, !.held = {}]
             q == Append(waiting, c)
  <2>1. /\ x \in Row /\ x.pc = "ended" /\ x.reserved = FALSE /\ x.prepared = req[c].prepared /\ x.held = {}
        /\ req' = [req EXCEPT ![c] = x]
    BY <1>1, <1>5 DEF Row, Steps, Ended, Rows
  <2> HIDE DEF x
  <2>2. Queued(c, "waiting", q) /\ "waiting" \in Tasks
    BY <1>2, <1>5 DEF Queued, Due, Working, Tasks
  <2>3. Drain([task EXCEPT ![c] = "waiting"], q)
    BY <1>5
  <2> HIDE DEF q
  <2>4. Sound(c, x, row'[c], "waiting", c \in pinned', c \in artifact, bounds'.faults, phase)
    <3>1. RequestSound(c, x, row[c], "waiting", c \in pinned) /\ TaskSound(x, row[c], "waiting", c \in artifact)
      BY <1>0, <1>1, <1>2, <2>1 DEF RequestSound, TaskSound, Due
    <3>2. Carried(x, row[c], "waiting", bounds.faults, phase)
      BY <1>1, <1>2, <2>1 DEF Carried, Working
    <3> QED  BY <1>0, <1>3, <1>5, <3>1, <3>2 DEF Sound
  <2>5. DirectoriesSound(x, row'[c], project)
    BY <1>0, <1>1, <1>2, <2>1 DEF DirectoriesSound
  <2>6. project' \in Places /\ \A p \in Projects :
          /\ project'[p].state = project[p].state
          /\ project'[p].pins + One(p \in req[c].held) = project[p].pins
    BY <1>5, HeldFacts
  <2>7. ASSUME NEW p \in Projects
        PROVE  project'[p].pins + Mine(c, req[c], c \in pinned, p)
                 = project[p].pins + Mine(c, x, c \in pinned', p)
    <3>1. /\ Mine(c, x, c \in pinned', p) = One(c \in pinned /\ p \in Uses(c))
          /\ One(p \in req[c].held) \in Nat /\ One(c \in pinned /\ p \in Uses(c)) \in Nat
          /\ Mine(c, req[c], c \in pinned, p) = One(p \in req[c].held) + One(c \in pinned /\ p \in Uses(c))
      BY <1>5, <2>1 DEF Mine, One
    <3>2. project'[p].pins \in Nat
      BY <2>6 DEF Places
    <3> QED  BY <2>6, <3>1, <3>2
  <2>8. x.held \subseteq req[c].held /\ pinned' \in {pinned, pinned \ {c}}
    BY <1>5, <2>1
  <2> QED  BY <1>0, <1>4, <2>1, <2>2, <2>3, <2>4, <2>5, <2>6, <2>7, <2>8, ReleaseStep
<1>6. CASE /\ req' = [req EXCEPT ![c].pc = "reject", ![c].reserved = FALSE, ![c].held = {}]
           /\ project' = Unpinned(Released(c), req[c].held) /\ pinned' = pinned \ {c}
           /\ UNCHANGED <<task, waiting>>
  <2> DEFINE x == [req[c] EXCEPT !.pc = "reject", !.reserved = FALSE, !.held = {}]
  <2>1. /\ x \in Row /\ x.pc = "reject" /\ x.reserved = FALSE /\ x.prepared = req[c].prepared /\ x.held = {}
        /\ req' = [req EXCEPT ![c] = x]
    BY <1>1, <1>6 DEF Row, Steps, Rows
  <2> HIDE DEF x
  <2>2. Queued(c, task[c], waiting) /\ task' = [task EXCEPT ![c] = task[c]] /\ waiting' = waiting
    BY <1>1, <1>6 DEF Queued, AllTasks
  <2>3. Sound(c, x, row'[c], task[c], c \in pinned', c \in artifact, bounds'.faults, phase)
    <3>1. c \notin pinned' /\ row'[c] = row[c]
      BY <1>0, <1>6
    <3>2. RequestSound(c, x, row[c], task[c], c \in pinned') /\ TaskSound(x, row[c], task[c], c \in artifact)
      BY <1>0, <1>1, <1>2, <2>1, <3>1 DEF RequestSound, TaskSound, Due, Working
    <3>3. Carried(x, row[c], task[c], bounds.faults, phase)
      BY <1>1, <1>2, <2>1 DEF Carried, Working
    <3> QED  BY <1>3, <3>1, <3>2, <3>3 DEF Sound
  <2>4. DirectoriesSound(x, row'[c], project)
    BY <1>0, <1>1, <1>2, <2>1 DEF DirectoriesSound
  <2>5. project' \in Places /\ \A p \in Projects :
          /\ project'[p].state = project[p].state
          /\ project'[p].pins + Mine(c, req[c], c \in pinned, p) = project[p].pins
    BY <1>6, AllGivenBack
  <2>6. ASSUME NEW p \in Projects
        PROVE  project'[p].pins + Mine(c, req[c], c \in pinned, p)
                 = project[p].pins + Mine(c, x, c \in pinned', p)
    <3>1. Mine(c, x, c \in pinned', p) = 0 /\ project[p].pins \in Nat
      BY <1>6, <2>1, Pins DEF Mine, One
    <3> QED  BY <2>5, <3>1
  <2>7. x.held \subseteq req[c].held /\ pinned' \in {pinned, pinned \ {c}}
    BY <1>6, <2>1
  <2> QED  BY <1>0, <1>1, <1>4, <2>1, <2>2, <2>3, <2>4, <2>5, <2>6, <2>7, ReleaseStep
<1> QED  BY <1>5, <1>6 DEF Enqueue, accepting
(* After an error: what the request prepared is unpinned and removed.      *)
LEMMA DiscardSound ==
  ASSUME ComparisonInv, NEW c \in Comparisons, NEW x \in Row,
         req[c].pc = "discard", x.prepared = req[c].prepared, x.held \subseteq req[c].held,
         x.pc = "remove" \/ (x.pc = "ended" /\ x.held = {} /\ x.reserved = FALSE)
  PROVE  Sound(c, x, row[c], task[c], c \in pinned, c \in artifact, bounds.faults, phase)
<1>1. /\ RequestSound(c, req[c], row[c], task[c], c \in pinned)
      /\ TaskSound(req[c], row[c], task[c], c \in artifact)
      /\ Carried(req[c], row[c], task[c], bounds.faults, phase)
  BY InvAt
<1>2. task[c] = "none" /\ c \notin pinned
  BY <1>1 DEF RequestSound, TaskSound, Due, Working
<1>3. RequestSound(c, x, row[c], task[c], c \in pinned)
  BY <1>1, <1>2 DEF RequestSound, Due, Working
<1>4. TaskSound(x, row[c], task[c], c \in artifact) /\ Carried(x, row[c], task[c], bounds.faults, phase)
  BY <1>1, <1>2 DEF TaskSound, Carried, Working
<1> QED  BY <1>3, <1>4 DEF Sound

LEMMA DiscardKeeps ==
  ASSUME ComparisonsAssumption, ComparisonInv, NEW c \in Comparisons, Discard(c)
  PROVE  ComparisonInv'
<1>0. /\ req[c].pc = "discard"
      /\ UNCHANGED <<storage, row, artifact, task, pinned, waiting, phase, aborting, bounds>>
  BY DEF Discard, At
<1>1. /\ req \in Rows /\ req[c] \in Row /\ task \in AllTasks /\ task[c] \in Tasks /\ row \in Statuses
      /\ project \in Places /\ bounds \in Bounds
      /\ DirectoriesSound(req[c], row[c], project)
      /\ RequestSound(c, req[c], row[c], task[c], c \in pinned)
  BY InvAt
<1>2. /\ row' \in Statuses /\ \A d \in Comparisons \ {c} : row'[d] = row[d]
      /\ UNCHANGED <<storage, artifact, phase, aborting>> /\ UNCHANGED bounds
      /\ Queued(c, task[c], waiting) /\ task' = [task EXCEPT ![c] = task[c]] /\ waiting' = waiting
      /\ pinned' \in {pinned, pinned \ {c}} /\ (c \in pinned' <=> c \in pinned)
  BY <1>0, <1>1 DEF Queued, AllTasks
<1>3. CASE /\ ~ \E p \in req[c].prepared : project[p].state = "ready"
           /\ project' = Unpinned(project, req[c].held) /\ req' = Ended(c)
  <2> DEFINE x == [req[c] EXCEPT !.pc = "ended", !.reserved = FALSE, !.held = {}]
  <2>1. /\ x \in Row /\ x.pc = "ended" /\ x.reserved = FALSE /\ x.prepared = req[c].prepared /\ x.held = {}
        /\ req' = [req EXCEPT ![c] = x]
    BY <1>1, <1>3 DEF Row, Steps, Ended, Rows
  <2> HIDE DEF x
  <2>2. Sound(c, x, row'[c], task[c], c \in pinned', c \in artifact, bounds'.faults, phase)
    BY <1>0, <2>1, DiscardSound
  <2>3. DirectoriesSound(x, row'[c], project)
    BY <1>0, <1>1, <1>3, <2>1 DEF DirectoriesSound, Left
  <2>4. project' \in Places /\ \A p \in Projects :
          /\ project'[p].state = project[p].state
          /\ project'[p].pins + One(p \in req[c].held) = project[p].pins
    BY <1>3, HeldFacts
  <2>5. ASSUME NEW p \in Projects
        PROVE  project'[p].pins + Mine(c, req[c], c \in pinned, p)
                 = project[p].pins + Mine(c, x, c \in pinned', p)
    <3>1. /\ Mine(c, x, c \in pinned', p) = One(c \in pinned /\ p \in Uses(c))
          /\ One(p \in req[c].held) \in Nat /\ One(c \in pinned /\ p \in Uses(c)) \in Nat
          /\ Mine(c, req[c], c \in pinned, p) = One(p \in req[c].held) + One(c \in pinned /\ p \in Uses(c))
      BY <1>2, <2>1 DEF Mine, One
    <3>2. project'[p].pins \in Nat
      BY <2>4 DEF Places
    <3> QED  BY <2>4, <3>1, <3>2
  <2>6. x.held \subseteq req[c].held
    BY <2>1
  <2> QED  BY <1>1, <1>2, <2>1, <2>2, <2>3, <2>4, <2>5, <2>6, ReleaseStep
<1>4. CASE \E p \in req[c].prepared :
             /\ project[p].state = "ready"
             /\ LET store == Unpinned(project, req[c].held \cap {p})
                IN  IF store[p].pins = 0 THEN project' = [store EXCEPT ![p].state = "deleting", ![p].timer = FALSE]
                    ELSE project' = store
             /\ req' = [req EXCEPT ![c].pc = "remove", ![c].held = @ \ {p}]
  <2>1. PICK p \in req[c].prepared :
             /\ project[p].state = "ready"
             /\ LET store == Unpinned(project, req[c].held \cap {p})
                IN  IF store[p].pins = 0 THEN project' = [store EXCEPT ![p].state = "deleting", ![p].timer = FALSE]
                    ELSE project' = store
             /\ req' = [req EXCEPT ![c].pc = "remove", ![c].held = @ \ {p}]
    BY <1>4
  <2> DEFINE x == [req[c] EXCEPT !.pc = "remove", !.held = @ \ {p}]
             store == Unpinned(project, req[c].held \cap {p})
             y == [store[p] EXCEPT !.state = "deleting", !.timer = FALSE]
  <2>2. /\ x \in Row /\ x.pc = "remove" /\ x.prepared = req[c].prepared /\ x.held = req[c].held \ {p}
        /\ req' = [req EXCEPT ![c] = x]
    BY <1>1, <2>1 DEF Row, Steps, Rows
  <2>3. p \in Own(c) /\ p \in Projects /\ req[c].prepared \subseteq Projects
    BY <1>1 DEF RequestSound, Own, ComparisonsAssumption
  <2>4. /\ store \in Places
        /\ \A r \in Projects : /\ store[r].state = project[r].state
                               /\ store[r].pins + One(r \in req[c].held \cap {p}) = project[r].pins
    BY HeldFacts
  <2>5. store[p].pins = 0 => project' = [store EXCEPT ![p] = y]
    BY <2>1, <2>3, <2>4 DEF Places
  <2>6. store[p].pins # 0 => project' = store
    BY <2>1
  <2> HIDE DEF x, store
  <2>7. /\ y \in [state : Directory, pins : Nat, timer : BOOLEAN]
        /\ y.state = "deleting" /\ y.pins = store[p].pins
    BY <2>3, <2>4 DEF Places, Directory
  <2> HIDE DEF y
  <2>8. /\ project' \in Places /\ \A r \in Projects : project'[r].pins = store[r].pins
        /\ \A r \in Projects \ {p} : project'[r].state = project[r].state
        /\ (project'[p].state = "deleting" /\ project'[p].pins = 0) \/ project'[p].state = "ready"
    BY <2>1, <2>3, <2>4, <2>5, <2>6, <2>7 DEF Places
  <2>9. ASSUME NEW r \in Projects
        PROVE  /\ project'[r].pins + Mine(c, req[c], c \in pinned, r)
                    = project[r].pins + Mine(c, x, c \in pinned', r)
               /\ project'[r].pins <= project[r].pins
               /\ project'[r].pins \in Nat /\ project[r].pins \in Nat
    <3>1. One(r \in x.held) + One(r \in req[c].held \cap {p}) = One(r \in req[c].held)
      BY <2>2 DEF One
    <3>2. /\ Mine(c, x, c \in pinned', r) = One(r \in x.held) + One(c \in pinned /\ r \in Uses(c))
          /\ Mine(c, req[c], c \in pinned, r) = One(r \in req[c].held) + One(c \in pinned /\ r \in Uses(c))
      BY <1>2 DEF Mine, One
    <3>3. /\ One(r \in req[c].held) \in Nat /\ One(c \in pinned /\ r \in Uses(c)) \in Nat
          /\ One(r \in x.held) \in Nat /\ One(r \in req[c].held \cap {p}) \in Nat
      BY DEF One
    <3>4. project'[r].pins \in Nat /\ project[r].pins \in Nat
      BY <1>1, <2>8 DEF Places
    <3>5. project'[r].pins + One(r \in req[c].held \cap {p}) = project[r].pins
      BY <2>4, <2>8
    <3> DEFINE a == One(r \in x.held)
               a1 == One(r \in req[c].held \cap {p})
               a2 == One(r \in req[c].held)
               b == One(c \in pinned /\ r \in Uses(c))
               n == project[r].pins
               n1 == project'[r].pins
    <3>6. /\ a \in Nat /\ a1 \in Nat /\ a2 \in Nat /\ b \in Nat /\ n \in Nat /\ n1 \in Nat
          /\ a + a1 = a2 /\ n1 + a1 = n
      BY <3>1, <3>3, <3>4, <3>5
    <3> HIDE DEF a, a1, a2, b, n, n1
    <3>7. n1 + (a2 + b) = n + (a + b) /\ n1 <= n
      BY <3>6
    <3> QED  BY <3>2, <3>4, <3>7 DEF a, a1, a2, b, n, n1
  <2>10. ASSUME NEW r \in Projects, project'[r].pins > 0 PROVE project'[r].state = "ready"
    <3>1. CASE r = p
      BY <2>8, <2>10, <3>1
    <3>2. CASE r # p
      <4>1. project[r].pins > 0
        BY <2>9, <2>10
      <4> QED  BY <2>8, <3>2, <4>1, Pins
    <3> QED  BY <3>1, <3>2
  <2>11. Sound(c, x, row'[c], task[c], c \in pinned', c \in artifact', bounds'.faults, phase)
    BY <1>0, <2>2, DiscardSound
  <2>12. DirectoriesSound(x, row'[c], project')
    <3>1. \A r \in req[c].prepared \ {p} : /\ project'[r].state = project[r].state
                                           /\ project[r].state \in Left \cup {"ready"}
      BY <1>0, <1>1, <2>3, <2>8 DEF DirectoriesSound
    <3> QED  BY <1>0, <2>2, <2>8, <3>1 DEF DirectoriesSound, Left
  <2>13. /\ pinned' \subseteq Comparisons /\ artifact' \subseteq Comparisons
         /\ storage' \in {"open", "closed"} /\ phase' = phase /\ aborting' = aborting
         /\ \A d \in Comparisons \ {c} : row'[d] = row[d] /\ (d \in pinned' <=> d \in pinned)
                                           /\ (d \in artifact' <=> d \in artifact)
    BY <1>0, Types DEF ComparisonInv
  <2>14. /\ \A r \in Projects \ Own(c) : project'[r].state = project[r].state
         /\ bounds' \in Bounds /\ bounds'.faults >= bounds.faults
    BY <1>0, <1>1, <2>3, <2>8 DEF Bounds, ComparisonsAssumption
  <2>15. /\ \A r \in Projects : project'[r].pins + Mine(c, req[c], c \in pinned, r)
                                   = project[r].pins + Mine(c, x, c \in pinned', r)
         /\ \A r \in Projects : project'[r].pins > 0 => project'[r].state = "ready"
         /\ x \in Row /\ req' = [req EXCEPT ![c] = x] /\ project' \in Places
    BY <2>2, <2>8, <2>9, <2>10
  <2>16. /\ task[c] \in Tasks /\ row' \in Statuses
         /\ Queued(c, task[c], waiting) /\ task' = [task EXCEPT ![c] = task[c]] /\ waiting' = waiting
    BY <1>1, <1>2
  <2> QED  BY <2>11, <2>12, <2>13, <2>14, <2>15, <2>16, CallStep
<1> QED  BY <1>3, <1>4, Zenon DEF Discard

LEMMA RemovedKeeps ==
  ASSUME ComparisonsAssumption, ComparisonInv, NEW c \in Comparisons, Removed(c)
  PROVE  ComparisonInv'
<1>1. PICK p \in req[c].prepared, ok \in BOOLEAN :
        /\ IF ok THEN UNCHANGED bounds ELSE Fault
        /\ DeletionEnds(p, ok)
  BY DEF Removed
<1> DEFINE x == [req[c] EXCEPT !.pc = "discard"]
           d0 == IF ok THEN "gone" ELSE "undeleted"
           y == [project[p] EXCEPT !.state = d0]
<1>2. /\ req \in Rows /\ req[c] \in Row /\ task \in AllTasks /\ task[c] \in Tasks /\ row \in Statuses
      /\ project \in Places
      /\ DirectoriesSound(req[c], row[c], project)
      /\ RequestSound(c, req[c], row[c], task[c], c \in pinned)
      /\ TaskSound(req[c], row[c], task[c], c \in artifact)
      /\ Carried(req[c], row[c], task[c], bounds.faults, phase)
  BY InvAt
<1>3. /\ req[c].pc = "remove" /\ Goto(c, "discard")
      /\ UNCHANGED <<storage, row, artifact, task, pinned, waiting, phase, aborting>>
  BY DEF Removed, At
<1>4. /\ x \in Row /\ x.pc = "discard" /\ x.prepared = req[c].prepared /\ x.held = req[c].held
      /\ req' = [req EXCEPT ![c] = x]
  BY <1>2, <1>3 DEF Row, Steps, Goto, Rows
<1>5. p \in Own(c) /\ p \in Projects /\ req[c].prepared \subseteq Projects
  BY <1>2 DEF RequestSound, Own, ComparisonsAssumption
<1>6. d0 \in Left /\ d0 \in Directory
  BY DEF Left, Directory
<1>7. project[p].state = "deleting" /\ project' = [project EXCEPT ![p].state = d0]
  BY <1>1 DEF DeletionEnds
<1> HIDE DEF x, d0
<1>8. /\ y \in [state : Directory, pins : Nat, timer : BOOLEAN]
      /\ y.state = d0 /\ y.pins = project[p].pins
      /\ project' = [project EXCEPT ![p] = y]
  BY <1>2, <1>5, <1>6, <1>7 DEF Places
<1> HIDE DEF y
<1>9. /\ project' \in Places /\ project'[p] = y
      /\ \A r \in Projects \ {p} : project'[r] = project[r]
  BY <1>2, <1>5, <1>8 DEF Places
<1>10. \A r \in Projects : project'[r].pins = project[r].pins
  BY <1>8, <1>9
<1>11. ASSUME NEW r \in Projects, project'[r].pins > 0 PROVE project'[r].state = "ready"
  <2>1. project[r].pins > 0
    BY <1>10, <1>11
  <2>2. project[r].state = "ready"
    BY <2>1, Pins
  <2> QED  BY <1>7, <1>9, <2>2
<1>12. \A r \in Projects : project'[r].pins + Mine(c, req[c], c \in pinned, r)
                             = project[r].pins + Mine(c, x, c \in pinned', r)
  <2>1. \A r \in Projects : Mine(c, x, c \in pinned', r) = Mine(c, req[c], c \in pinned, r)
    BY <1>3, <1>4 DEF Mine
  <2> QED  BY <1>10, <2>1
<1>13. /\ bounds' \in Bounds /\ bounds'.faults >= bounds.faults
       /\ bounds.faults \in Nat /\ bounds'.faults \in Nat
  BY <1>1, BoundsStep
<1>14. Sound(c, x, row'[c], task[c], c \in pinned', c \in artifact', bounds'.faults, phase)
  <2>1. task[c] = "none" /\ c \notin pinned
    BY <1>2, <1>3 DEF RequestSound, TaskSound, Due, Working
  <2>2. RequestSound(c, x, row[c], task[c], c \in pinned) /\ TaskSound(x, row[c], task[c], c \in artifact)
    BY <1>2, <1>3, <1>4, <2>1 DEF RequestSound, TaskSound, Due, Working
  <2>3. Carried(x, row[c], task[c], bounds'.faults, phase)
    BY <1>2, <1>3, <1>4, <1>13, <2>1 DEF Carried, Working
  <2> QED  BY <1>3, <2>2, <2>3 DEF Sound
<1>15. DirectoriesSound(x, row'[c], project')
  <2>1. \A r \in req[c].prepared \ {p} : /\ project'[r].state = project[r].state
                                         /\ project[r].state \in Left \cup {"ready"}
    BY <1>2, <1>5, <1>7, <1>9 DEF DirectoriesSound
  <2> QED  BY <1>4, <1>6, <1>8, <1>9, <2>1 DEF DirectoriesSound, Left
<1>16. /\ Queued(c, task[c], waiting) /\ task' = [task EXCEPT ![c] = task[c]] /\ waiting' = waiting
  BY <1>2, <1>3 DEF Queued, AllTasks
<1>17. /\ row' \in Statuses /\ pinned' \subseteq Comparisons /\ artifact' \subseteq Comparisons
       /\ storage' \in {"open", "closed"} /\ phase' = phase /\ aborting' = aborting
       /\ \A d \in Comparisons \ {c} : row'[d] = row[d] /\ (d \in pinned' <=> d \in pinned)
                                         /\ (d \in artifact' <=> d \in artifact)
  BY <1>3, Types DEF ComparisonInv
<1>18. \A r \in Projects \ Own(c) : project'[r].state = project[r].state
  BY <1>5, <1>9
<1> QED  BY <1>2, <1>4, <1>9, <1>11, <1>12, <1>13, <1>14, <1>15, <1>16, <1>17, <1>18, CallStep
-----------------------------------------------------------------------------
(* The steps of a task, which run before the shutdown recovers the jobs.   *)
LEMMA WorkAt ==
  ASSUME ComparisonInv, NEW c \in Comparisons, task[c] \in Working
  PROVE  /\ phase \notin {"recovered", "closed"}
         /\ req[c].pc = "ended" /\ row[c] \in Status /\ row[c] # "none" /\ c \in pinned
         /\ task[c] \in {"compare", "write", "commit"} => row[c] = "RUNNING"
         /\ task[c] = "commit" \/ row[c] = "SUCCEEDED" => c \in artifact
         /\ row[c] = "QUEUED" => task[c] = "start" \/ bounds.faults > 0
         /\ row[c] = "RUNNING" => task[c] # "start" \/ bounds.faults > 0
<1>1. phase \notin {"recovered", "closed"}
  BY DEF ComparisonInv, Quiet, Busy
<1>2. /\ RequestSound(c, req[c], row[c], task[c], c \in pinned)
      /\ TaskSound(req[c], row[c], task[c], c \in artifact)
      /\ Carried(req[c], row[c], task[c], bounds.faults, phase)
      /\ row[c] \in Status \cup {"none"}
  BY InvAt
<1>3. req[c].pc = "ended" /\ row[c] # "none" /\ c \in pinned
  BY <1>2 DEF RequestSound, TaskSound, Due, Working
<1>4. /\ row[c] = "QUEUED" => task[c] = "start" \/ bounds.faults > 0
      /\ row[c] = "RUNNING" => task[c] # "start" \/ bounds.faults > 0
  BY <1>1, <1>2, <1>3 DEF Carried, Working
<1> QED  BY <1>1, <1>2, <1>3, <1>4 DEF TaskSound

LEMMA TaskMoves ==
  ASSUME ComparisonsAssumption, ComparisonInv, NEW c \in Comparisons,
         task[c] \in Working, NEW t \in Working, task' = [task EXCEPT ![c] = t],
         NEW s \in Status, row' = [row EXCEPT ![c] = s], artifact' \in {artifact, artifact \cup {c}},
         UNCHANGED <<storageVars, req, pinned, waiting, phase, aborting>>,
         Fault \/ Works \/ UNCHANGED bounds,
         t \in {"compare", "write", "commit"} => s = "RUNNING",
         t = "commit" \/ s = "SUCCEEDED" => c \in artifact',
         s = "QUEUED" => t = "start" \/ bounds'.faults > 0,
         s = "RUNNING" => t # "start" \/ bounds'.faults > 0
  PROVE  ComparisonInv'
<1>1. /\ req \in Rows /\ req[c] \in Row /\ row \in Statuses
      /\ DirectoriesSound(req[c], row[c], project)
      /\ RequestSound(c, req[c], row[c], task[c], c \in pinned)
      /\ req[c].pc = "ended" /\ row[c] # "none" /\ c \in pinned
  BY InvAt, WorkAt
<1>2. req' = [req EXCEPT ![c] = req[c]] /\ req[c].held = req[c].held
  BY <1>1 DEF Rows
<1>3. /\ row' \in Statuses /\ row'[c] = s /\ \A d \in Comparisons \ {c} : row'[d] = row[d]
      /\ s # "none"
  BY <1>1 DEF Statuses, Status
<1>4. t \in Tasks /\ Queued(c, t, waiting)
  BY DEF Tasks, Queued, Working
<1>5. Sound(c, req[c], row'[c], t, c \in pinned, c \in artifact', bounds'.faults, phase)
  <2>1. RequestSound(c, req[c], s, t, c \in pinned)
    BY <1>1, <1>3 DEF RequestSound, Due
  <2>2. TaskSound(req[c], s, t, c \in artifact') /\ Carried(req[c], s, t, bounds'.faults, phase)
    BY <1>1, <1>3 DEF TaskSound, Carried
  <2> QED  BY <1>3, <2>1, <2>2 DEF Sound
<1>6. DirectoriesSound(req[c], row'[c], project)
  BY <1>1, <1>3 DEF DirectoriesSound
<1> QED  BY <1>1, <1>2, <1>3, <1>4, <1>5, <1>6, PlainStep

LEMMA TaskEndsKeeps ==
  ASSUME ComparisonsAssumption, ComparisonInv, NEW c \in Comparisons,
         task[c] \in Working, TaskEnds(c),
         NEW s \in Status, row' = [row EXCEPT ![c] = s],
         UNCHANGED <<storage, req, artifact, phase, aborting>>,
         Fault \/ Works \/ UNCHANGED bounds,
         s = "SUCCEEDED" => c \in artifact,
         s \in {"QUEUED", "RUNNING"} => bounds'.faults > 0
  PROVE  ComparisonInv'
<1>1. /\ req \in Rows /\ req[c] \in Row /\ row \in Statuses
      /\ DirectoriesSound(req[c], row[c], project)
      /\ RequestSound(c, req[c], row[c], task[c], c \in pinned)
      /\ req[c].pc = "ended" /\ row[c] # "none" /\ c \in pinned
  BY InvAt, WorkAt
<1>2. req' = [req EXCEPT ![c] = req[c]] /\ req[c].held \subseteq req[c].held
  BY <1>1 DEF Rows
<1>3. /\ row' \in Statuses /\ row'[c] = s /\ \A d \in Comparisons \ {c} : row'[d] = row[d]
      /\ s # "none"
  BY <1>1 DEF Statuses, Status
<1>4. "ended" \in Tasks /\ Queued(c, "ended", waiting)
  BY DEF Tasks, Queued, Working
<1>5. /\ project' = Released(c) /\ pinned' = pinned \ {c}
      /\ Drain([task EXCEPT ![c] = "ended"], waiting)
  BY DEF TaskEnds
<1>6. Sound(c, req[c], row'[c], "ended", c \in pinned', c \in artifact, bounds'.faults, phase)
  <2>1. c \notin pinned'
    BY <1>5
  <2>2. RequestSound(c, req[c], s, "ended", c \in pinned')
    BY <1>1, <1>3, <2>1 DEF RequestSound, Due, Working
  <2>3. TaskSound(req[c], s, "ended", c \in artifact) /\ Carried(req[c], s, "ended", bounds'.faults, phase)
    BY <1>1, <1>3 DEF TaskSound, Carried
  <2> QED  BY <1>3, <2>2, <2>3 DEF Sound
<1>7. DirectoriesSound(req[c], row'[c], project)
  BY <1>1, <1>3 DEF DirectoriesSound
<1>8. project' \in Places /\ \A p \in Projects :
        /\ project'[p].state = project[p].state
        /\ project'[p].pins + One(c \in pinned /\ p \in Uses(c)) = project[p].pins
  BY <1>5, ReleasedFacts
<1>9. ASSUME NEW p \in Projects
      PROVE  project'[p].pins + Mine(c, req[c], c \in pinned, p)
               = project[p].pins + Mine(c, req[c], c \in pinned', p)
  <2>1. /\ Mine(c, req[c], c \in pinned', p) = One(p \in req[c].held)
        /\ One(p \in req[c].held) \in Nat /\ One(c \in pinned /\ p \in Uses(c)) \in Nat
        /\ Mine(c, req[c], c \in pinned, p) = One(p \in req[c].held) + One(c \in pinned /\ p \in Uses(c))
    BY <1>5 DEF Mine, One
  <2>2. project'[p].pins \in Nat /\ project[p].pins \in Nat
    BY <1>8, Pins DEF Places
  <2>3. project'[p].pins + One(c \in pinned /\ p \in Uses(c)) = project[p].pins
    BY <1>8
  <2>4. \A n, m, a, b \in Nat : m + b = n => m + (a + b) = n + a
    OBVIOUS
  <2> QED  BY <2>1, <2>2, <2>3, <2>4
<1>10. pinned' \in {pinned, pinned \ {c}}
  BY <1>5
<1> QED  BY <1>1, <1>2, <1>3, <1>4, <1>5, <1>6, <1>7, <1>8, <1>9, <1>10, ReleaseStep

LEMMA SameRow ==
  ASSUME ComparisonInv, NEW c \in Comparisons, UNCHANGED row
  PROVE  row' = [row EXCEPT ![c] = row[c]]
BY InvAt DEF Statuses

LEMMA MarkRunningKeeps ==
  ASSUME ComparisonsAssumption, ComparisonInv, NEW c \in Comparisons, MarkRunning(c)
  PROVE  ComparisonInv'
<1>1. task[c] = "start" /\ task[c] \in Working /\ UNCHANGED <<storage, req, artifact, phase, aborting>>
  BY DEF MarkRunning, Working
<1>2. CASE /\ Works /\ row' = [row EXCEPT ![c] = "RUNNING"]
           /\ task' = [task EXCEPT ![c] = "compare"] /\ UNCHANGED <<waiting, project, pinned>>
  <2>1. "compare" \in Working /\ "RUNNING" \in Status /\ UNCHANGED storageVars
    BY <1>1, <1>2 DEF Working, Status, storageVars
  <2> QED  BY <1>1, <1>2, <2>1, TaskMoves
<1>3. CASE (Fault \/ (row[c] # "QUEUED" /\ UNCHANGED bounds)) /\ TaskEnds(c) /\ UNCHANGED row
  <2>1. row[c] \in Status /\ (row[c] = "SUCCEEDED" => c \in artifact)
    BY <1>1, WorkAt
  <2>2. row[c] \in {"QUEUED", "RUNNING"} => bounds'.faults > 0
    BY <1>1, <1>3, WorkAt, BoundsStep
  <2> QED  BY <1>1, <1>3, <2>1, <2>2, SameRow, TaskEndsKeeps
<1>4. CASE Fault /\ phase # "closed" /\ TaskEnds(c) /\ row' = [row EXCEPT ![c] = "RUNNING"]
  <2>1. bounds'.faults > 0
    BY <1>4, BoundsStep DEF Fault
  <2>2. PICK s \in Status : s = "RUNNING"
    BY DEF Status
  <2>3. row' = [row EXCEPT ![c] = s] /\ s # "SUCCEEDED"
    BY <1>4, <2>2
  <2>4. TaskEnds(c) /\ Fault
    BY <1>4
  <2> QED  BY <1>1, <2>1, <2>3, <2>4, TaskEndsKeeps
<1> QED  BY <1>2, <1>3, <1>4 DEF MarkRunning

LEMMA CompareKeeps ==
  ASSUME ComparisonsAssumption, ComparisonInv, NEW c \in Comparisons, Compare(c)
  PROVE  ComparisonInv'
<1>1. task[c] = "compare" /\ task[c] \in Working
      /\ UNCHANGED <<storageVars, req, row, artifact, pinned, waiting, phase, aborting>>
  BY DEF Compare, Step, Working
<1>2. row[c] = "RUNNING" /\ row[c] \in Status
  BY <1>1, WorkAt
<1>3. PICK t \in {"write", "fail"} : task' = [task EXCEPT ![c] = t] /\ (Fault \/ UNCHANGED bounds)
  BY DEF Compare, Step
<1>4. t \in Working /\ t # "start" /\ t # "commit" /\ "RUNNING" # "QUEUED" /\ "RUNNING" # "SUCCEEDED"
  BY DEF Working
<1> QED  BY <1>1, <1>2, <1>3, <1>4, SameRow, TaskMoves

LEMMA WriteArtifactKeeps ==
  ASSUME ComparisonsAssumption, ComparisonInv, NEW c \in Comparisons, WriteArtifact(c)
  PROVE  ComparisonInv'
<1>1. task[c] = "write" /\ task[c] \in Working
      /\ UNCHANGED <<storageVars, req, row, pinned, waiting, phase, aborting>>
  BY DEF WriteArtifact, Step, Working
<1>2. row[c] = "RUNNING" /\ row[c] \in Status
  BY <1>1, WorkAt
<1>3. PICK t \in {"commit", "fail"} :
        /\ task' = [task EXCEPT ![c] = t] /\ (Fault \/ UNCHANGED bounds)
        /\ artifact' \in {artifact, artifact \cup {c}} /\ (t = "commit" => c \in artifact')
  BY DEF WriteArtifact, Step
<1>4. t \in Working /\ t # "start" /\ "RUNNING" # "QUEUED" /\ "RUNNING" # "SUCCEEDED"
  BY DEF Working
<1> QED  BY <1>1, <1>2, <1>3, <1>4, SameRow, TaskMoves

LEMMA CommitKeeps ==
  ASSUME ComparisonsAssumption, ComparisonInv, NEW c \in Comparisons, Commit(c)
  PROVE  ComparisonInv'
<1>1. task[c] = "commit" /\ task[c] \in Working /\ UNCHANGED <<storage, req, artifact, phase, aborting>>
  BY DEF Commit, Working
<1>2. row[c] = "RUNNING" /\ row[c] \in Status /\ c \in artifact
  BY <1>1, WorkAt
<1>3. "SUCCEEDED" \in Status /\ "fail" \in Working
  BY DEF Status, Working
<1>4. CASE Works /\ row' = [row EXCEPT ![c] = "SUCCEEDED"] /\ TaskEnds(c)
  BY <1>1, <1>2, <1>3, <1>4, TaskEndsKeeps
<1>5. CASE /\ Fault /\ row' = [row EXCEPT ![c] = "SUCCEEDED"]
           /\ Step(c, "commit", "fail") /\ UNCHANGED <<project, pinned, waiting>>
  <2>1. task' = [task EXCEPT ![c] = "fail"] /\ UNCHANGED storageVars /\ artifact' = artifact
    BY <1>1, <1>5 DEF Step, storageVars
  <2> QED  BY <1>1, <1>2, <1>3, <1>5, <2>1, TaskMoves
<1>6. CASE /\ Fault \/ (row[c] # "RUNNING" /\ UNCHANGED bounds)
           /\ Step(c, "commit", "fail") /\ UNCHANGED <<row, project, pinned, waiting>>
  <2>1. task' = [task EXCEPT ![c] = "fail"] /\ UNCHANGED storageVars /\ artifact' = artifact
    BY <1>1, <1>6 DEF Step, storageVars
  <2>2. Fault /\ UNCHANGED <<row, pinned, waiting>>
    BY <1>2, <1>6
  <2>3. row' = [row EXCEPT ![c] = "RUNNING"]
    BY <1>2, <2>2, SameRow
  <2>4. "RUNNING" \in Status
    BY DEF Status
  <2> QED  BY <1>1, <1>3, <2>1, <2>2, <2>3, <2>4, TaskMoves
<1> QED  BY <1>4, <1>5, <1>6 DEF Commit

LEMMA MarkFailedKeeps ==
  ASSUME ComparisonsAssumption, ComparisonInv, NEW c \in Comparisons, MarkFailed(c)
  PROVE  ComparisonInv'
<1>1. /\ task[c] = "fail" /\ task[c] \in Working /\ TaskEnds(c)
      /\ UNCHANGED <<storage, req, artifact, phase, aborting>>
  BY DEF MarkFailed, Working
<1>2. row[c] \in Status /\ (row[c] = "SUCCEEDED" => c \in artifact)
  BY <1>1, WorkAt
<1>3. CASE Works /\ row' = MarkedFailed(c)
  <2>1. PICK s \in Status : row' = [row EXCEPT ![c] = s] /\ s \in {"FAILED", row[c]} \ {"QUEUED", "RUNNING"}
    <3>1. row = [row EXCEPT ![c] = row[c]]
      BY InvAt DEF Statuses
    <3> QED  BY <1>2, <1>3, <3>1 DEF MarkedFailed, Status
  <2>2. (s = "SUCCEEDED" => c \in artifact) /\ s \notin {"QUEUED", "RUNNING"}
    BY <1>2, <2>1
  <2> QED  BY <1>1, <1>3, <2>1, <2>2, TaskEndsKeeps
<1>4. CASE Fault /\ UNCHANGED row
  <2>1. bounds'.faults > 0
    BY <1>1, <1>4, WorkAt, BoundsStep
  <2> QED  BY <1>1, <1>2, <1>4, <2>1, SameRow, TaskEndsKeeps
<1> QED  BY <1>3, <1>4 DEF MarkFailed
-----------------------------------------------------------------------------
(* The steps of the storage and of the server.                             *)
LEMMA RemoveSourceKeeps ==
  ASSUME ComparisonsAssumption, ComparisonInv, NEW p \in Projects, RemoveSource(p)
  PROVE  ComparisonInv'
<1> DEFINE y == [project[p] EXCEPT !.state = "gone", !.timer = FALSE]
<1>1. /\ UNCHANGED <<storage, req, row, artifact, task, pinned, waiting, phase, aborting, bounds>>
      /\ project[p].state \in {"pending", "ready", "undeleted"} /\ project[p].pins = 0
  BY DEF RemoveSource, Discardable
<1>2. project \in Places /\ project[p] \in [state : Directory, pins : Nat, timer : BOOLEAN]
  BY Types DEF ComparisonInv, Places
<1>3. /\ y \in [state : Directory, pins : Nat, timer : BOOLEAN] /\ y.state = "gone" /\ y.pins = 0
      /\ project' = [project EXCEPT ![p] = y]
  BY <1>1, <1>2 DEF RemoveSource, Places, Directory
<1> HIDE DEF y
<1>4. /\ project' \in Places /\ project'[p] = y
      /\ \A r \in Projects \ {p} : project'[r] = project[r]
  BY <1>2, <1>3 DEF Places
<1>5. \A r \in Projects : project'[r].pins = project[r].pins
  BY <1>1, <1>3, <1>4
<1>6. \A r \in Projects : project'[r].pins > 0 => project'[r].state = "ready"
  BY <1>3, <1>4, <1>5 DEF ComparisonInv
<1>7. Counted(project', req', pinned')
  BY <1>1, <1>5 DEF ComparisonInv, Counted, Holders, Users
<1>8. ASSUME NEW c \in Comparisons
      PROVE  DirectoriesSound(req[c], row[c], project')
  <2>1. DirectoriesSound(req[c], row[c], project) /\ req[c].prepared \subseteq Projects
    BY InvAt DEF RequestSound, Own, ComparisonsAssumption
  <2>2. \A r \in req[c].prepared : \/ project'[r].state = project[r].state
                                   \/ project'[r].state = "gone" /\ project[r].state # "deleting"
    BY <1>1, <1>3, <1>4, <2>1
  <2> QED  BY <2>1, <2>2 DEF DirectoriesSound, Left
<1>9. TypeOK'
  BY <1>1, <1>4 DEF ComparisonInv, TypeOK, StorageTypeOK, Places
<1> QED  BY <1>1, <1>6, <1>7, <1>8, <1>9 DEF ComparisonInv

(* Where only the phase moves on, and not from "closed", all is kept.      *)
LEMMA PhaseKeeps ==
  ASSUME ComparisonInv, UNCHANGED <<storageVars, req, row, artifact, task, pinned, waiting, bounds>>,
         aborting' \in BOOLEAN, phase' \in {"stopping", phase}, phase # "closed" \/ phase' = phase
  PROVE  ComparisonInv'
<1>1. /\ project' = project /\ storage' = storage
      /\ UNCHANGED <<req, row, artifact, task, pinned, waiting, bounds>>
  BY DEF storageVars
<1>2. TypeOK'
  BY <1>1 DEF ComparisonInv, TypeOK, StorageTypeOK
<1>3. ASSUME NEW c \in Comparisons
      PROVE  Sound(c, req[c], row[c], task[c], c \in pinned, c \in artifact, bounds.faults, phase')
  BY InvAt DEF Sound, Carried
<1>4. Quiet(task, waiting, phase')
  BY DEF ComparisonInv, Quiet
<1>5. Counted(project', req', pinned')
  BY <1>1 DEF ComparisonInv
<1> QED  BY <1>1, <1>2, <1>3, <1>4, <1>5 DEF ComparisonInv

(* What recovery makes of the rows while no task runs.                     *)
LEMMA RecoveredRows ==
  ASSUME ComparisonInv, RecoverInterrupted
  PROVE  /\ row' \in Statuses
         /\ \A c \in Comparisons : /\ row'[c] \notin {"QUEUED", "RUNNING"}
                                   /\ row'[c] = "none" <=> row[c] = "none"
                                   /\ row'[c] = "SUCCEEDED" <=> row[c] = "SUCCEEDED"
                                   /\ row[c] \in {"SUCCEEDED", "FAILED"} => row'[c] = row[c]
<1>1. row \in Statuses /\ \A c \in Comparisons : row[c] \in Status \cup {"none"}
  BY Types DEF ComparisonInv, Statuses
<1> QED  BY <1>1 DEF RecoverInterrupted, Statuses, Status

LEMMA RecoverKeeps ==
  ASSUME ComparisonInv, Recover
  PROVE  ComparisonInv'
<1>1. /\ project' = project /\ storage' = storage /\ phase' = "recovered"
      /\ UNCHANGED <<req, artifact, task, pinned, waiting, aborting, bounds>>
      /\ Busy(task) = {} /\ waiting = <<>> /\ RecoverInterrupted
  BY DEF Recover, storageVars, Idle, Lanes, Busy
<1>2. TypeOK'
  BY <1>1, RecoveredRows DEF ComparisonInv, TypeOK, StorageTypeOK, Statuses
<1>3. ASSUME NEW c \in Comparisons
      PROVE  /\ Sound(c, req[c], row'[c], task[c], c \in pinned, c \in artifact, bounds.faults, "recovered")
             /\ DirectoriesSound(req[c], row'[c], project)
  <2>1. /\ RequestSound(c, req[c], row[c], task[c], c \in pinned)
        /\ TaskSound(req[c], row[c], task[c], c \in artifact)
        /\ DirectoriesSound(req[c], row[c], project)
    BY InvAt
  <2>2. task[c] \notin Working
    BY <1>1 DEF Busy
  <2>3. /\ row'[c] \notin {"QUEUED", "RUNNING"} /\ (row'[c] = "none" <=> row[c] = "none")
        /\ (row'[c] = "SUCCEEDED" <=> row[c] = "SUCCEEDED")
    BY <1>1, RecoveredRows
  <2>4. RequestSound(c, req[c], row'[c], task[c], c \in pinned)
    BY <2>1, <2>3 DEF RequestSound
  <2>5. /\ TaskSound(req[c], row'[c], task[c], c \in artifact)
        /\ Carried(req[c], row'[c], task[c], bounds.faults, "recovered")
    BY <2>1, <2>2, <2>3 DEF TaskSound, Carried, Working
  <2>6. DirectoriesSound(req[c], row'[c], project)
    BY <2>1, <2>3 DEF DirectoriesSound
  <2> QED  BY <2>4, <2>5, <2>6 DEF Sound
<1>4. Quiet(task', waiting', phase') /\ Counted(project', req', pinned')
  BY <1>1 DEF Quiet, ComparisonInv
<1> QED  BY <1>1, <1>2, <1>3, <1>4 DEF ComparisonInv

LEMMA CloseKeeps ==
  ASSUME ComparisonsAssumption, ComparisonInv, Close
  PROVE  ComparisonInv'
<1>1. /\ phase = "recovered" /\ UNCHANGED <<req, row, artifact, task, pinned, waiting, aborting, bounds>>
  BY DEF Close
<1>2. CASE phase' = "stopping" /\ UNCHANGED storageVars
  <2>1. aborting' \in BOOLEAN
    BY <1>1, Types DEF ComparisonInv
  <2> QED  BY <1>1, <1>2, <2>1, PhaseKeeps
<1>3. CASE CloseStorage /\ phase' = "closed"
  <2>1. /\ \A p \in Projects : project[p].pins = 0
        /\ storage' = "closed"
        /\ project' = [p \in Projects |-> [state |-> IF project[p].state = "none" THEN "none" ELSE "gone",
                                           pins |-> 0, timer |-> FALSE]]
    BY <1>3 DEF CloseStorage
  <2>2. /\ project' \in Places
        /\ \A p \in Projects : /\ project'[p].pins = 0
                               /\ project'[p].state = IF project[p].state = "none" THEN "none" ELSE "gone"
    BY <2>1 DEF Places, Directory
  <2>3. TypeOK'
    BY <1>1, <1>3, <2>1, <2>2 DEF ComparisonInv, TypeOK, StorageTypeOK, Places
  <2>4. Counted(project', req', pinned')
    BY <1>1, <2>1, <2>2 DEF ComparisonInv, Counted
  <2>5. ASSUME NEW c \in Comparisons
        PROVE  /\ Sound(c, req[c], row[c], task[c], c \in pinned, c \in artifact, bounds.faults, "closed")
               /\ DirectoriesSound(req[c], row[c], project')
    <3>1. Sound(c, req[c], row[c], task[c], c \in pinned, c \in artifact, bounds.faults, "closed")
      BY <1>1, InvAt DEF Sound, Carried
    <3>2. DirectoriesSound(req[c], row[c], project) /\ req[c].prepared \subseteq Projects
      BY InvAt DEF RequestSound, Own, ComparisonsAssumption
    <3>3. \A p \in req[c].prepared : project'[p].state = "gone"
      BY <2>2, <3>2 DEF DirectoriesSound, Left
    <3>4. DirectoriesSound(req[c], row[c], project')
      BY <3>3 DEF DirectoriesSound, Left
    <3> QED  BY <3>1, <3>4
  <2>6. Quiet(task', waiting', phase')
    BY <1>1 DEF ComparisonInv, Quiet
  <2>7. \A p \in Projects : project'[p].pins > 0 => project'[p].state = "ready"
    BY <2>2
  <2> QED  BY <1>1, <1>3, <2>3, <2>4, <2>5, <2>6, <2>7 DEF ComparisonInv
<1> QED  BY <1>2, <1>3 DEF Close

(* Nobody holds a pin: nothing is counted.                                 *)
LEMMA NothingCounted ==
  ASSUME NEW store, NEW f, \A p \in Projects : store[p].pins = 0, \A c \in Comparisons : f[c].held = {}
  PROVE  Counted(store, f, {})
<1>1. \A p : Holders(f, p) = {} /\ Users({}, p) = {}
  BY DEF Holders, Users
<1> QED  BY <1>1, FS_EmptySet DEF Counted

LEMMA RestartKeeps ==
  ASSUME ComparisonsAssumption, ComparisonInv, Restart
  PROVE  ComparisonInv'
<1>1. /\ bounds.restarts < MaxRestarts /\ bounds' = [bounds EXCEPT !.restarts = @ + 1]
      /\ RecoverInterrupted
      /\ project' = [p \in Projects |-> IF p \in Registered /\ project[p].state = "none"
                                        THEN project[p] ELSE [state |-> "gone", pins |-> 0, timer |-> FALSE]]
      /\ storage' = "open" /\ phase' = "open" /\ aborting' = FALSE
      /\ req' = [c \in Comparisons |-> [Fresh EXCEPT !.pc = IF req[c].pc = "new" THEN "new" ELSE "ended"]]
      /\ task' = [c \in Comparisons |-> IF task[c] = "none" THEN "none" ELSE "ended"]
      /\ pinned' = {} /\ waiting' = <<>> /\ artifact' = artifact
  BY DEF Restart
<1>2. /\ project \in Places /\ bounds \in Bounds /\ artifact \subseteq Comparisons
      /\ bounds.faults \in Nat /\ bounds.restarts \in Nat
  BY Types DEF ComparisonInv, Bounds, ComparisonsAssumption
<1>3. bounds' \in Bounds /\ bounds'.faults = bounds.faults
  BY <1>1, <1>2 DEF Bounds, ComparisonsAssumption
<1>4. ASSUME NEW p \in Projects
      PROVE  /\ project'[p] \in [state : Directory, pins : Nat, timer : BOOLEAN]
             /\ project'[p].pins = 0
  <2>1. /\ project[p] \in [state : Directory, pins : Nat, timer : BOOLEAN]
        /\ project[p].pins > 0 => project[p].state = "ready"
    BY <1>2 DEF Places, ComparisonInv
  <2>2. CASE p \in Registered /\ project[p].state = "none"
    <3>1. project'[p] = project[p]
      BY <1>1, <2>2
    <3>2. project[p].pins = 0
      BY <2>1, <2>2
    <3> QED  BY <2>1, <3>1, <3>2
  <2>3. CASE ~(p \in Registered /\ project[p].state = "none")
    BY <1>1, <2>3 DEF Directory
  <2> QED  BY <2>2, <2>3
<1>5. project' \in Places
  BY <1>1, <1>4 DEF Places
<1>6. ASSUME NEW c \in Comparisons
      PROVE  /\ req'[c] \in Row /\ req'[c].prepared = {} /\ req'[c].held = {} /\ ~req'[c].reserved
             /\ req'[c].pc = IF req[c].pc = "new" THEN "new" ELSE "ended"
             /\ req'[c].pc = "new" => req'[c] = Fresh
  <2> DEFINE pc == IF req[c].pc = "new" THEN "new" ELSE "ended"
  <2>1. req'[c] = [Fresh EXCEPT !.pc = pc]
    BY <1>1
  <2>2. pc \in Steps
    BY DEF Steps
  <2> HIDE DEF pc
  <2>3. /\ req'[c] \in Row /\ req'[c].prepared = {} /\ req'[c].held = {} /\ ~req'[c].reserved
        /\ req'[c].pc = pc
        /\ pc = "new" => req'[c] = Fresh
    BY <2>1, <2>2 DEF Fresh, Row
  <2> QED  BY <2>3 DEF pc
<1>7. req' \in Rows
  BY <1>1, <1>6 DEF Rows
<1>8. task' \in AllTasks /\ \A c \in Comparisons : task'[c] = IF task[c] = "none" THEN "none" ELSE "ended"
  BY <1>1 DEF AllTasks, Tasks
<1>9. TypeOK'
  <2>1. waiting' \in Seq(Comparisons)
    BY <1>1
  <2>2. row' \in Statuses
    BY <1>1, RecoveredRows
  <2> QED  BY <1>1, <1>2, <1>3, <1>5, <1>7, <1>8, <2>1, <2>2
         DEF TypeOK, StorageTypeOK, Places, Rows, Row, Statuses, AllTasks, Tasks, Bounds
<1>10. ASSUME NEW c \in Comparisons
       PROVE  /\ Sound(c, req'[c], row'[c], task'[c], c \in pinned', c \in artifact', bounds'.faults, phase')
              /\ DirectoriesSound(req'[c], row'[c], project')
  <2>1. /\ RequestSound(c, req[c], row[c], task[c], c \in pinned)
        /\ TaskSound(req[c], row[c], task[c], c \in artifact)
    BY InvAt
  <2>2. /\ row'[c] \notin {"QUEUED", "RUNNING"} /\ (row'[c] = "none" <=> row[c] = "none")
        /\ (row'[c] = "SUCCEEDED" <=> row[c] = "SUCCEEDED")
    BY <1>1, RecoveredRows
  <2>3. c \notin pinned' /\ (c \in artifact' <=> c \in artifact)
    BY <1>1
  <2>4. RequestSound(c, req'[c], row'[c], task'[c], c \in pinned')
    BY <1>6, <1>8, <2>1, <2>2, <2>3 DEF RequestSound, Due, Working
  <2>5. TaskSound(req'[c], row'[c], task'[c], c \in artifact')
    BY <1>6, <1>8, <2>1, <2>2, <2>3 DEF TaskSound
  <2>6. Carried(req'[c], row'[c], task'[c], bounds'.faults, phase')
    BY <2>2 DEF Carried
  <2>7. DirectoriesSound(req'[c], row'[c], project')
    BY <1>6 DEF DirectoriesSound
  <2> QED  BY <2>4, <2>5, <2>6, <2>7 DEF Sound
<1>11. IsFiniteSet(Begun(req'))
  <2>1. Begun(req') \subseteq Begun(req)
    BY <1>6 DEF Begun
  <2> QED  BY <2>1, FS_Subset DEF ComparisonInv
<1>12. Counted(project', req', pinned')
  <2>1. \A p \in Projects : project'[p].pins = 0
    BY <1>4
  <2>2. \A c \in Comparisons : req'[c].held = {}
    BY <1>6
  <2>3. Counted(project', req', {})
    BY <2>1, <2>2, NothingCounted
  <2> QED  BY <1>1, <2>3
<1>13. QueueSound(task', waiting') /\ Quiet(task', waiting', phase')
  BY <1>1 DEF QueueSound, Quiet
<1>14. LanesSound(task')
  <2>1. Busy(task') = {}
    BY <1>8 DEF Busy, Working
  <2> QED  BY <2>1, FS_EmptySet DEF LanesSound, ComparisonsAssumption
<1>15. \A p \in Projects : project'[p].pins > 0 => project'[p].state = "ready"
  BY <1>4
<1> QED  BY <1>9, <1>10, <1>11, <1>12, <1>13, <1>14, <1>15 DEF ComparisonInv

-----------------------------------------------------------------------------
LEMMA InvInit ==
  ASSUME ComparisonsAssumption, Init
  PROVE  ComparisonInv
<1>1. /\ \A c \in Comparisons : req[c] = Fresh /\ row[c] = "none" /\ task[c] = "none"
      /\ artifact = {} /\ pinned = {} /\ waiting = <<>> /\ phase = "open"
      /\ bounds.faults = 0
      /\ \A p \in Projects : project[p].pins = 0
  BY DEF Init
<1>2. TypeOK
  <2>1. Fresh \in Row
    BY DEF Fresh, Row, Steps
  <2>2. req \in [Comparisons -> Row]
    BY <2>1 DEF Init
  <2>3. project \in Places /\ storage \in {"open", "closed"}
    BY DEF Init, Places, Directory
  <2>4. bounds \in Bounds
    BY DEF Init, Bounds, ComparisonsAssumption
  <2>5. row \in Statuses /\ task \in AllTasks
    BY DEF Init, Statuses, AllTasks, Tasks
  <2>6. waiting \in Seq(Comparisons) /\ aborting \in BOOLEAN
    <3>1. <<>> \in Seq(Comparisons)
      OBVIOUS
    <3>2. waiting = <<>> /\ aborting = FALSE
      BY DEF Init
    <3> QED  BY <3>1, <3>2
  <2> QED  BY <1>1, <2>2, <2>3, <2>4, <2>5, <2>6, Types DEF Rows
<1>3. ASSUME NEW c \in Comparisons
      PROVE  /\ Sound(c, req[c], row[c], task[c], c \in pinned, c \in artifact, bounds.faults, phase)
             /\ DirectoriesSound(req[c], row[c], project)
  <2>1. req[c].pc = "new" /\ req[c].prepared = {} /\ req[c].held = {} /\ req[c] = Fresh
    BY <1>1 DEF Fresh
  <2>2. RequestSound(c, req[c], row[c], task[c], c \in pinned)
    BY <1>1, <2>1 DEF RequestSound, Due, Working
  <2>3. /\ TaskSound(req[c], row[c], task[c], c \in artifact)
        /\ Carried(req[c], row[c], task[c], bounds.faults, phase)
        /\ DirectoriesSound(req[c], row[c], project)
    BY <1>1, <2>1 DEF TaskSound, Carried, DirectoriesSound
  <2> QED  BY <2>2, <2>3 DEF Sound
<1>4. Begun(req) = {} /\ Busy(task) = {} /\ \A c \in Comparisons : req[c].held = {}
  BY <1>1 DEF Begun, Busy, Fresh, Working
<1>5. IsFiniteSet(Begun(req)) /\ LanesSound(task)
  BY <1>4, FS_EmptySet DEF LanesSound, ComparisonsAssumption
<1>6. Counted(project, req, pinned)
  BY <1>1, <1>4, NothingCounted
<1>7. QueueSound(task, waiting) /\ Quiet(task, waiting, phase)
  BY <1>1 DEF QueueSound, Quiet
<1>8. \A p \in Projects : project[p].pins > 0 => project[p].state = "ready"
  BY <1>1
<1> QED  BY <1>2, <1>3, <1>5, <1>6, <1>7, <1>8 DEF ComparisonInv

LEMMA InvNext ==
  ASSUME ComparisonsAssumption, ComparisonInv, [Next]_vars
  PROVE  ComparisonInv'
<1>1. ASSUME NEW c \in Comparisons, Reserve(c) \/ Request(c)
      PROVE  ComparisonInv'
  BY <1>1, ReserveKeeps, PrepareKeeps, PrepareFailsKeeps, PinPreparedKeeps, ResolveKeeps, FailsKeeps,
     InsertKeeps, EnqueueKeeps, RejectKeeps, DiscardKeeps, RemovedKeeps DEF Request
<1>2. ASSUME NEW c \in Comparisons, Execute(c)
      PROVE  ComparisonInv'
  BY <1>2, MarkRunningKeeps, CompareKeeps, WriteArtifactKeeps, CommitKeeps, MarkFailedKeeps DEF Execute
<1>3. CASE Stop \/ Abort
  <2>1. /\ UNCHANGED <<storageVars, req, row, artifact, task, pinned, waiting, bounds>>
        /\ aborting' \in {aborting, TRUE} /\ phase' \in {"stopping", phase} /\ phase # "closed"
    BY <1>3 DEF Stop, Abort
  <2>2. aborting' \in BOOLEAN
    BY <2>1, Types DEF ComparisonInv
  <2> QED  BY <2>1, <2>2, PhaseKeeps
<1>4. CASE UNCHANGED vars
  <2>1. /\ UNCHANGED <<storageVars, req, row, artifact, task, pinned, waiting, bounds>>
        /\ aborting' = aborting /\ phase' = phase
    BY <1>4 DEF vars
  <2>2. aborting' \in BOOLEAN
    BY <2>1, Types DEF ComparisonInv
  <2> QED  BY <2>1, <2>2, PhaseKeeps
<1> QED  BY <1>1, <1>2, <1>3, <1>4, RemoveSourceKeeps, RecoverKeeps, CloseKeeps, RestartKeeps DEF Next

LEMMA Invariance ==
  ASSUME ComparisonsAssumption
  PROVE  Spec => []ComparisonInv
<1>1. Init => ComparisonInv
  BY InvInit
<1>2. ComparisonInv /\ [Next]_vars => ComparisonInv'
  BY InvNext
<1> QED  BY <1>1, <1>2, PTL DEF Spec
-----------------------------------------------------------------------------
(* What the invariant says in the words of the properties.                 *)
LEMMA SourcesHere ==
  ASSUME ComparisonsAssumption, ComparisonInv
  PROVE  SourcesArePresent
<1> SUFFICES ASSUME NEW c \in Comparisons,
                    At(c, "create") \/ At(c, "readback") \/ task[c] \in Working \cup {"waiting"},
                    NEW p \in Uses(c)
             PROVE  project[p].state = "ready"
  BY DEF SourcesArePresent
<1>1. c \in pinned
  BY InvAt DEF RequestSound, At, Due
<1> QED  BY <1>1, PinnedReady DEF ComparisonsAssumption

LEMMA PinsHeld ==
  ASSUME ComparisonInv
  PROVE  PinsAreHeld
BY DEF ComparisonInv, Counted, Holders, Users, PinsAreHeld

LEMMA NothingLeft ==
  ASSUME ComparisonInv
  PROVE  NothingIsLeft
<1> SUFFICES ASSUME NEW c \in Comparisons, req[c].pc = "ended"
             PROVE  /\ ~req[c].reserved /\ req[c].held = {}
                    /\ c \in pinned => task[c] \in Working \cup {"waiting"}
                    /\ row[c] = "none" => \A p \in req[c].prepared : project[p].state \in Left
  BY DEF NothingIsLeft, At, Left
<1>1. RequestSound(c, req[c], row[c], task[c], c \in pinned) /\ DirectoriesSound(req[c], row[c], project)
  BY InvAt
<1>2. ~req[c].reserved /\ req[c].held = {} /\ (c \in pinned => task[c] \in Working \cup {"waiting"})
  BY <1>1 DEF RequestSound, Due
<1>3. row[c] = "none" => \A p \in req[c].prepared : project[p].state \in Left
  BY <1>1 DEF DirectoriesSound
<1> QED  BY <1>2, <1>3

LEMMA JobCarried ==
  ASSUME ComparisonInv
  PROVE  JobIsCarried /\ SuccessHasResult
<1>1. ASSUME NEW c \in Comparisons
      PROVE  /\ row[c] = "QUEUED" => \/ At(c, "readback") \/ At(c, "reject") \/ task[c] \in {"waiting", "start"}
                                     \/ bounds.faults > 0 \/ phase = "closed"
             /\ row[c] = "RUNNING" => task[c] \in Working \ {"start"} \/ bounds.faults > 0
             /\ row[c] = "SUCCEEDED" => c \in artifact
  <2>1. TaskSound(req[c], row[c], task[c], c \in artifact) /\ Carried(req[c], row[c], task[c], bounds.faults, phase)
    BY InvAt
  <2> QED  BY <2>1 DEF TaskSound, Carried, At
<1> QED  BY <1>1 DEF JobIsCarried, SuccessHasResult

LEMMA LanesLimited ==
  ASSUME ComparisonInv
  PROVE  LanesWithinLimit
BY DEF ComparisonInv, LanesSound, Busy, LanesWithinLimit, Lanes
(* The sources of a comparison stay from the INSERT of its job to the end  *)
(* of its task, each pin on a source has its holder, a request that ended  *)
(* leaves nothing, a job is carried by its request or its task, a success  *)
(* has its result file, and the queue keeps to its lanes.                  *)
THEOREM ComparisonsStaySound ==
  ASSUME ComparisonsAssumption
  PROVE  Spec => [](/\ TypeOK /\ SourcesArePresent /\ PinsAreHeld /\ NothingIsLeft
                    /\ JobIsCarried /\ SuccessHasResult /\ LanesWithinLimit)
<1>1. Spec => []ComparisonInv
  BY Invariance
<1>2. ComparisonInv => /\ TypeOK /\ SourcesArePresent /\ PinsAreHeld /\ NothingIsLeft
                       /\ JobIsCarried /\ SuccessHasResult /\ LanesWithinLimit
  BY SourcesHere, PinsHeld, NothingLeft, JobCarried, LanesLimited DEF ComparisonInv
<1> QED  BY <1>1, <1>2, PTL

-----------------------------------------------------------------------------
(* One row is written, from a status that is not final.                    *)
LEMMA RowWritten ==
  ASSUME NEW c \in Comparisons, row \in Statuses, row[c] \notin {"SUCCEEDED", "FAILED"}, NEW s,
         row' = [row EXCEPT ![c] = s]
  PROVE  \A d \in Comparisons : row[d] \in {"SUCCEEDED", "FAILED"} => row'[d] = row[d]
BY DEF Statuses

LEMMA FailedWritten ==
  ASSUME NEW c \in Comparisons, row \in Statuses, row' = MarkedFailed(c)
  PROVE  \A d \in Comparisons : row[d] \in {"SUCCEEDED", "FAILED"} => row'[d] = row[d]
BY DEF Statuses, MarkedFailed

LEMMA FinalStep ==
  ASSUME ComparisonInv, [Next]_vars
  PROVE  \A d \in Comparisons : row[d] \in {"SUCCEEDED", "FAILED"} => row'[d] = row[d]
<1>1. row \in Statuses
  BY Types DEF ComparisonInv
<1>2. CASE row' = row
  BY <1>2
<1>3. ASSUME NEW c \in Comparisons, Reserve(c) \/ Request(c), row' # row
      PROVE  \A d \in Comparisons : row[d] \in {"SUCCEEDED", "FAILED"} => row'[d] = row[d]
  <2>1. Insert(c) \/ Reject(c)
    BY <1>3 DEF Reserve, Request, Prepare, PrepareFails, PinPrepared, Resolve, InsertFails, ReadBackFails,
                Enqueue, Discard, Removed
  <2>2. CASE Insert(c)
    <3>1. row[c] = "none"
      BY <2>2, InvAt DEF Insert, At, RequestSound
    <3> QED  BY <1>1, <2>2, <3>1, RowWritten DEF Insert
  <2>3. CASE Reject(c)
    BY <1>1, <1>3, <2>3, FailedWritten DEF Reject
  <2> QED  BY <2>1, <2>2, <2>3
<1>4. ASSUME NEW c \in Comparisons, Execute(c), row' # row
      PROVE  \A d \in Comparisons : row[d] \in {"SUCCEEDED", "FAILED"} => row'[d] = row[d]
  <2>1. MarkRunning(c) \/ Commit(c) \/ MarkFailed(c)
    BY <1>4 DEF Execute, Compare, WriteArtifact
  <2>2. CASE MarkRunning(c)
    <3>1. row[c] = "QUEUED" /\ row' = [row EXCEPT ![c] = "RUNNING"]
      BY <1>4, <2>2 DEF MarkRunning
    <3> QED  BY <1>1, <3>1, RowWritten
  <2>3. CASE Commit(c)
    <3>1. row[c] = "RUNNING" /\ row' = [row EXCEPT ![c] = "SUCCEEDED"]
      BY <1>4, <2>3 DEF Commit
    <3> QED  BY <1>1, <3>1, RowWritten
  <2>4. CASE MarkFailed(c)
    BY <1>1, <1>4, <2>4, FailedWritten DEF MarkFailed
  <2> QED  BY <2>1, <2>2, <2>3, <2>4
<1>5. CASE Recover \/ Restart
  BY <1>5, RecoveredRows DEF Recover, Restart
<1>6. CASE (\E p \in Projects : RemoveSource(p)) \/ Stop \/ Abort \/ Close \/ UNCHANGED vars
  BY <1>6 DEF RemoveSource, Stop, Abort, Close, vars
<1> QED  BY <1>2, <1>3, <1>4, <1>5, <1>6 DEF Next

LEMMA RestartStep ==
  ASSUME ComparisonsAssumption, ComparisonInv, [Next]_vars, bounds'.restarts > bounds.restarts
  PROVE  \A c \in Comparisons : row'[c] \notin {"QUEUED", "RUNNING"}
<1>1. bounds.restarts \in Nat /\ bounds'.restarts # bounds.restarts
  <2>1. bounds.restarts \in Nat
    BY Types DEF ComparisonInv, Bounds, ComparisonsAssumption
  <2> QED  BY <2>1
<1>2. ~(Fault \/ Works \/ UNCHANGED bounds)
  BY <1>1, BoundsStep
<1>3. ASSUME NEW c \in Comparisons
      PROVE  ~(Reserve(c) \/ Request(c))
  BY <1>2 DEF Reserve, Request, Prepare, PrepareFails, PinPrepared, Resolve, InsertFails, Insert, ReadBackFails,
              Enqueue, Reject, Discard, Removed
<1>4. ASSUME NEW c \in Comparisons
      PROVE  ~Execute(c)
  BY <1>2 DEF Execute, MarkRunning, Compare, WriteArtifact, Commit, MarkFailed
<1>5. ~((\E p \in Projects : RemoveSource(p)) \/ Stop \/ Abort \/ Recover \/ UNCHANGED vars)
  BY <1>2 DEF RemoveSource, Stop, Abort, Recover, vars
<1>6. ~Close
  BY <1>2 DEF Close
<1>7. Restart
  BY <1>3, <1>4, <1>5, <1>6 DEF Next
<1> QED  BY <1>7, RecoveredRows DEF Restart

(* A comparison that ended keeps its status, whatever reports late, and a  *)
(* server that starts again finds none that waits or runs.                 *)
THEOREM HistoryStays ==
  ASSUME ComparisonsAssumption
  PROVE  Spec => FinalIsFinal /\ RestartEndsJobs
<1>1. Spec => []ComparisonInv
  BY Invariance
<1>2. ComparisonInv /\ [Next]_vars
        => [\A c \in Comparisons : row[c] \in {"SUCCEEDED", "FAILED"} => row'[c] = row[c]]_vars
  BY FinalStep
<1>3. ComparisonInv /\ [Next]_vars
        => [bounds'.restarts > bounds.restarts
              => \A c \in Comparisons : row'[c] \notin {"QUEUED", "RUNNING"}]_vars
  BY RestartStep
<1> QED  BY <1>1, <1>2, <1>3, PTL DEF Spec, FinalIsFinal, RestartEndsJobs
=============================================================================
