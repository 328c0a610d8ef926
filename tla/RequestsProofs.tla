--------------------------- MODULE RequestsProofs ----------------------------
(***************************************************************************)
(* The requests of the web processes for any number of requests, processes,*)
(* users and keys, and any limits. A request is described by one predicate,*)
(* RowInv; the promises under way (FlightInv) and the counters of the      *)
(* processes (SlotInv) are two more parts of the inductive invariant.      *)
(***************************************************************************)
EXTENDS DeploymentRequests, FiniteSetTheorems, TLAPS

Unborn  == {"new", "joined", "look", "lease", "recheck", "prepare", "create"}
Counted == Preparing \cup {"lease"}
Over    == Ended \cup {"new", "joined"}
Work(r) == req[r].pc \in Counted

(* What a request knows and holds, by where it is.                         *)
KnowsInv(r) ==
  /\ req[r].pc \in Unborn => job[r] = "ABSENT"
  /\ req[r].pc = "write" => job[r] # "ABSENT"
  /\ req[r].pc = "joined" => req[r].leader \in Requests /\ Same(r, req[r].leader)
  /\ req[r].answer # None => /\ req[r].pc = "ended" /\ Same(r, req[r].answer)
                             /\ job[req[r].answer] # "ABSENT"
  /\ req[r].then = "fail" => req[r].found = None
  /\ req[r].then \in {"check", "answer"} => /\ req[r].found \in Requests \ {r}
                                            /\ job[req[r].found] # "ABSENT"
  /\ req[r].then = "answer" => Same(r, req[r].found)
  /\ req[r].then = "run" => job[r] # "ABSENT"

Underway(r) == req[r].pc = "settle" /\ req[r].then = "run"

HoldsInv(r) ==
  /\ req[r].slot <=> Work(r)
  /\ req[r].reserved => req[r].pc \in Preparing \/ Underway(r) \/ Stranded(r)
  /\ req[r].pinned => req[r].pc \in {"create", "write"} \/ Underway(r) \/ Stranded(r) \/ r \in task
  /\ r \in task => req[r].pc = "ended"

RowInv == \A r \in Requests : KnowsInv(r) /\ HoldsInv(r)

(* A promise that may be joined is under way, in its process, for its key. *)
FlightInv ==
  \A p \in Processes, k \in Keys : inFlight[p][k] # None =>
    LET r == inFlight[p][k] IN Proc(r) = p /\ Key(r) = k /\ req[r].pc \notin Over

Working(p, u) == {r \in Requests : Proc(r) = p /\ User(r) = u /\ Work(r)}

SlotInv ==
  \A p \in Processes, u \in Users :
    IsFiniteSet(Working(p, u)) /\ active[p][u] = Cardinality(Working(p, u))

RequestInv == TypeOK /\ OneJobPerKey /\ RowInv /\ FlightInv /\ SlotInv /\ AnnouncedJobIsQueued

-----------------------------------------------------------------------------
(* The values of a request, as TypeOK has them.                            *)
ReqRow  == [pc : {"new", "joined", "look", "lease", "settle"} \cup Preparing \cup Ended,
            leader : Requests \cup {None}, slot : BOOLEAN, deletes : BOOLEAN,
            reserved : BOOLEAN, pinned : BOOLEAN,
            then : {None, "check", "answer", "fail", "run"},
            found : Requests \cup {None}, answer : Requests \cup {None}]
ReqRows == [Requests -> ReqRow]
Jobs    == [Requests -> {"ABSENT", "QUEUED", "RAN", "FAILED"}]
Flights == [Processes -> [Keys -> Requests \cup {None}]]
Counts  == [Processes -> [Users -> Nat]]

LEMMA Values ==
  ASSUME TypeOK
  PROVE  /\ req \in ReqRows /\ job \in Jobs /\ inFlight \in Flights /\ active \in Counts
         /\ row \in [Requests -> 0 .. LeaseTicks] /\ task \subseteq Requests
         /\ process \in [Processes -> {"open", "closing", "down"}] /\ exits \in 0 .. MaxExits
         /\ \A r \in Requests : Proc(r) \in Processes /\ User(r) \in Users /\ Key(r) \in Keys
         /\ None \notin Requests
  BY LoadsAssumption, NoneAssumption DEF TypeOK, ReqRows, ReqRow, Jobs, Flights, Counts, Proc, User, Key

(* A request is written as a whole.                                        *)
Becomes(r, x) == x \in ReqRow /\ req'[r] = x /\ \A s \in Requests \ {r} : req'[s] = req[s]

LEMMA ReqUpdate ==
  ASSUME req \in ReqRows, NEW r \in Requests, NEW x \in ReqRow, req' = [req EXCEPT ![r] = x]
  PROVE  req' \in ReqRows /\ Becomes(r, x)
  BY DEF ReqRows, Becomes

(* Where a request goes next, and what it is answered.                     *)
LEMMA GotoRow ==
  ASSUME req \in ReqRows, NEW r \in Requests,
         NEW pc \in {"new", "joined", "look", "lease", "settle"} \cup Preparing \cup Ended, Goto(r, pc)
  PROVE  req' \in ReqRows /\ Becomes(r, [req[r] EXCEPT !.pc = pc])
<1> DEFINE x == [req[r] EXCEPT !.pc = pc]
<1>1. x \in ReqRow
  BY DEF ReqRows, ReqRow
<1>2. req' = [req EXCEPT ![r] = x]
  BY DEF Goto, ReqRows, ReqRow
<1> HIDE DEF x
<1>3. req' \in ReqRows /\ Becomes(r, x)
  BY <1>1, <1>2, ReqUpdate
<1> QED  BY <1>3 DEF x

LEMMA EndRow ==
  ASSUME req \in ReqRows, NEW r \in Requests, NEW answer \in Requests \cup {None}, End(r, answer)
  PROVE  req' \in ReqRows /\ Becomes(r, [req[r] EXCEPT !.pc = "ended", !.answer = answer])
<1> DEFINE x == [req[r] EXCEPT !.pc = "ended", !.answer = answer]
<1>1. x \in ReqRow
  BY DEF ReqRows, ReqRow, Ended
<1>2. req' = [req EXCEPT ![r] = x]
  BY DEF End, ReqRows, ReqRow
<1> HIDE DEF x
<1>3. req' \in ReqRows /\ Becomes(r, x)
  BY <1>1, <1>2, ReqUpdate
<1> QED  BY <1>3 DEF x

(* What a request that settles keeps.                                      *)
LEMMA SettleRow ==
  ASSUME req \in ReqRows, NEW r \in Requests, NEW then \in {"check", "answer", "fail", "run"},
         NEW found \in Requests \cup {None}, Settle(r, then, found)
  PROVE  /\ req' \in ReqRows /\ \A s \in Requests \ {r} : req'[s] = req[s]
         /\ req'[r].pc = "settle" /\ req'[r].then = then /\ req'[r].found = found
         /\ req'[r].answer = req[r].answer /\ req'[r].leader = req[r].leader
         /\ ~ req'[r].slot
         /\ req'[r].reserved => then = "run" /\ req[r].reserved
         /\ req'[r].pinned => then = "run" /\ req[r].pinned
         /\ active' = SlotsAfter(r)
<1> DEFINE old == req[r]
           reserved == old.reserved /\ then = "run"
           pinned == old.pinned /\ then = "run"
           y == [pc |-> "settle", leader |-> old.leader, slot |-> FALSE, deletes |-> old.slot,
                 reserved |-> reserved, pinned |-> pinned, then |-> then, found |-> found,
                 answer |-> old.answer]
<1>0. old \in ReqRow /\ reserved \in BOOLEAN /\ pinned \in BOOLEAN
  BY DEF ReqRows, ReqRow
<1>1. req' = [req EXCEPT ![r] = y] /\ active' = SlotsAfter(r)
  BY DEF Settle
<1>2. y \in ReqRow
  <2> HIDE DEF old, reserved, pinned
  <2> QED  BY <1>0 DEF ReqRow
<1>3. req' \in ReqRows /\ Becomes(r, y)
  <2> HIDE DEF y
  <2> QED  BY <1>1, <1>2, ReqUpdate
<1>4. /\ req' \in ReqRows /\ \A s \in Requests \ {r} : req'[s] = req[s]
      /\ req'[r] = y
  BY <1>3 DEF Becomes
<1>5. /\ y.pc = "settle" /\ y.then = then /\ y.found = found
      /\ y.answer = old.answer /\ y.leader = old.leader
  OBVIOUS
<1>6. ~y.slot /\ (y.reserved => reserved) /\ (y.pinned => pinned)
  OBVIOUS
<1> HIDE DEF y
<1> QED  BY <1>1, <1>4, <1>5, <1>6

-----------------------------------------------------------------------------
(* What becomes of the other requests: nothing, but jobs stay and tasks of *)
(* other jobs do.                                                          *)
JobsStay == \A s \in Requests : job[s] # "ABSENT" => job'[s] # "ABSENT"

LEMMA OthersKeep ==
  ASSUME TypeOK, RowInv, NEW r \in Requests, of' = of, \A s \in Requests \ {r} : req'[s] = req[s],
         JobsStay, \A s \in Requests \ {r} : job'[s] = job[s] /\ (s \in task' <=> s \in task),
         KnowsInv(r)', HoldsInv(r)'
  PROVE  RowInv'
<1> SUFFICES ASSUME NEW s \in Requests, s # r PROVE KnowsInv(s)' /\ HoldsInv(s)'
  BY DEF RowInv
<1>0. req[s] \in ReqRow
  BY Values DEF ReqRows
<1>1. req'[s] = req[s] /\ job'[s] = job[s] /\ (s \in task' <=> s \in task)
  OBVIOUS
<1>2. \A t : Same(s, t)' <=> Same(s, t)
  BY DEF Same, Key
<1>3. /\ req[s].answer # None => req[s].answer \in Requests
      /\ req[s].then \in {"check", "answer"} => req[s].found \in Requests
  BY <1>0 DEF ReqRow, RowInv, KnowsInv
<1>4. KnowsInv(s)'
  BY <1>1, <1>2, <1>3 DEF RowInv, KnowsInv, JobsStay
<1>5. HoldsInv(s)'
  BY <1>1 DEF RowInv, HoldsInv, Work, Underway, Stranded
<1> QED  BY <1>4, <1>5

(* The counters follow the requests that enter and leave a preparation.    *)
LEMMA SlotStep ==
  ASSUME TypeOK, RowInv, SlotInv, NEW r \in Requests, of' = of,
         \A s \in Requests \ {r} : req'[s] = req[s],
         \/ (Work(r)' <=> Work(r)) /\ active' = active
         \/ ~Work(r) /\ Work(r)' /\ active' = [active EXCEPT ![Proc(r)][User(r)] = @ + 1]
         \/ ~Work(r)' /\ active' = SlotsAfter(r)
  PROVE  SlotInv' /\ active' \in Counts
<1>a. PICK p0 \in Processes, u0 \in Users : p0 = Proc(r) /\ u0 = User(r)
  BY Values
<1>0. active \in Counts /\ p0 = Proc(r) /\ u0 = User(r)
  BY <1>a, Values
<1>1. \A s \in Requests : (Proc(s)' = Proc(s)) /\ (User(s)' = User(s))
  BY DEF Proc, User
<1>2. \A s \in Requests \ {r} : Work(s)' <=> Work(s)
  BY DEF Work
<1>3. \A p \in Processes, u \in Users : p # p0 \/ u # u0 => Working(p, u)' = Working(p, u)
  <2> TAKE p \in Processes, u \in Users
  <2> HAVE p # p0 \/ u # u0
  <2>1. \A s \in Requests : Proc(s) = p /\ User(s) = u => s # r
    BY <1>0
  <2>2. \A s \in Requests : s # r => (Work(s)' <=> Work(s))
    BY <1>2
  <2> QED  BY <1>1, <2>1, <2>2 DEF Working
<1>4. CASE (Work(r)' <=> Work(r)) /\ active' = active
  <2>1. \A p \in Processes, u \in Users : Working(p, u)' = Working(p, u)
    BY <1>1, <1>2, <1>4 DEF Working
  <2> QED  BY <1>0, <1>4, <2>1 DEF SlotInv
<1>5. CASE ~Work(r) /\ Work(r)' /\ active' = [active EXCEPT ![Proc(r)][User(r)] = @ + 1]
  <2>1. Working(p0, u0)' = Working(p0, u0) \cup {r} /\ r \notin Working(p0, u0)
    BY <1>0, <1>1, <1>2, <1>5 DEF Working
  <2>2. /\ IsFiniteSet(Working(p0, u0)')
        /\ Cardinality(Working(p0, u0)') = active[p0][u0] + 1
    BY <1>0, <2>1, FS_AddElement DEF SlotInv
  <2>3. /\ active' \in Counts /\ active'[p0][u0] = active[p0][u0] + 1
        /\ \A p \in Processes, u \in Users : p # p0 \/ u # u0 => active'[p][u] = active[p][u]
    BY <1>0, <1>5 DEF Counts
  <2> QED  BY <1>0, <1>3, <2>2, <2>3 DEF SlotInv
<1>6. CASE ~Work(r) /\ ~Work(r)' /\ active' = SlotsAfter(r)
  <2>1. \A p \in Processes, u \in Users : Working(p, u)' = Working(p, u)
    BY <1>1, <1>2, <1>6 DEF Working
  <2>2. ~req[r].slot
    BY <1>6 DEF RowInv, HoldsInv
  <2>3. active' = active
    BY <1>0, <1>6, <2>2 DEF SlotsAfter, Counts
  <2> QED  BY <1>0, <2>1, <2>3 DEF SlotInv
<1>7. CASE Work(r) /\ ~Work(r)' /\ active' = SlotsAfter(r)
  <2>1. Working(p0, u0)' = Working(p0, u0) \ {r} /\ r \in Working(p0, u0)
    BY <1>0, <1>1, <1>2, <1>7 DEF Working
  <2>2. /\ IsFiniteSet(Working(p0, u0)')
        /\ Cardinality(Working(p0, u0)') = active[p0][u0] - 1
    <3>1. IsFiniteSet(Working(p0, u0)) /\ active[p0][u0] = Cardinality(Working(p0, u0))
      BY DEF SlotInv
    <3> QED  BY <2>1, <3>1, FS_RemoveElement
  <2>3. active[p0][u0] \in Nat /\ active[p0][u0] - 1 \in Nat
    <3>1. Cardinality(Working(p0, u0)') \in Nat
      BY <2>2, FS_CardinalityType
    <3> QED  BY <1>0, <2>2, <3>1 DEF Counts
  <2>4. req[r].slot
    BY <1>7 DEF RowInv, HoldsInv
  <2>5. active' = [active EXCEPT ![p0][u0] = @ - 1]
    BY <1>0, <1>7, <2>4 DEF SlotsAfter
  <2>6. /\ active' \in Counts /\ active'[p0][u0] = active[p0][u0] - 1
        /\ \A p \in Processes, u \in Users : p # p0 \/ u # u0 => active'[p][u] = active[p][u]
    BY <1>0, <2>3, <2>5 DEF Counts
  <2> QED  BY <1>0, <1>3, <2>2, <2>6 DEF SlotInv
<1> QED  BY <1>4, <1>5, <1>6, <1>7

(* A promise is registered by its request and forgotten when it ends.      *)
LEMMA FlightStep ==
  ASSUME TypeOK, FlightInv, NEW r \in Requests, of' = of, \A s \in Requests \ {r} : req'[s] = req[s],
         \/ inFlight' = inFlight /\ (req'[r].pc \notin Over \/ req[r].pc \in Over)
         \/ Forget(r)
         \/ inFlight' = [inFlight EXCEPT ![Proc(r)][Key(r)] = r] /\ req'[r].pc \notin Over
  PROVE  FlightInv' /\ inFlight' \in Flights
<1> DEFINE p0 == Proc(r)
           k0 == Key(r)
<1>0. /\ inFlight \in Flights /\ p0 \in Processes /\ k0 \in Keys /\ None \notin Requests
      /\ Proc(r)' = p0 /\ Key(r)' = k0
  BY Values DEF Proc, Key
<1>1. \A s \in Requests : (Proc(s)' = Proc(s)) /\ (Key(s)' = Key(s))
  BY DEF Proc, Key
<1>2. \A p \in Processes, k \in Keys : inFlight[p][k] \in Requests \cup {None}
  BY <1>0 DEF Flights
<1>3. CASE inFlight' = inFlight /\ (req'[r].pc \notin Over \/ req[r].pc \in Over)
  BY <1>0, <1>1, <1>2, <1>3 DEF FlightInv
<1>4. CASE Forget(r)
  <2>1. /\ inFlight' \in Flights /\ inFlight'[p0][k0] # r
        /\ \A p \in Processes, k \in Keys : inFlight'[p][k] \in {inFlight[p][k], None}
    BY <1>0, <1>4 DEF Forget, Flights
  <2>2. \A p \in Processes, k \in Keys : inFlight'[p][k] # None =>
          inFlight'[p][k] = inFlight[p][k] /\ inFlight'[p][k] # r
    BY <1>0, <2>1 DEF FlightInv
  <2> QED  BY <1>1, <1>2, <2>1, <2>2 DEF FlightInv
<1>5. CASE inFlight' = [inFlight EXCEPT ![Proc(r)][Key(r)] = r] /\ req'[r].pc \notin Over
  <2>1. /\ inFlight' \in Flights /\ inFlight'[p0][k0] = r
        /\ \A p \in Processes, k \in Keys : p # p0 \/ k # k0 => inFlight'[p][k] = inFlight[p][k]
    BY <1>0, <1>5 DEF Flights
  <2> QED  BY <1>0, <1>1, <1>2, <1>5, <2>1 DEF FlightInv
<1> QED  BY <1>3, <1>4, <1>5

(* A step of one request.                                                  *)
Alone(r) ==
  /\ of' = of /\ process' = process /\ exits' = exits
  /\ \A s \in Requests \ {r} : req'[s] = req[s] /\ job'[s] = job[s] /\ (s \in task' <=> s \in task)

SlotsFollow(r) ==
  \/ (Work(r)' <=> Work(r)) /\ active' = active
  \/ ~Work(r) /\ Work(r)' /\ active' = [active EXCEPT ![Proc(r)][User(r)] = @ + 1]
  \/ ~Work(r)' /\ active' = SlotsAfter(r)

FlightFollows(r) ==
  \/ inFlight' = inFlight /\ (req'[r].pc \notin Over \/ req[r].pc \in Over)
  \/ Forget(r)
  \/ inFlight' = [inFlight EXCEPT ![Proc(r)][Key(r)] = r] /\ req'[r].pc \notin Over

JobFollows(r) ==
  /\ job[r] # "ABSENT" => job'[r] # "ABSENT"
  /\ job'[r] # "ABSENT" => job[r] # "ABSENT" \/ Existing(r) = {}

Rows == [Requests -> 0 .. LeaseTicks]

LEMMA RequestStep ==
  ASSUME RequestInv, NEW r \in Requests, Alone(r), SlotsFollow(r), FlightFollows(r), JobFollows(r),
         req' \in ReqRows, job' \in Jobs, row' \in Rows, task' \subseteq Requests,
         KnowsInv(r)', HoldsInv(r)',
         req'[r].answer = r /\ job'[r] = "QUEUED" => r \in task' \/ process[Proc(r)] # "open"
  PROVE  RequestInv'
<1>0. TypeOK /\ OneJobPerKey /\ RowInv /\ FlightInv /\ SlotInv /\ AnnouncedJobIsQueued
  BY DEF RequestInv
<1>1. /\ of' = of /\ process' = process /\ exits' = exits
      /\ \A s \in Requests \ {r} : req'[s] = req[s] /\ job'[s] = job[s] /\ (s \in task' <=> s \in task)
  BY DEF Alone
<1>2. SlotInv' /\ active' \in Counts
  BY <1>0, <1>1, SlotStep DEF SlotsFollow
<1>3. FlightInv' /\ inFlight' \in Flights
  BY <1>0, <1>1, FlightStep DEF FlightFollows
<1>4. JobsStay
  BY <1>1 DEF JobsStay, JobFollows
<1>5. RowInv'
  BY <1>0, <1>1, <1>4, OthersKeep
<1>6. TypeOK'
  BY <1>0, <1>1, <1>2, <1>3 DEF TypeOK, ReqRows, ReqRow, Jobs, Flights, Counts, Rows
<1>7. OneJobPerKey'
  <2> SUFFICES ASSUME NEW s \in Requests, NEW t \in Requests, s # t, Key(s)' = Key(t)'
               PROVE  "ABSENT" \in {job'[s], job'[t]}
    BY DEF OneJobPerKey
  <2>1. Key(s) = Key(t) /\ "ABSENT" \in {job[s], job[t]}
    BY <1>0, <1>1 DEF OneJobPerKey, Key
  <2>2. CASE s # r /\ t # r
    BY <1>1, <2>1, <2>2
  <2>3. CASE s = r
    BY <1>1, <2>1, <2>3 DEF JobFollows, Existing
  <2>4. CASE t = r
    BY <1>1, <2>1, <2>4 DEF JobFollows, Existing
  <2> QED  BY <2>2, <2>3, <2>4
<1>8. AnnouncedJobIsQueued'
  BY <1>0, <1>1 DEF AnnouncedJobIsQueued, Proc
<1> QED  BY <1>2, <1>3, <1>5, <1>6, <1>7, <1>8 DEF RequestInv

-----------------------------------------------------------------------------
(* The steps of a request, one by one.                                     *)
LEMMA ArriveStep ==
  ASSUME RequestInv, NEW r \in Requests, Arrive(r)
  PROVE  RequestInv'
<1>0. TypeOK /\ RowInv /\ FlightInv
  BY DEF RequestInv
<1>1. /\ req \in ReqRows /\ job \in Jobs /\ inFlight \in Flights /\ row \in Rows /\ task \subseteq Requests
      /\ Proc(r) \in Processes /\ Key(r) \in Keys /\ None \notin Requests
  BY <1>0, Values DEF Rows
<1>2. /\ UNCHANGED <<of, active, row, job, task, process, exits>> /\ req[r].pc = "new"
      /\ KnowsInv(r) /\ HoldsInv(r) /\ req[r] \in ReqRow
  BY <1>0, <1>1 DEF Arrive, Live, RowInv, ReqRows
<1> DEFINE leader == inFlight[Proc(r)][Key(r)]
<1>3. CASE leader = None
  <2>1. Goto(r, "look") /\ inFlight' = [inFlight EXCEPT ![Proc(r)][Key(r)] = r]
    BY <1>1, <1>3 DEF Arrive
  <2>2. req' \in ReqRows /\ Becomes(r, [req[r] EXCEPT !.pc = "look"])
    BY <1>1, <2>1, GotoRow
  <2>3. /\ Alone(r) /\ SlotsFollow(r) /\ FlightFollows(r) /\ JobFollows(r)
    BY <1>2, <2>1, <2>2 DEF Alone, SlotsFollow, FlightFollows, JobFollows, Becomes, Work, Counted,
                            Preparing, Over, Ended, ReqRow
  <2>4. KnowsInv(r)' /\ HoldsInv(r)' /\ req'[r].answer # r
    BY <1>1, <1>2, <2>2 DEF KnowsInv, HoldsInv, Becomes, Work, Counted, Preparing, Ended, Unborn,
                            Underway, Stranded, ReqRow, Same, Key
  <2> QED  BY <1>1, <1>2, <2>2, <2>3, <2>4, RequestStep
<1>4. CASE leader # None
  <2> DEFINE x == [req[r] EXCEPT !.pc = IF MayJoin(r, leader) THEN "joined" ELSE "ended", !.leader = leader]
  <2>1. inFlight' = inFlight /\ leader \in Requests /\ req' = [req EXCEPT ![r] = x]
    <3> DEFINE pc == IF MayJoin(r, leader) THEN "joined" ELSE "ended"
    <3>1. req' = [req EXCEPT ![r].pc = pc, ![r].leader = leader] /\ inFlight' = inFlight
      BY <1>4 DEF Arrive
    <3>2. leader \in Requests
      BY <1>1, <1>4 DEF Flights
    <3> HIDE DEF pc, leader
    <3>3. req' = [req EXCEPT ![r] = [req[r] EXCEPT !.pc = pc, !.leader = leader]]
      BY <1>1, <3>1 DEF ReqRows, ReqRow
    <3> QED  BY <3>1, <3>2, <3>3 DEF pc
  <2>2. Key(leader) = Key(r)
    BY <1>0, <1>1, <1>4 DEF FlightInv
  <2>3. x \in ReqRow
    BY <1>2, <2>1 DEF ReqRow, Ended
  <2>4. /\ x.pc = (IF MayJoin(r, leader) THEN "joined" ELSE "ended") /\ x.leader = leader
        /\ x.slot = req[r].slot /\ x.reserved = req[r].reserved /\ x.pinned = req[r].pinned
        /\ x.then = req[r].then /\ x.found = req[r].found /\ x.answer = req[r].answer
    BY <1>2 DEF ReqRow
  <2> HIDE DEF x
  <2>5. req' \in ReqRows /\ Becomes(r, x)
    BY <1>1, <2>1, <2>3, ReqUpdate
  <2>6. /\ Alone(r) /\ SlotsFollow(r) /\ FlightFollows(r) /\ JobFollows(r)
    BY <1>2, <2>1, <2>4, <2>5 DEF Alone, SlotsFollow, FlightFollows, JobFollows, Becomes, Work,
                                  Counted, Preparing, Over, Ended
  <2>7. KnowsInv(r)' /\ HoldsInv(r)' /\ req'[r].answer # r
    BY <1>1, <1>2, <2>1, <2>2, <2>4, <2>5
       DEF KnowsInv, HoldsInv, Becomes, Work, Counted, Preparing, Ended, Unborn, Underway, Stranded,
           Same, Key, MayJoin
  <2> QED  BY <1>1, <1>2, <2>5, <2>6, <2>7, RequestStep
<1> QED  BY <1>3, <1>4

LEMMA JoinedEndsStep ==
  ASSUME RequestInv, NEW r \in Requests, JoinedEnds(r)
  PROVE  RequestInv'
<1>0. TypeOK /\ RowInv /\ FlightInv
  BY DEF RequestInv
<1>1. /\ req \in ReqRows /\ job \in Jobs /\ row \in Rows /\ task \subseteq Requests
      /\ None \notin Requests
  BY <1>0, Values DEF Rows
<1>2. /\ UNCHANGED <<of, inFlight, active, row, job, task, process, exits>> /\ req[r].pc = "joined"
      /\ KnowsInv(r) /\ HoldsInv(r) /\ req[r] \in ReqRow
  BY <1>0, <1>1 DEF JoinedEnds, Live, RowInv, ReqRows
<1> DEFINE leader == req[r].leader
           answer == req[leader].answer
           x == [req[r] EXCEPT !.pc = "ended", !.answer = answer]
<1>3. /\ leader \in Requests /\ Same(r, leader) /\ KnowsInv(leader) /\ req[leader] \in ReqRow
  BY <1>0, <1>1, <1>2 DEF KnowsInv, RowInv, ReqRows
<1>4. /\ answer \in Requests \cup {None}
      /\ answer # None => Same(r, answer) /\ job[answer] # "ABSENT" /\ answer # r
  BY <1>2, <1>3 DEF KnowsInv, ReqRow, Same, Unborn
<1>5. req' = [req EXCEPT ![r] = x]
  <2>1. req' = [req EXCEPT ![r].pc = "ended", ![r].answer = answer]
    BY DEF JoinedEnds
  <2> HIDE DEF answer
  <2> QED  BY <1>1, <2>1 DEF ReqRows, ReqRow
<1>6. x \in ReqRow
  BY <1>2, <1>4 DEF ReqRow, Ended
<1>7. /\ x.pc = "ended" /\ x.leader = leader /\ x.answer = answer
      /\ x.slot = req[r].slot /\ x.reserved = req[r].reserved /\ x.pinned = req[r].pinned
      /\ x.then = req[r].then /\ x.found = req[r].found
  BY <1>2 DEF ReqRow
<1> HIDE DEF x, answer, leader
<1>8. req' \in ReqRows /\ Becomes(r, x)
  BY <1>1, <1>5, <1>6, ReqUpdate
<1>9. Alone(r) /\ SlotsFollow(r) /\ FlightFollows(r) /\ JobFollows(r)
  BY <1>2, <1>7, <1>8 DEF Alone, SlotsFollow, FlightFollows, JobFollows, Becomes, Work, Counted,
                          Preparing, Over, Ended
<1>10. KnowsInv(r)' /\ HoldsInv(r)' /\ req'[r].answer # r
  BY <1>1, <1>2, <1>4, <1>7, <1>8
     DEF KnowsInv, HoldsInv, Becomes, Work, Counted, Preparing, Ended, Unborn, Underway, Stranded,
         Same, Key
<1> QED  BY <1>1, <1>2, <1>8, <1>9, <1>10, RequestStep

LEMMA LookStep ==
  ASSUME RequestInv, NEW r \in Requests, Look(r)
  PROVE  RequestInv'
<1>0. TypeOK /\ RowInv /\ FlightInv
  BY DEF RequestInv
<1>1. /\ req \in ReqRows /\ job \in Jobs /\ row \in Rows /\ task \subseteq Requests
      /\ None \notin Requests
  BY <1>0, Values DEF Rows
<1>2. /\ UNCHANGED <<of, row, job, task, process, exits>> /\ req[r].pc = "look"
      /\ KnowsInv(r) /\ HoldsInv(r) /\ req[r] \in ReqRow
  BY <1>0, <1>1 DEF Look, Live, RowInv, ReqRows
<1>3. ASSUME NEW answer \in Requests \cup {None}, End(r, answer), active' = active,
             answer # None => Same(r, answer) /\ job[answer] # "ABSENT"
      PROVE  RequestInv'
  <2>1. req' \in ReqRows /\ Becomes(r, [req[r] EXCEPT !.pc = "ended", !.answer = answer])
    BY <1>1, <1>3, EndRow
  <2>2. Alone(r) /\ SlotsFollow(r) /\ FlightFollows(r) /\ JobFollows(r)
    BY <1>2, <1>3, <2>1 DEF Alone, SlotsFollow, FlightFollows, JobFollows, Becomes, Work, Counted,
                            Preparing, Over, Ended, ReqRow, End
  <2>3. KnowsInv(r)' /\ HoldsInv(r)' /\ req'[r].answer # r
    BY <1>1, <1>2, <1>3, <2>1
       DEF KnowsInv, HoldsInv, Becomes, Work, Counted, Preparing, Ended, Unborn, Underway, Stranded,
           Same, Key, ReqRow
  <2> QED  BY <1>1, <1>2, <2>1, <2>2, <2>3, RequestStep
<1>4. CASE \E s \in Existing(r) : End(r, IF Same(r, s) THEN s ELSE None) /\ UNCHANGED active
  <2>1. PICK s \in Existing(r) : End(r, IF Same(r, s) THEN s ELSE None) /\ UNCHANGED active
    BY <1>4
  <2> DEFINE answer == IF Same(r, s) THEN s ELSE None
  <2>2. /\ answer \in Requests \cup {None} /\ End(r, answer) /\ active' = active
        /\ answer # None => Same(r, answer) /\ job[answer] # "ABSENT"
    BY <2>1 DEF Existing
  <2> HIDE DEF answer
  <2> QED  BY <1>3, <2>2
<1>5. CASE End(r, None) /\ UNCHANGED active
  BY <1>3, <1>5
<1>6. CASE /\ req' = [req EXCEPT ![r].pc = "lease", ![r].slot = TRUE]
           /\ active' = [active EXCEPT ![Proc(r)][User(r)] = @ + 1]
           /\ UNCHANGED inFlight
  <2> DEFINE x == [req[r] EXCEPT !.pc = "lease", !.slot = TRUE]
  <2>1. req' = [req EXCEPT ![r] = x]
    BY <1>1, <1>6 DEF ReqRows, ReqRow
  <2>2. x \in ReqRow
    BY <1>2 DEF ReqRow
  <2>3. /\ x.pc = "lease" /\ x.slot /\ x.leader = req[r].leader /\ x.answer = req[r].answer
        /\ x.reserved = req[r].reserved /\ x.pinned = req[r].pinned
        /\ x.then = req[r].then /\ x.found = req[r].found
    BY <1>2 DEF ReqRow
  <2> HIDE DEF x
  <2>4. req' \in ReqRows /\ Becomes(r, x)
    BY <1>1, <2>1, <2>2, ReqUpdate
  <2>5. Alone(r) /\ SlotsFollow(r) /\ FlightFollows(r) /\ JobFollows(r)
    BY <1>2, <1>6, <2>3, <2>4 DEF Alone, SlotsFollow, FlightFollows, JobFollows, Becomes, Work,
                                  Counted, Preparing, Over, Ended
  <2>6. KnowsInv(r)' /\ HoldsInv(r)' /\ req'[r].answer # r
    BY <1>1, <1>2, <2>3, <2>4
       DEF KnowsInv, HoldsInv, Becomes, Work, Counted, Preparing, Ended, Unborn, Underway, Stranded,
           Same, Key
  <2> QED  BY <1>1, <1>2, <2>4, <2>5, <2>6, RequestStep
<1> QED  BY <1>4, <1>5, <1>6 DEF Look

(* Whatever a request that is under way settles for.                       *)
LEMMA SettleStep ==
  ASSUME RequestInv, NEW r \in Requests, NEW then \in {"check", "answer", "fail", "run"},
         NEW found \in Requests \cup {None}, Settle(r, then, found),
         req[r].pc \in {"lease", "settle"} \cup Preparing,
         UNCHANGED <<of, inFlight, task, process, exits>>, row' \in Rows, job' \in Jobs,
         \A s \in Requests \ {r} : job'[s] = job[s], JobFollows(r),
         then = "fail" => found = None,
         then \in {"check", "answer"} => found \in Requests \ {r} /\ job[found] # "ABSENT",
         then = "answer" => Same(r, found),
         then = "run" => job'[r] # "ABSENT"
  PROVE  RequestInv'
<1>0. TypeOK /\ RowInv
  BY DEF RequestInv
<1>1. /\ req \in ReqRows /\ task \subseteq Requests /\ None \notin Requests
      /\ KnowsInv(r) /\ HoldsInv(r) /\ req[r] \in ReqRow
  BY <1>0, Values DEF RowInv, ReqRows
<1>2. /\ req' \in ReqRows /\ \A s \in Requests \ {r} : req'[s] = req[s]
      /\ req'[r].pc = "settle" /\ req'[r].then = then /\ req'[r].found = found
      /\ req'[r].answer = req[r].answer /\ req'[r].leader = req[r].leader
      /\ ~ req'[r].slot
      /\ req'[r].reserved => then = "run" /\ req[r].reserved
      /\ req'[r].pinned => then = "run" /\ req[r].pinned
      /\ active' = SlotsAfter(r)
  BY <1>1, SettleRow
<1>3. req[r].answer = None /\ r \notin task
  BY <1>1 DEF KnowsInv, HoldsInv, Preparing
<1>4. ~ Work(r)'
  BY <1>2 DEF Work, Counted, Preparing
<1>5. Alone(r) /\ SlotsFollow(r) /\ FlightFollows(r)
  BY <1>2, <1>4 DEF Alone, SlotsFollow, FlightFollows, Over, Ended
<1>6. KnowsInv(r)'
  BY <1>1, <1>2, <1>3 DEF KnowsInv, Unborn, Same, Key
<1>7. HoldsInv(r)'
  BY <1>1, <1>2, <1>3, <1>4 DEF HoldsInv, Underway
<1> QED  BY <1>1, <1>2, <1>3, <1>5, <1>6, <1>7, RequestStep

(* A step within the preparation: only the place and what is held change.  *)
LEMMA HoldStep ==
  ASSUME RequestInv, NEW r \in Requests, NEW x \in ReqRow, req' = [req EXCEPT ![r] = x],
         UNCHANGED <<of, inFlight, active, task, process, exits>>, row' \in Rows, job' \in Jobs,
         \A s \in Requests \ {r} : job'[s] = job[s], JobFollows(r),
         req[r].pc \in Counted, x.pc \in Preparing,
         x.pc = "write" <=> job'[r] # "ABSENT",
         x.slot = req[r].slot, x.then = req[r].then, x.found = req[r].found,
         x.answer = req[r].answer, x.leader = req[r].leader,
         x.pinned => x.pc \in {"create", "write"}
  PROVE  RequestInv'
<1>0. TypeOK /\ RowInv
  BY DEF RequestInv
<1>1. /\ req \in ReqRows /\ task \subseteq Requests /\ None \notin Requests
      /\ KnowsInv(r) /\ HoldsInv(r) /\ req[r] \in ReqRow
  BY <1>0, Values DEF RowInv, ReqRows
<1>2. req' \in ReqRows /\ Becomes(r, x)
  BY <1>1, ReqUpdate
<1>3. req[r].answer = None /\ r \notin task
  BY <1>1 DEF KnowsInv, HoldsInv, Preparing, Counted
<1>4. Alone(r) /\ SlotsFollow(r) /\ FlightFollows(r)
  BY <1>2 DEF Alone, SlotsFollow, FlightFollows, Over, Ended, Becomes, Work, Counted, Preparing
<1>5. KnowsInv(r)'
  BY <1>1, <1>2, <1>3 DEF KnowsInv, Unborn, Same, Key, Becomes, Preparing, Counted, JobFollows
<1>6. HoldsInv(r)'
  BY <1>1, <1>2, <1>3 DEF HoldsInv, Underway, Becomes, Work, Counted
<1>7. req'[r].answer # r
  BY <1>1, <1>2, <1>3 DEF Becomes
<1> QED  BY <1>1, <1>2, <1>3, <1>4, <1>5, <1>6, <1>7, RequestStep

LEMMA LeaseStep ==
  ASSUME RequestInv, NEW r \in Requests, Lease(r)
  PROVE  RequestInv'
<1>0. TypeOK /\ RowInv
  BY DEF RequestInv
<1>1. /\ req \in ReqRows /\ job \in Jobs /\ row \in Rows /\ task \subseteq Requests
      /\ None \notin Requests
  BY <1>0, Values DEF Rows
<1>2. /\ UNCHANGED <<of, job, task, process, exits>> /\ req[r].pc = "lease"
      /\ KnowsInv(r) /\ HoldsInv(r) /\ req[r] \in ReqRow
  BY <1>0, <1>1 DEF Lease, Live, RowInv, ReqRows
<1>3. job[r] = "ABSENT" /\ JobFollows(r)
  BY <1>2 DEF KnowsInv, Unborn, JobFollows
<1>4. CASE /\ req' = [req EXCEPT ![r].pc = "ended", ![r].slot = FALSE]
           /\ Forget(r) /\ active' = SlotsAfter(r) /\ UNCHANGED row
  <2> DEFINE x == [req[r] EXCEPT !.pc = "ended", !.slot = FALSE]
  <2>1. req' = [req EXCEPT ![r] = x]
    BY <1>1, <1>4 DEF ReqRows, ReqRow
  <2>2. x \in ReqRow
    BY <1>2 DEF ReqRow, Ended
  <2>3. /\ x.pc = "ended" /\ ~x.slot /\ x.leader = req[r].leader /\ x.answer = req[r].answer
        /\ x.reserved = req[r].reserved /\ x.pinned = req[r].pinned
        /\ x.then = req[r].then /\ x.found = req[r].found
    BY <1>2 DEF ReqRow
  <2> HIDE DEF x
  <2>4. req' \in ReqRows /\ Becomes(r, x)
    BY <1>1, <2>1, <2>2, ReqUpdate
  <2>5. Alone(r) /\ SlotsFollow(r) /\ FlightFollows(r)
    BY <1>2, <1>4, <2>3, <2>4 DEF Alone, SlotsFollow, FlightFollows, Becomes, Work,
                                  Counted, Preparing
  <2>6. KnowsInv(r)' /\ HoldsInv(r)' /\ req'[r].answer # r
    BY <1>1, <1>2, <1>3, <2>3, <2>4
       DEF KnowsInv, HoldsInv, Becomes, Work, Counted, Preparing, Ended, Unborn, Underway, Stranded,
           Same, Key
  <2> QED  BY <1>1, <1>2, <1>3, <1>4, <2>4, <2>5, <2>6, RequestStep
<1>5. CASE /\ row' = [row EXCEPT ![r] = LeaseTicks] /\ UNCHANGED inFlight
           /\ \/ req' = [req EXCEPT ![r].pc = "recheck", ![r].reserved = TRUE] /\ UNCHANGED active
              \/ Fail(r)
  <2>1. row' \in Rows
    BY <1>1, <1>5, LimitsAssumption DEF Rows
  <2>2. CASE req' = [req EXCEPT ![r].pc = "recheck", ![r].reserved = TRUE] /\ UNCHANGED active
    <3> DEFINE x == [req[r] EXCEPT !.pc = "recheck", !.reserved = TRUE]
    <3>1. req' = [req EXCEPT ![r] = x]
      BY <1>1, <2>2 DEF ReqRows, ReqRow
    <3>2. x \in ReqRow
      BY <1>2 DEF ReqRow, Preparing
    <3>3. /\ x.pc = "recheck" /\ x.slot = req[r].slot /\ x.leader = req[r].leader
          /\ x.answer = req[r].answer /\ x.pinned = req[r].pinned
          /\ x.then = req[r].then /\ x.found = req[r].found
      BY <1>2 DEF ReqRow
    <3>4. ~ req[r].pinned
      BY <1>2 DEF HoldsInv, Underway, Stranded
    <3> HIDE DEF x
    <3> QED  BY <1>1, <1>2, <1>3, <1>5, <2>1, <2>2, <3>1, <3>2, <3>3, <3>4, HoldStep
                DEF Counted, Preparing
  <2>3. CASE Fail(r)
    BY <1>1, <1>2, <1>3, <1>5, <2>1, <2>3, SettleStep DEF Fail
  <2> QED  BY <1>5, <2>2, <2>3
<1> QED  BY <1>4, <1>5 DEF Lease

LEMMA RecheckStep ==
  ASSUME RequestInv, NEW r \in Requests, Recheck(r)
  PROVE  RequestInv'
<1>0. TypeOK /\ RowInv
  BY DEF RequestInv
<1>1. /\ req \in ReqRows /\ job \in Jobs /\ row \in Rows /\ task \subseteq Requests
      /\ None \notin Requests
  BY <1>0, Values DEF Rows
<1>2. /\ UNCHANGED <<of, inFlight, row, job, task, process, exits>> /\ req[r].pc = "recheck"
      /\ KnowsInv(r) /\ HoldsInv(r) /\ req[r] \in ReqRow
  BY <1>0, <1>1 DEF Recheck, Live, RowInv, ReqRows
<1>3. job[r] = "ABSENT" /\ JobFollows(r)
  BY <1>2 DEF KnowsInv, Unborn, JobFollows
<1>4. ASSUME NEW s \in Existing(r), Settle(r, "check", s)
      PROVE  RequestInv'
  <2>1. s \in Requests \ {r} /\ job[s] # "ABSENT"
    BY <1>3 DEF Existing
  <2> QED  BY <1>1, <1>2, <1>3, <1>4, <2>1, SettleStep DEF Preparing
<1>5. CASE Goto(r, "prepare") /\ UNCHANGED active
  <2> DEFINE x == [req[r] EXCEPT !.pc = "prepare"]
  <2>1. req' = [req EXCEPT ![r] = x]
    BY <1>1, <1>5 DEF ReqRows, ReqRow, Goto
  <2>2. x \in ReqRow
    BY <1>2 DEF ReqRow, Preparing
  <2>3. /\ x.pc = "prepare" /\ x.slot = req[r].slot /\ x.leader = req[r].leader
        /\ x.answer = req[r].answer /\ x.pinned = req[r].pinned
        /\ x.then = req[r].then /\ x.found = req[r].found
    BY <1>2 DEF ReqRow
  <2>4. ~ req[r].pinned
    BY <1>2 DEF HoldsInv, Underway, Stranded
  <2> HIDE DEF x
  <2> QED  BY <1>1, <1>2, <1>3, <1>5, <2>1, <2>2, <2>3, <2>4, HoldStep DEF Counted, Preparing
<1> QED  BY <1>4, <1>5 DEF Recheck

LEMMA PrepareStep ==
  ASSUME RequestInv, NEW r \in Requests, Prepare(r)
  PROVE  RequestInv'
<1>0. TypeOK /\ RowInv
  BY DEF RequestInv
<1>1. /\ req \in ReqRows /\ job \in Jobs /\ row \in Rows /\ task \subseteq Requests
      /\ None \notin Requests
  BY <1>0, Values DEF Rows
<1>2. /\ UNCHANGED <<of, inFlight, row, job, task, process, exits>> /\ req[r].pc = "prepare"
      /\ KnowsInv(r) /\ HoldsInv(r) /\ req[r] \in ReqRow
  BY <1>0, <1>1 DEF Prepare, Live, RowInv, ReqRows
<1>3. job[r] = "ABSENT" /\ JobFollows(r)
  BY <1>2 DEF KnowsInv, Unborn, JobFollows
<1>4. CASE req' = [req EXCEPT ![r].pc = "create", ![r].pinned = TRUE] /\ UNCHANGED active
  <2> DEFINE x == [req[r] EXCEPT !.pc = "create", !.pinned = TRUE]
  <2>1. req' = [req EXCEPT ![r] = x]
    BY <1>1, <1>4 DEF ReqRows, ReqRow
  <2>2. x \in ReqRow
    BY <1>2 DEF ReqRow, Preparing
  <2>3. /\ x.pc = "create" /\ x.slot = req[r].slot /\ x.leader = req[r].leader
        /\ x.answer = req[r].answer /\ x.then = req[r].then /\ x.found = req[r].found
    BY <1>2 DEF ReqRow
  <2> HIDE DEF x
  <2> QED  BY <1>1, <1>2, <1>3, <1>4, <2>1, <2>2, <2>3, HoldStep DEF Counted, Preparing
<1>5. CASE Fail(r)
  BY <1>1, <1>2, <1>3, <1>5, SettleStep DEF Fail, Preparing
<1> QED  BY <1>4, <1>5 DEF Prepare

LEMMA CreateStep ==
  ASSUME RequestInv, NEW r \in Requests, Create(r)
  PROVE  RequestInv'
<1>0. TypeOK /\ RowInv
  BY DEF RequestInv
<1>1. /\ req \in ReqRows /\ job \in Jobs /\ row \in Rows /\ task \subseteq Requests
      /\ None \notin Requests
  BY <1>0, Values DEF Rows
<1>2. /\ UNCHANGED <<of, inFlight, row, task, process, exits>> /\ req[r].pc = "create"
      /\ KnowsInv(r) /\ HoldsInv(r) /\ req[r] \in ReqRow
  BY <1>0, <1>1 DEF Create, Live, RowInv, ReqRows
<1>3. job[r] = "ABSENT"
  BY <1>2 DEF KnowsInv, Unborn
<1>4. CASE /\ Insertable(r) /\ job' = [job EXCEPT ![r] = "QUEUED"]
           /\ (Goto(r, "write") /\ UNCHANGED active) \/ Fail(r)
  <2>1. /\ job' \in Jobs /\ job'[r] = "QUEUED" /\ JobFollows(r)
        /\ \A s \in Requests \ {r} : job'[s] = job[s]
    BY <1>1, <1>4 DEF Jobs, JobFollows, Insertable
  <2>2. CASE Goto(r, "write") /\ UNCHANGED active
    <3> DEFINE x == [req[r] EXCEPT !.pc = "write"]
    <3>1. req' = [req EXCEPT ![r] = x]
      BY <1>1, <2>2 DEF ReqRows, ReqRow, Goto
    <3>2. x \in ReqRow
      BY <1>2 DEF ReqRow, Preparing
    <3>3. /\ x.pc = "write" /\ x.slot = req[r].slot /\ x.leader = req[r].leader
          /\ x.answer = req[r].answer /\ x.then = req[r].then /\ x.found = req[r].found
      BY <1>2 DEF ReqRow
    <3> HIDE DEF x
    <3> QED  BY <1>1, <1>2, <2>1, <2>2, <3>1, <3>2, <3>3, HoldStep DEF Counted, Preparing
  <2>3. CASE Fail(r)
    BY <1>1, <1>2, <2>1, <2>3, SettleStep DEF Fail, Preparing
  <2> QED  BY <1>4, <2>2, <2>3
<1>5. ASSUME NEW s \in Existing(r), Settle(r, "answer", s), Same(r, s), UNCHANGED job
      PROVE  RequestInv'
  <2>1. s \in Requests \ {r} /\ job[s] # "ABSENT" /\ JobFollows(r)
    BY <1>3, <1>5 DEF Existing, JobFollows
  <2> QED  BY <1>1, <1>2, <1>3, <1>5, <2>1, SettleStep DEF Preparing
<1>6. CASE Fail(r) /\ UNCHANGED job
  <2>1. JobFollows(r)
    BY <1>6 DEF JobFollows
  <2> QED  BY <1>1, <1>2, <1>6, <2>1, SettleStep DEF Fail, Preparing
<1> QED  BY <1>4, <1>5, <1>6 DEF Create

LEMMA WriteStep ==
  ASSUME RequestInv, NEW r \in Requests, Write(r)
  PROVE  RequestInv'
<1>0. TypeOK /\ RowInv
  BY DEF RequestInv
<1>1. /\ req \in ReqRows /\ job \in Jobs /\ row \in Rows /\ task \subseteq Requests
      /\ None \notin Requests
  BY <1>0, Values DEF Rows
<1>2. /\ UNCHANGED <<of, inFlight, row, task, process, exits>> /\ req[r].pc = "write"
      /\ KnowsInv(r) /\ HoldsInv(r) /\ req[r] \in ReqRow
  BY <1>0, <1>1 DEF Write, Live, RowInv, ReqRows
<1>3. job[r] # "ABSENT"
  BY <1>2 DEF KnowsInv
<1>4. CASE Settle(r, "run", r) /\ UNCHANGED job
  <2>1. JobFollows(r)
    BY <1>4 DEF JobFollows
  <2> QED  BY <1>1, <1>2, <1>3, <1>4, <2>1, SettleStep DEF Preparing
<1>5. CASE Fail(r) /\ job' = [job EXCEPT ![r] = IF @ = "QUEUED" THEN "FAILED" ELSE @]
  <2>1. job' \in Jobs /\ JobFollows(r) /\ \A s \in Requests \ {r} : job'[s] = job[s]
    BY <1>1, <1>3, <1>5 DEF Jobs, JobFollows
  <2> QED  BY <1>1, <1>2, <1>5, <2>1, SettleStep DEF Fail, Preparing
<1>6. CASE Fail(r) /\ UNCHANGED job
  <2>1. JobFollows(r)
    BY <1>6 DEF JobFollows
  <2> QED  BY <1>1, <1>2, <1>6, <2>1, SettleStep DEF Fail, Preparing
<1> QED  BY <1>4, <1>5, <1>6 DEF Write

(* The end of a settled request: what it is answered is a job of its key.  *)
LEMMA EndStep ==
  ASSUME RequestInv, NEW r \in Requests, NEW answer \in Requests \cup {None}, End(r, answer),
         UNCHANGED <<of, active, job, task, process, exits>>, row' \in Rows, req[r].pc = "settle",
         answer # None => Same(r, answer) /\ job[answer] # "ABSENT" /\ answer # r,
         req[r].then = "run" => answer = None
  PROVE  RequestInv'
<1>0. TypeOK /\ RowInv
  BY DEF RequestInv
<1>1. /\ req \in ReqRows /\ job \in Jobs /\ task \subseteq Requests /\ None \notin Requests
      /\ KnowsInv(r) /\ HoldsInv(r) /\ req[r] \in ReqRow
  BY <1>0, Values DEF RowInv, ReqRows
<1>2. req' \in ReqRows /\ Becomes(r, [req[r] EXCEPT !.pc = "ended", !.answer = answer])
  BY <1>1, EndRow
<1>3. Alone(r) /\ SlotsFollow(r) /\ FlightFollows(r) /\ JobFollows(r)
  <2>1. Alone(r)
    BY <1>2 DEF Alone, Becomes
  <2>2. ~Work(r) /\ ~Work(r)'
    BY <1>1, <1>2 DEF Becomes, Work, Counted, Preparing, ReqRow
  <2> QED  BY <2>1, <2>2 DEF SlotsFollow, FlightFollows, JobFollows, End
<1>4. KnowsInv(r)' /\ req'[r].answer # r
  BY <1>1, <1>2 DEF KnowsInv, Becomes, Unborn, Same, Key, ReqRow
<1>5. HoldsInv(r)'
  BY <1>1, <1>2 DEF HoldsInv, Becomes, Work, Counted, Preparing, Underway, Stranded, ReqRow
<1> QED  BY <1>1, <1>2, <1>3, <1>4, <1>5, RequestStep

LEMMA EnqueueStep ==
  ASSUME RequestInv, NEW r \in Requests, Enqueue(r), req[r].pc = "settle", row' \in Rows,
         UNCHANGED <<of, job, process, exits>>
  PROVE  RequestInv'
<1>0. TypeOK /\ RowInv
  BY DEF RequestInv
<1>1. /\ req \in ReqRows /\ job \in Jobs /\ task \subseteq Requests /\ None \notin Requests
      /\ KnowsInv(r) /\ HoldsInv(r) /\ req[r] \in ReqRow /\ req[r].then = "run"
  BY <1>0, Values DEF RowInv, ReqRows, Enqueue
<1> DEFINE open == process[Proc(r)] = "open"
           x == [req[r] EXCEPT !.pc = "ended", !.answer = r, !.reserved = FALSE, !.pinned = open]
<1>2. /\ req' = [req EXCEPT ![r] = x] /\ Forget(r) /\ UNCHANGED active
      /\ task' = IF open THEN task \cup {r} ELSE task
  BY DEF Enqueue
<1>3. x \in ReqRow
  <2>1. open \in BOOLEAN
    OBVIOUS
  <2> HIDE DEF open
  <2> QED  BY <1>1, <2>1 DEF ReqRow, Ended
<1>4. /\ x.pc = "ended" /\ x.answer = r /\ ~x.reserved /\ x.slot = req[r].slot
      /\ x.leader = req[r].leader /\ x.then = req[r].then /\ x.found = req[r].found
  <2> HIDE DEF open
  <2> QED  BY <1>1 DEF ReqRow
<1>5. x.pinned => open
  BY <1>1 DEF ReqRow
<1> HIDE DEF x
<1>6. req' \in ReqRows /\ Becomes(r, x)
  BY <1>1, <1>2, <1>3, ReqUpdate
<1>7. Alone(r) /\ SlotsFollow(r) /\ FlightFollows(r) /\ JobFollows(r)
  <2>1. /\ \A s \in Requests \ {r} : s \in task' <=> s \in task
        /\ \A s \in Requests \ {r} : req'[s] = req[s] /\ job'[s] = job[s]
    BY <1>2, <1>6 DEF Becomes
  <2>2. Alone(r)
    BY <2>1 DEF Alone
  <2>3. ~Work(r) /\ ~Work(r)'
    BY <1>4, <1>6 DEF Becomes, Work, Counted, Preparing
  <2> QED  BY <1>2, <2>2, <2>3 DEF SlotsFollow, FlightFollows, JobFollows
<1>8. KnowsInv(r)'
  BY <1>1, <1>4, <1>6 DEF KnowsInv, Becomes, Unborn, Same, Key
<1>9. HoldsInv(r)'
  BY <1>1, <1>2, <1>4, <1>5, <1>6 DEF HoldsInv, Becomes, Work, Counted, Preparing, Underway, Stranded
<1> QED  BY <1>1, <1>2, <1>6, <1>7, <1>8, <1>9, RequestStep

LEMMA SettledStep ==
  ASSUME RequestInv, NEW r \in Requests, Settled(r) \/ SettleFails(r)
  PROVE  RequestInv'
<1>0. TypeOK /\ RowInv
  BY DEF RequestInv
<1>1. /\ req \in ReqRows /\ job \in Jobs /\ row \in Rows /\ task \subseteq Requests
      /\ None \notin Requests /\ KnowsInv(r) /\ req[r] \in ReqRow
  BY <1>0, Values DEF Rows, RowInv, ReqRows
<1>2. UNCHANGED <<of, job, process, exits>> /\ req[r].pc = "settle" /\ row' \in Rows /\ JobFollows(r)
  <2>1. 0 \in 0 .. LeaseTicks
    BY LimitsAssumption
  <2> QED  BY <1>1, <2>1 DEF Settled, SettleFails, Live, Rows, JobFollows
<1>3. CASE Fail(r) /\ UNCHANGED <<inFlight, task>>
  BY <1>1, <1>2, <1>3, SettleStep DEF Fail
<1>4. CASE /\ req[r].then = "fail" \/ (req[r].then \in {"check", "answer"} /\ Same(r, req[r].found))
           /\ End(r, req[r].found) /\ UNCHANGED <<active, task>>
  <2>1. /\ req[r].found \in Requests \cup {None}
        /\ req[r].found # None => /\ Same(r, req[r].found) /\ job[req[r].found] # "ABSENT"
                                  /\ req[r].found # r
    BY <1>1, <1>4 DEF KnowsInv, ReqRow
  <2> QED  BY <1>1, <1>2, <1>4, <2>1, EndStep
<1>5. CASE Enqueue(r)
  BY <1>2, <1>5, EnqueueStep
<1>6. CASE End(r, None) /\ UNCHANGED <<active, task>>
  BY <1>1, <1>2, <1>6, EndStep
<1> QED  BY <1>3, <1>4, <1>5, <1>6 DEF Settled, Conclude, SettleFails

LEMMA RunTaskStep ==
  ASSUME RequestInv, NEW r \in Requests, RunTask(r)
  PROVE  RequestInv'
<1>0. TypeOK /\ RowInv
  BY DEF RequestInv
<1>1. /\ req \in ReqRows /\ job \in Jobs /\ row \in Rows /\ task \subseteq Requests
      /\ None \notin Requests /\ KnowsInv(r) /\ HoldsInv(r) /\ req[r] \in ReqRow
  BY <1>0, Values DEF Rows, RowInv, ReqRows
<1>2. /\ UNCHANGED <<of, inFlight, active, row, process, exits>> /\ r \in task /\ task' = task \ {r}
      /\ job' = [job EXCEPT ![r] = IF @ = "QUEUED" THEN "RAN" ELSE @]
      /\ req[r].pc = "ended"
  BY <1>1 DEF RunTask, HoldsInv
<1> DEFINE x == [req[r] EXCEPT !.pinned = FALSE]
<1>3. req' = [req EXCEPT ![r] = x]
  BY <1>1 DEF RunTask, ReqRows, ReqRow
<1>4. x \in ReqRow
  BY <1>1 DEF ReqRow
<1>5. /\ x.pc = "ended" /\ ~x.pinned /\ x.answer = req[r].answer
      /\ x.reserved = req[r].reserved /\ x.slot = req[r].slot
      /\ x.leader = req[r].leader /\ x.then = req[r].then /\ x.found = req[r].found
  BY <1>1, <1>2 DEF ReqRow
<1> HIDE DEF x
<1>6. req' \in ReqRows /\ Becomes(r, x)
  BY <1>1, <1>3, <1>4, ReqUpdate
<1>7. /\ job' \in Jobs /\ (job'[r] = "ABSENT" <=> job[r] = "ABSENT") /\ job'[r] # "QUEUED"
      /\ \A s \in Requests \ {r} : job'[s] = job[s]
  BY <1>1, <1>2 DEF Jobs
<1>8. Alone(r) /\ SlotsFollow(r) /\ FlightFollows(r) /\ JobFollows(r)
  BY <1>1, <1>2, <1>5, <1>6, <1>7
     DEF Alone, SlotsFollow, FlightFollows, JobFollows, Becomes, Work, Over
<1>9. KnowsInv(r)'
  <2>1. req[r].answer # None => req[r].answer \in Requests /\ (job'[req[r].answer] = "ABSENT" <=> job[req[r].answer] = "ABSENT")
    BY <1>1, <1>7 DEF ReqRow
  <2> QED  BY <1>1, <1>2, <1>5, <1>6, <1>7, <2>1 DEF KnowsInv, Becomes, Same, Key
<1>10. HoldsInv(r)'
  BY <1>1, <1>2, <1>5, <1>6 DEF HoldsInv, Becomes, Work, Counted, Preparing, Underway, Stranded
<1> QED  BY <1>1, <1>2, <1>6, <1>7, <1>8, <1>9, <1>10, RequestStep

-----------------------------------------------------------------------------
(* The steps of a process.                                                 *)
LEMMA TickStep ==
  ASSUME RequestInv, Tick
  PROVE  RequestInv'
<1>1. UNCHANGED <<of, req, inFlight, active, job, task, process, exits>>
  BY DEF Tick
<1>2. row' \in [Requests -> 0 .. LeaseTicks]
  BY LimitsAssumption DEF Tick, RequestInv, TypeOK
<1>3. TypeOK'
  BY <1>1, <1>2 DEF RequestInv, TypeOK
<1> QED
  BY <1>1, <1>3 DEF RequestInv, OneJobPerKey, RowInv, KnowsInv, HoldsInv, FlightInv, SlotInv,
     AnnouncedJobIsQueued, Same, Key, Proc, User, Work, Underway, Stranded, Working

LEMMA FlightsAndSlotsStay ==
  ASSUME UNCHANGED <<of, req, inFlight, active>>, FlightInv, SlotInv
  PROVE  FlightInv' /\ SlotInv'
<1>1. \A r : (Key(r)' = Key(r)) /\ (Proc(r)' = Proc(r)) /\ (User(r)' = User(r)) /\ (Work(r)' <=> Work(r))
  BY DEF Key, Proc, User, Work
<1>2. FlightInv'
  BY <1>1 DEF FlightInv
<1>3. \A p, u : Working(p, u)' = Working(p, u)
  BY <1>1 DEF Working
<1> QED  BY <1>2, <1>3 DEF SlotInv

LEMMA CloseStep ==
  ASSUME RequestInv, NEW p \in Processes, Close(p)
  PROVE  RequestInv'
<1>1. UNCHANGED <<of, req, inFlight, active, row, job, task, exits>>
  BY DEF Close
<1>2. TypeOK'
  BY <1>1 DEF RequestInv, TypeOK, Close
<1>3. AnnouncedJobIsQueued'
  BY <1>1 DEF Close, RequestInv, TypeOK, AnnouncedJobIsQueued, Proc
<1>4. RowInv' /\ OneJobPerKey'
  BY <1>1 DEF RequestInv, OneJobPerKey, RowInv, KnowsInv, HoldsInv, Same, Key, Work, Underway, Stranded
<1> QED  BY <1>1, <1>2, <1>3, <1>4, FlightsAndSlotsStay DEF RequestInv

LEMMA StartStep ==
  ASSUME RequestInv, NEW p \in Processes, Start(p)
  PROVE  RequestInv'
<1>1. UNCHANGED <<of, req, inFlight, active, row, task, exits>>
  BY DEF Start
<1>2. \A r \in Requests : job'[r] # "QUEUED" /\ (job'[r] = "ABSENT" <=> job[r] = "ABSENT")
  BY DEF Start
<1>3. TypeOK'
  BY <1>1 DEF RequestInv, TypeOK, Start
<1>4. AnnouncedJobIsQueued'
  BY <1>2 DEF AnnouncedJobIsQueued
<1>5. RowInv'
  <2> SUFFICES ASSUME NEW r \in Requests PROVE KnowsInv(r)' /\ HoldsInv(r)'
    BY DEF RowInv
  <2>0. KnowsInv(r) /\ HoldsInv(r) /\ req[r] \in ReqRow
    BY Values DEF RequestInv, RowInv, ReqRows
  <2>1. /\ req[r].answer # None => req[r].answer \in Requests
        /\ req[r].then \in {"check", "answer"} => req[r].found \in Requests
    BY <2>0 DEF ReqRow, KnowsInv
  <2>2. KnowsInv(r)'
    BY <1>1, <1>2, <2>0, <2>1 DEF KnowsInv, Same, Key
  <2>3. HoldsInv(r)'
    BY <1>1, <2>0 DEF HoldsInv, Work, Underway, Stranded
  <2> QED  BY <2>2, <2>3
<1>6. OneJobPerKey'
  BY <1>1, <1>2 DEF RequestInv, OneJobPerKey, Key
<1> QED  BY <1>1, <1>3, <1>4, <1>5, <1>6, FlightsAndSlotsStay DEF RequestInv

LEMMA ExitStep ==
  ASSUME RequestInv, NEW p \in Processes, Exit(p)
  PROVE  RequestInv'
<1>0. /\ TypeOK /\ OneJobPerKey /\ RowInv /\ FlightInv /\ SlotInv /\ AnnouncedJobIsQueued
      /\ req \in ReqRows /\ inFlight \in Flights /\ active \in Counts
  BY Values DEF RequestInv
<1>1. UNCHANGED <<of, row, job>> /\ task' = {r \in task : Proc(r) # p}
  BY DEF Exit
<1> DEFINE Killed(r) == Proc(r) = p /\ req[r].pc # "new"
           y(r) == [req[r] EXCEPT !.pc = IF @ = "ended" THEN @ ELSE "gone", !.slot = FALSE,
                                  !.reserved = FALSE, !.pinned = FALSE]
<1>2. \A r \in Requests : req'[r] = IF Killed(r) THEN y(r) ELSE req[r]
  BY DEF Exit
<1>3. \A r \in Requests : req[r] \in ReqRow /\ y(r) \in ReqRow
  <2> TAKE r \in Requests
  <2>1. req[r] \in ReqRow
    BY <1>0 DEF ReqRows
  <2> QED  BY <2>1 DEF ReqRow, Ended
<1>4. \A r \in Requests :
        /\ y(r).pc = (IF req[r].pc = "ended" THEN "ended" ELSE "gone")
        /\ ~y(r).slot /\ ~y(r).reserved /\ ~y(r).pinned
        /\ y(r).leader = req[r].leader /\ y(r).then = req[r].then
        /\ y(r).found = req[r].found /\ y(r).answer = req[r].answer
  <2> TAKE r \in Requests
  <2> DEFINE pc == IF req[r].pc = "ended" THEN "ended" ELSE "gone"
  <2>1. y(r) = [req[r] EXCEPT !.pc = pc, !.slot = FALSE, !.reserved = FALSE, !.pinned = FALSE]
    BY <1>3 DEF ReqRow
  <2>2. req[r] \in ReqRow
    BY <1>3
  <2> HIDE DEF y, pc
  <2>3. /\ y(r).pc = pc /\ ~y(r).slot /\ ~y(r).reserved /\ ~y(r).pinned
        /\ y(r).leader = req[r].leader /\ y(r).then = req[r].then
        /\ y(r).found = req[r].found /\ y(r).answer = req[r].answer
    BY <2>1, <2>2 DEF ReqRow
  <2> QED  BY <2>3 DEF pc
<1> HIDE DEF y
<1>5. req' \in ReqRows
  <2>1. req' = [r \in Requests |-> req'[r]]
    BY DEF Exit
  <2>2. \A r \in Requests : req'[r] \in ReqRow
    BY <1>2, <1>3
  <2> HIDE DEF Killed
  <2> QED  BY <2>1, <2>2 DEF ReqRows
<1>6. \A r \in Requests : (Key(r)' = Key(r)) /\ (Proc(r)' = Proc(r)) /\ (User(r)' = User(r))
  BY <1>1 DEF Key, Proc, User
<1>7. RowInv'
  <2> SUFFICES ASSUME NEW r \in Requests PROVE KnowsInv(r)' /\ HoldsInv(r)'
    BY DEF RowInv
  <2>0. KnowsInv(r) /\ HoldsInv(r)
    BY <1>0 DEF RowInv
  <2>1. CASE Killed(r)
    <3>1. /\ req'[r].pc = (IF req[r].pc = "ended" THEN "ended" ELSE "gone")
          /\ ~req'[r].slot /\ ~req'[r].reserved /\ ~req'[r].pinned
          /\ req'[r].leader = req[r].leader /\ req'[r].then = req[r].then
          /\ req'[r].found = req[r].found /\ req'[r].answer = req[r].answer
      BY <1>2, <1>4, <2>1
    <3>2. r \notin task'
      BY <1>1, <2>1
    <3>3. KnowsInv(r)'
      BY <1>1, <2>0, <3>1 DEF KnowsInv, Unborn, Same, Key
    <3>4. HoldsInv(r)'
      BY <2>0, <3>1, <3>2 DEF HoldsInv, Work, Counted, Preparing
    <3> QED  BY <3>3, <3>4
  <2>2. CASE ~ Killed(r)
    <3>1. req'[r] = req[r]
      BY <1>2, <2>2
    <3>2. KnowsInv(r)'
      BY <1>1, <2>0, <3>1 DEF KnowsInv, Same, Key
    <3>3. r \in task' <=> r \in task
      BY <1>1, <2>0, <2>2 DEF HoldsInv
    <3>4. HoldsInv(r)'
      BY <2>0, <3>1, <3>3 DEF HoldsInv, Work, Underway, Stranded
    <3> QED  BY <3>2, <3>4
  <2> QED  BY <2>1, <2>2
<1>8. FlightInv' /\ inFlight' \in Flights
  <2>1. /\ inFlight' \in Flights /\ \A k \in Keys : inFlight'[p][k] = None
        /\ \A q \in Processes \ {p} : inFlight'[q] = inFlight[q]
    <3> DEFINE nobody == [k \in Keys |-> None]
    <3>1. nobody \in [Keys -> Requests \cup {None}] /\ \A k \in Keys : nobody[k] = None
      OBVIOUS
    <3>2. inFlight' = [inFlight EXCEPT ![p] = nobody]
      BY DEF Exit
    <3> HIDE DEF nobody
    <3> QED  BY <1>0, <3>1, <3>2 DEF Flights
  <2>2. ASSUME NEW q \in Processes, NEW k \in Keys, NEW r \in Requests, inFlight'[q][k] = r
        PROVE  (Proc(r)' = q) /\ (Key(r)' = k) /\ req'[r].pc \notin Over
    <3>1. q # p /\ inFlight[q][k] = r /\ r # None
      BY <2>1, <2>2, Values, <1>0
    <3>2. Proc(r) = q /\ Key(r) = k /\ req[r].pc \notin Over
      BY <1>0, <3>1 DEF FlightInv
    <3>3. req'[r] = req[r]
      BY <1>2, <3>1, <3>2
    <3> QED  BY <1>6, <3>2, <3>3
  <2>3. \A q \in Processes, k \in Keys : inFlight'[q][k] # None => inFlight'[q][k] \in Requests
    BY <2>1 DEF Flights
  <2> QED  BY <2>1, <2>2, <2>3 DEF FlightInv
<1>9. SlotInv' /\ active' \in Counts
  <2>1. /\ active' \in Counts /\ \A u \in Users : active'[p][u] = 0
        /\ \A q \in Processes \ {p} : active'[q] = active[q]
    BY <1>0 DEF Exit, Counts
  <2>2. \A r \in Requests : Work(r)' <=> Work(r) /\ Proc(r) # p
    <3> TAKE r \in Requests
    <3>1. CASE Killed(r)
      BY <1>2, <1>4, <3>1 DEF Work, Counted, Preparing
    <3>2. CASE ~Killed(r)
      BY <1>2, <3>2 DEF Work, Counted, Preparing
    <3> QED  BY <3>1, <3>2
  <2>3. \A u \in Users : Working(p, u)' = {}
    BY <1>6, <2>2 DEF Working
  <2>4. \A q \in Processes \ {p}, u \in Users : Working(q, u)' = Working(q, u)
    BY <1>6, <2>2 DEF Working
  <2> SUFFICES ASSUME NEW q \in Processes, NEW u \in Users
               PROVE  IsFiniteSet(Working(q, u)') /\ active'[q][u] = Cardinality(Working(q, u)')
    BY <2>1 DEF SlotInv
  <2>5. CASE q = p
    BY <2>1, <2>3, <2>5, FS_EmptySet
  <2>6. CASE q # p
    BY <1>0, <2>1, <2>4, <2>6 DEF SlotInv
  <2> QED  BY <2>5, <2>6
<1>10. TypeOK'
  <2>0. task' \subseteq Requests
    BY <1>0, <1>1 DEF TypeOK
  <2>1. exits' \in 0 .. MaxExits
    <3>0. exits < MaxExits /\ exits' = exits + 1
      BY DEF Exit
    <3>1. exits \in 0 .. MaxExits /\ MaxExits \in Nat
      BY <1>0, LimitsAssumption DEF TypeOK
    <3> QED  BY <3>0, <3>1
  <2>2. process' \in [Processes -> {"open", "closing", "down"}]
    BY <1>0 DEF Exit, TypeOK
  <2> QED  BY <1>0, <1>1, <1>5, <1>8, <1>9, <2>0, <2>1, <2>2
           DEF TypeOK, ReqRows, ReqRow, Flights, Counts
<1>11. OneJobPerKey'
  BY <1>0, <1>1, <1>6 DEF OneJobPerKey
<1>12. AnnouncedJobIsQueued'
  <2> SUFFICES ASSUME NEW r \in Requests, req'[r].answer = r, job'[r] = "QUEUED"
               PROVE  r \in task' \/ process'[Proc(r)'] # "open"
    BY DEF AnnouncedJobIsQueued
  <2>1. req[r].answer = r /\ job[r] = "QUEUED"
    BY <1>1, <1>2, <1>4
  <2>2. r \in task \/ process[Proc(r)] # "open"
    BY <1>0, <2>1 DEF AnnouncedJobIsQueued
  <2>3. /\ process' = [process EXCEPT ![p] = "down"]
        /\ process \in [Processes -> {"open", "closing", "down"}]
    BY <1>0 DEF Exit, TypeOK
  <2>4. Proc(r) = p => process'[Proc(r)] = "down"
    BY <2>3
  <2>5. Proc(r) # p => process'[Proc(r)] = process[Proc(r)]
    BY <1>0, <2>3, Values
  <2> QED  BY <1>1, <1>6, <2>2, <2>4, <2>5
<1> QED  BY <1>7, <1>8, <1>9, <1>10, <1>11, <1>12 DEF RequestInv

-----------------------------------------------------------------------------
LEMMA RequestInit == Init => RequestInv
<1> SUFFICES ASSUME Init PROVE RequestInv
  OBVIOUS
<1>1. \A r \in Requests : req[r] = Idle /\ job[r] = "ABSENT"
  BY DEF Init
<1>2. Idle \in ReqRow
  BY DEF Idle, ReqRow
<1>3. TypeOK
  <2>1. req \in ReqRows
    <3> HIDE DEF Idle
    <3> QED  BY <1>2 DEF Init, ReqRows
  <2>2. row \in [Requests -> 0 .. LeaseTicks] /\ exits \in 0 .. MaxExits
    BY LimitsAssumption DEF Init
  <2>3. inFlight \in Flights
    BY DEF Init, Flights
  <2>4. active \in Counts
    BY DEF Init, Counts
  <2>5. /\ of \in Loads /\ job \in [Requests -> {"ABSENT", "QUEUED", "RAN", "FAILED"}]
        /\ task \subseteq Requests /\ process \in [Processes -> {"open", "closing", "down"}]
    BY DEF Init
  <2> QED  BY <2>1, <2>2, <2>3, <2>4, <2>5 DEF TypeOK, ReqRows, ReqRow, Flights, Counts
<1>4. \A r \in Requests :
        /\ req[r].pc = "new" /\ req[r].answer = None /\ req[r].then = None
        /\ ~req[r].slot /\ ~req[r].reserved /\ ~req[r].pinned /\ r \notin task
  BY <1>1 DEF Idle, Init
<1>5. None \notin {"check", "answer", "fail", "run"}
  BY NoneAssumption
<1>6. RowInv
  BY <1>1, <1>4, <1>5 DEF RowInv, KnowsInv, HoldsInv, Work, Counted, Preparing
<1>7. FlightInv
  BY DEF FlightInv, Init
<1>8. SlotInv
  <2>1. \A p \in Processes, u \in Users : Working(p, u) = {}
    BY <1>4 DEF Working, Work, Counted, Preparing
  <2> QED  BY <2>1, FS_EmptySet DEF SlotInv, Init
<1>9. OneJobPerKey /\ AnnouncedJobIsQueued
  BY <1>1 DEF OneJobPerKey, AnnouncedJobIsQueued
<1> QED  BY <1>3, <1>6, <1>7, <1>8, <1>9 DEF RequestInv

LEMMA RequestStutter == RequestInv /\ UNCHANGED vars => RequestInv'
<1> SUFFICES ASSUME RequestInv, UNCHANGED vars PROVE RequestInv'
  OBVIOUS
<1>1. UNCHANGED <<of, req, inFlight, active, row, job, task, process, exits>>
  BY DEF vars
<1>2. TypeOK'
  BY <1>1 DEF RequestInv, TypeOK
<1>3. RowInv' /\ OneJobPerKey' /\ AnnouncedJobIsQueued'
  BY <1>1 DEF RequestInv, OneJobPerKey, RowInv, KnowsInv, HoldsInv, AnnouncedJobIsQueued, Same, Key,
              Proc, Work, Underway, Stranded
<1> QED  BY <1>1, <1>2, <1>3, FlightsAndSlotsStay DEF RequestInv

THEOREM RequestInvariance == Spec => []RequestInv
<1>1. RequestInv /\ [Next]_vars => RequestInv'
  <2> SUFFICES ASSUME RequestInv, Next PROVE RequestInv'
    BY RequestStutter
  <2>1. ASSUME NEW r \in Requests, Arrive(r) \/ Step(r) \/ SettleFails(r) \/ RunTask(r)
        PROVE  RequestInv'
    BY <2>1, ArriveStep, JoinedEndsStep, LookStep, LeaseStep, RecheckStep, PrepareStep, CreateStep,
       WriteStep, SettledStep, RunTaskStep DEF Step
  <2>2. ASSUME NEW p \in Processes, Close(p) \/ Exit(p) \/ Start(p)
        PROVE  RequestInv'
    BY <2>2, CloseStep, ExitStep, StartStep
  <2> QED  BY <2>1, <2>2, TickStep DEF Next
<1> QED  BY <1>1, RequestInit, PTL DEF Spec

(* Whatever is repeated, where and when: a key has one job, and no request *)
(* is answered with a job of another key or of another content.            *)
THEOREM RequestsOnce == Spec => []RequestsAreOnce
<1>1. RequestInv => RequestsAreOnce
  BY DEF RequestInv, RequestsAreOnce, RowInv, KnowsInv, AnswersOwnRequest
<1> QED  BY <1>1, RequestInvariance, PTL

(* The counters of a process are its requests in preparation, and what a   *)
(* request reserved or pinned is released or handed to a task.             *)
THEOREM SlotsAccounted == Spec => []SlotsAreAccounted
<1>1. RequestInv => SlotsAreAccounted
  <2> SUFFICES ASSUME RequestInv PROVE SlotsAreAccounted
    OBVIOUS
  <2>1. SlotsMatchWork
    <3>1. \A p \in Processes, u \in Users :
            Working(p, u) = {r \in Requests : /\ Proc(r) = p /\ User(r) = u
                                              /\ req[r].pc \in Preparing \cup {"lease"}}
      BY DEF Working, Work, Counted
    <3> QED  BY <3>1 DEF RequestInv, SlotInv, SlotsMatchWork
  <2>2. NothingIsLeft
    BY DEF RequestInv, RowInv, HoldsInv, NothingIsLeft, Preparing, Ended, Underway
  <2>3. InFlightIsLive
    BY DEF RequestInv, FlightInv, InFlightIsLive, Over
  <2> QED  BY <2>1, <2>2, <2>3 DEF SlotsAreAccounted
<1> QED  BY <1>1, RequestInvariance, PTL
=============================================================================
