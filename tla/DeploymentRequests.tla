------------------------- MODULE DeploymentRequests -------------------------
(***************************************************************************)
(* The life of a deployment request (a dry run or a direct deployment)     *)
(* from its arrival at a web process to the answer of the client: requests *)
(* that repeat an idempotency key are coalesced inside a process and       *)
(* recognised in the database across processes, the preparation of a       *)
(* request holds a slot of the process, a row of the admission table all   *)
(* processes share, a reservation of the job queue and the pins of its     *)
(* sources, and the job it creates is handed to the queue.                 *)
(*                                                                         *)
(* One action stands for the code between two awaits.                      *)
(***************************************************************************)
EXTENDS Integers, FiniteSets, Functions

CONSTANTS Requests,       \* calls of DryRunService.create and createDirect
          Processes,      \* web processes that share the database
          Users, Keys,
          Loads,          \* what the requests may be: functions from Requests to
                          \* [proc, user, key, hash]
          MaximumPerUser, MaximumTotal,   \* the admission limits
          MaximumQueued,  \* capacity of the job queue
          LeaseTicks,     \* life of an admission row
          MaxExits,       \* bound: how often a process exits
          Mortal,         \* bound: the processes that may exit
          None

ASSUME LimitsAssumption == /\ MaximumPerUser \in Nat \ {0}
                           /\ MaximumTotal \in Nat \ {0}
                           /\ MaximumQueued \in Nat \ {0}
                           /\ LeaseTicks \in Nat \ {0}
                           /\ MaxExits \in Nat
                           /\ Mortal \subseteq Processes

ASSUME NoneAssumption == None \notin Requests \cup {"check", "answer", "fail", "run"}

ASSUME LoadsAssumption == \A load \in Loads, r \in Requests :
                            /\ load[r].proc \in Processes
                            /\ load[r].user \in Users
                            /\ load[r].key \in Keys

VARIABLES of,        \* the parameters of every request; never changes
          req,       \* the stack frame of every request
          inFlight,  \* per process and key, the request whose promise is shared
          active,    \* the counters of DeploymentAdmissionLimiter
          row,       \* the ticks an admission row has left, 0 without a live row
          job,       \* status of the job a request inserted
          task,      \* jobs in the queue of their process
          process,   \* "open", "closing" (queue closed) or "down"
          exits

vars == <<of, req, inFlight, active, row, job, task, process, exits>>

Key(r) == of[r].key
Proc(r) == of[r].proc
User(r) == of[r].user

Same(r, s) == Key(r) = Key(s) /\ of[r].hash = of[s].hash

Idle == [pc |-> "new", leader |-> None, slot |-> FALSE, deletes |-> FALSE, reserved |-> FALSE,
         pinned |-> FALSE, then |-> None, found |-> None, answer |-> None]

Preparing == {"recheck", "prepare", "create", "write"}
Ended == {"ended", "gone"}

TypeOK ==
  /\ of \in Loads
  /\ req \in [Requests -> [pc : {"new", "joined", "look", "lease", "settle"} \cup Preparing \cup Ended,
                           leader : Requests \cup {None}, slot : BOOLEAN, deletes : BOOLEAN,
                           reserved : BOOLEAN, pinned : BOOLEAN,
                           then : {None, "check", "answer", "fail", "run"},
                           found : Requests \cup {None}, answer : Requests \cup {None}]]
  /\ inFlight \in [Processes -> [Keys -> Requests \cup {None}]]
  /\ active \in [Processes -> [Users -> Nat]]
  /\ row \in [Requests -> 0 .. LeaseTicks]
  /\ job \in [Requests -> {"ABSENT", "QUEUED", "RAN", "FAILED"}]
  /\ task \subseteq Requests
  /\ process \in [Processes -> {"open", "closing", "down"}]
  /\ exits \in 0 .. MaxExits

Init ==
  /\ of \in Loads
  /\ req = [r \in Requests |-> Idle]
  /\ inFlight = [p \in Processes |-> [k \in Keys |-> None]]
  /\ active = [p \in Processes |-> [u \in Users |-> 0]]
  /\ row = [r \in Requests |-> 0]
  /\ job = [r \in Requests |-> "ABSENT"]
  /\ task = {}
  /\ process = [p \in Processes |-> "open"]
  /\ exits = 0

-----------------------------------------------------------------------------
(* The job a SELECT by user, kind and key finds.                           *)
Existing(r) == {s \in Requests : job[s] # "ABSENT" /\ Key(s) = Key(r)}

(* Mutant: only a success is forgotten.                                    *)
ForgetAnswered(r) ==
  inFlight' = [inFlight EXCEPT ![Proc(r)][Key(r)] = IF @ = r /\ job[r] # "ABSENT" THEN None ELSE @]

(* The request's promise settles: the finally of coalesceRequest forgets   *)
(* it when it is still the registered one.                                 *)
Forget(r) == inFlight' = [inFlight EXCEPT ![Proc(r)][Key(r)] = IF @ = r THEN None ELSE @]

End(r, answer) ==
  /\ req' = [req EXCEPT ![r].pc = "ended", ![r].answer = answer]
  /\ Forget(r)

(* releaseAdmission: the slot is given back at once, the row is deleted by *)
(* an awaited statement; both only the first time.                         *)
SlotsAfter(r) == [active EXCEPT ![Proc(r)][User(r)] = @ - (IF req[r].slot THEN 1 ELSE 0)]

(* Mutants of Settle: the counter goes down at every release; the slot is  *)
(* given back but what else is held is not.                                *)
SettleTwice(r, then, found) ==
  /\ req' = [req EXCEPT ![r] = [@ EXCEPT !.pc = "settle", !.then = then, !.found = found,
                                         !.slot = FALSE, !.deletes = req[r].slot,
                                         !.reserved = @ /\ then = "run",
                                         !.pinned = @ /\ then = "run"]]
  /\ active' = [active EXCEPT ![Proc(r)][User(r)] = @ - 1]

SettleKeeping(r, then, found) ==
  /\ req' = [req EXCEPT ![r] = [@ EXCEPT !.pc = "settle", !.then = then, !.found = found,
                                         !.slot = FALSE, !.deletes = req[r].slot,
                                         !.reserved = @ /\ then = "run"]]
  /\ active' = SlotsAfter(r)

(* Leaves the preparation: gives back what it holds (a job on its way to   *)
(* the queue keeps its reservation and its pins) and awaits the deletion   *)
(* of the row, then goes on as `then` says.                                *)
Settle(r, then, found) ==
  /\ req' = [req EXCEPT ![r] =
               [pc |-> "settle", then |-> then, found |-> found,
                slot |-> FALSE, deletes |-> @.slot,
                reserved |-> @.reserved /\ then = "run", pinned |-> @.pinned /\ then = "run",
                leader |-> @.leader, answer |-> @.answer]]
  /\ active' = SlotsAfter(r)

Fail(r) == Settle(r, "fail", None)

Goto(r, pc) == req' = [req EXCEPT ![r].pc = pc]

Live(r, pc) == req[r].pc = pc /\ process[Proc(r)] # "down"

-----------------------------------------------------------------------------
(* Mutant: whatever is in flight under the key is joined.                  *)
MayJoinAny(r, s) == Key(r) = Key(s)

(* create, createDirect up to the first await: an equal request in flight  *)
(* is joined, a different one under the same key is refused.               *)
MayJoin(r, s) == of[r].hash = of[s].hash

Arrive(r) ==
  /\ Live(r, "new")
  /\ LET leader == inFlight[Proc(r)][Key(r)] IN
       \/ /\ leader = None
          /\ Goto(r, "look")
          /\ inFlight' = [inFlight EXCEPT ![Proc(r)][Key(r)] = r]
       \/ /\ leader # None
          /\ req' = [req EXCEPT ![r].pc = IF MayJoin(r, leader) THEN "joined" ELSE "ended",
                                ![r].leader = leader]
          /\ UNCHANGED inFlight
  /\ UNCHANGED <<of, active, row, job, task, process, exits>>

(* A joined request gets whatever its leader got.                          *)
JoinedEnds(r) ==
  /\ Live(r, "joined")
  /\ req[req[r].leader].pc = "ended"
  /\ req' = [req EXCEPT ![r].pc = "ended", ![r].answer = req[req[r].leader].answer]
  /\ UNCHANGED <<of, inFlight, active, row, job, task, process, exits>>

(* DeploymentAdmissionLimiter.reserve                                      *)
SlotFree(r) ==
  LET used == active[Proc(r)] IN
  used[User(r)] < MaximumPerUser /\ FoldFunction(+, 0, used) < MaximumTotal

(* The first look-up of the key, then, synchronously, assertAccepting and  *)
(* the slot of the process.                                                *)
Look(r) ==
  /\ Live(r, "look")
  /\ \/ \E s \in Existing(r) : End(r, IF Same(r, s) THEN s ELSE None) /\ UNCHANGED active
     \/ /\ Existing(r) = {}
        /\ ~ (process[Proc(r)] = "open" /\ SlotFree(r))
        /\ End(r, None)
        /\ UNCHANGED active
     \/ /\ Existing(r) = {}
        /\ process[Proc(r)] = "open" /\ SlotFree(r)
        /\ req' = [req EXCEPT ![r].pc = "lease", ![r].slot = TRUE]
        /\ active' = [active EXCEPT ![Proc(r)][User(r)] = @ + 1]
        /\ UNCHANGED inFlight
  /\ UNCHANGED <<of, row, job, task, process, exits>>

(* DeploymentAdmissionRepository.reserve: expired rows do not count.       *)
RowFree(r) ==
  LET live == {s \in Requests : row[s] > 0} IN
  /\ Cardinality({s \in live : User(s) = User(r)}) < MaximumPerUser
  /\ Cardinality(live) < MaximumTotal

(* SingleJobQueue.reserve                                                  *)
QueueFree(p) ==
  /\ process[p] = "open"
  /\ Cardinality({s \in Requests : Proc(s) = p /\ req[s].reserved})
       + Cardinality({s \in task : Proc(s) = p}) < MaximumQueued

(* The row, then, synchronously, the reservation of the queue. When the    *)
(* table refuses, or its transaction fails, only the slot is given back.   *)
Lease(r) ==
  /\ Live(r, "lease")
  /\ \/ /\ req' = [req EXCEPT ![r].pc = "ended", ![r].slot = FALSE]
        /\ Forget(r)
        /\ active' = SlotsAfter(r)
        /\ UNCHANGED row
     \/ /\ RowFree(r)
        /\ row' = [row EXCEPT ![r] = LeaseTicks]
        /\ UNCHANGED inFlight
        /\ \/ /\ QueueFree(Proc(r))
              /\ req' = [req EXCEPT ![r].pc = "recheck", ![r].reserved = TRUE]
              /\ UNCHANGED active
           \/ ~ QueueFree(Proc(r)) /\ Fail(r)
  /\ UNCHANGED <<of, job, task, process, exits>>

(* The second look-up; a hit is given back before its hash is compared.    *)
Recheck(r) ==
  /\ Live(r, "recheck")
  /\ \/ \E s \in Existing(r) : Settle(r, "check", s)
     \/ Existing(r) = {} /\ Goto(r, "prepare") /\ UNCHANGED active
  /\ UNCHANGED <<of, inFlight, row, job, task, process, exits>>

(* Storage check and prepare, which pins the sources as its last step;     *)
(* both may fail, and the queue may have closed meanwhile.                 *)
Prepare(r) ==
  /\ Live(r, "prepare")
  /\ \/ /\ process[Proc(r)] = "open"
        /\ req' = [req EXCEPT ![r].pc = "create", ![r].pinned = TRUE]
        /\ UNCHANGED active
     \/ Fail(r)
  /\ UNCHANGED <<of, inFlight, row, job, task, process, exits>>

(* Mutant: the transaction trusts the look-ups made before it.             *)
InsertableUnseen(r) == TRUE

(* createDryRunJob, createDirectDeployment: one transaction looks the key  *)
(* up and inserts. It may fail without a trace, and the read that follows  *)
(* the commit may fail with the job in place.                              *)
Insertable(r) == Existing(r) = {}

Create(r) ==
  /\ Live(r, "create")
  /\ \/ /\ Insertable(r)
        /\ job' = [job EXCEPT ![r] = "QUEUED"]
        /\ (Goto(r, "write") /\ UNCHANGED active) \/ Fail(r)
     \/ /\ ~ Insertable(r)
        /\ \E s \in Existing(r) : IF Same(r, s) THEN Settle(r, "answer", s) ELSE Fail(r)
        /\ UNCHANGED job
     \/ Fail(r) /\ UNCHANGED job
  /\ UNCHANGED <<of, inFlight, row, task, process, exits>>

(* materializeSelectedManifest; after a failure the job is marked FAILED,  *)
(* unless that fails as well.                                              *)
Write(r) ==
  /\ Live(r, "write")
  /\ \/ Settle(r, "run", r) /\ UNCHANGED job
     \/ /\ Fail(r)
        /\ job' = [job EXCEPT ![r] = IF @ = "QUEUED" THEN "FAILED" ELSE @]
     \/ Fail(r) /\ UNCHANGED job
  /\ UNCHANGED <<of, inFlight, row, task, process, exits>>

(* Mutant of Enqueue: the reservation is consumed, the task is not queued. *)
EnqueueNothing(r) ==
  /\ req[r].then = "run"
  /\ req' = [req EXCEPT ![r] = [@ EXCEPT !.pc = "ended", !.answer = r, !.reserved = FALSE,
                                         !.pinned = FALSE]]
  /\ task' = task
  /\ Forget(r)
  /\ UNCHANGED active

(* The row is deleted and the request goes on: the job is enqueued, which  *)
(* a closed queue refuses without telling the client; a hit of Recheck is  *)
(* compared, and a mismatch runs the catch, which releases once more.      *)
Enqueue(r) ==
  /\ req[r].then = "run"
  /\ req' = [req EXCEPT ![r] = [req[r] EXCEPT !.pc = "ended", !.answer = r, !.reserved = FALSE,
                                         !.pinned = process[Proc(r)] = "open"]]
  /\ task' = IF process[Proc(r)] = "open" THEN task \cup {r} ELSE task
  /\ Forget(r)
  /\ UNCHANGED active

(* Mutant: a hit whose hash differs is never concluded.                    *)
ConcludeHits(r) ==
  \/ /\ req[r].then = "fail" \/ (req[r].then \in {"check", "answer"} /\ Same(r, req[r].found))
     /\ End(r, req[r].found) /\ UNCHANGED <<active, task>>
  \/ Enqueue(r)

Conclude(r) ==
  \/ /\ req[r].then = "check" /\ ~ Same(r, req[r].found)
     /\ Fail(r) /\ UNCHANGED <<inFlight, task>>
  \/ /\ req[r].then = "fail" \/ (req[r].then \in {"check", "answer"} /\ Same(r, req[r].found))
     /\ End(r, req[r].found) /\ UNCHANGED <<active, task>>
  \/ Enqueue(r)

Settled(r) ==
  /\ Live(r, "settle")
  /\ row' = IF req[r].deletes THEN [row EXCEPT ![r] = 0] ELSE row
  /\ Conclude(r)
  /\ UNCHANGED <<of, job, process, exits>>

(* The awaited deletion fails: its error takes the place of the outcome.   *)
(* Inside the try of the second look-up that runs the catch; after the job *)
(* was written nothing catches it.                                         *)
SettleFails(r) ==
  /\ Live(r, "settle") /\ req[r].deletes
  /\ \/ req[r].then = "check" /\ Fail(r) /\ UNCHANGED inFlight
     \/ req[r].then # "check" /\ End(r, None) /\ UNCHANGED active
  /\ UNCHANGED <<of, row, job, task, process, exits>>

-----------------------------------------------------------------------------
(* A task of the queue is over: it runs only a job that is still QUEUED,   *)
(* and the pins go in the finally whatever happened.                       *)
RunTask(r) ==
  /\ r \in task /\ process[Proc(r)] # "down"
  /\ task' = task \ {r}
  /\ job' = [job EXCEPT ![r] = IF @ = "QUEUED" THEN "RAN" ELSE @]
  /\ req' = [req EXCEPT ![r].pinned = FALSE]
  /\ UNCHANGED <<of, inFlight, active, row, process, exits>>

Tick ==
  /\ \E r \in Requests : row[r] > 0
  /\ row' = [r \in Requests |-> IF row[r] > 0 THEN row[r] - 1 ELSE 0]
  /\ UNCHANGED <<of, req, inFlight, active, job, task, process, exits>>

(* shutdown stops the queue; it does not wait for requests in preparation. *)
Close(p) ==
  /\ process[p] = "open" /\ p \in Mortal /\ exits < MaxExits
  /\ process' = [process EXCEPT ![p] = "closing"]
  /\ UNCHANGED <<of, req, inFlight, active, row, job, task, exits>>

(* The process ends or dies: its memory is gone, the rows and jobs stay.   *)
Exit(p) ==
  /\ process[p] # "down" /\ p \in Mortal /\ exits < MaxExits
  /\ process' = [process EXCEPT ![p] = "down"]
  /\ exits' = exits + 1
  /\ req' = [r \in Requests |->
               IF Proc(r) = p /\ req[r].pc # "new"
               THEN [req[r] EXCEPT !.pc = IF @ = "ended" THEN @ ELSE "gone", !.slot = FALSE,
                                   !.reserved = FALSE, !.pinned = FALSE]
               ELSE req[r]]
  /\ inFlight' = [inFlight EXCEPT ![p] = [k \in Keys |-> None]]
  /\ active' = [active EXCEPT ![p] = [u \in Users |-> 0]]
  /\ task' = {r \in task : Proc(r) # p}
  /\ UNCHANGED <<of, row, job>>

(* A process starts: recoverInterruptedJobs fails every QUEUED job.        *)
Start(p) ==
  /\ process[p] = "down"
  /\ process' = [process EXCEPT ![p] = "open"]
  /\ job' = [r \in Requests |-> IF job[r] = "QUEUED" THEN "FAILED" ELSE job[r]]
  /\ UNCHANGED <<of, req, inFlight, active, row, task, exits>>

Step(r) == \/ JoinedEnds(r) \/ Look(r) \/ Lease(r) \/ Recheck(r)
           \/ Prepare(r) \/ Create(r) \/ Write(r) \/ Settled(r)

Next ==
  \/ \E r \in Requests : Arrive(r) \/ Step(r) \/ SettleFails(r) \/ RunTask(r)
  \/ \E p \in Processes : Close(p) \/ Exit(p) \/ Start(p)
  \/ Tick

Spec == Init /\ [][Next]_vars

(* Every await of a request is answered, and a process that is down is     *)
(* started again; clients, deletions that fail and exits are not promised. *)
FairSpec == /\ Spec
            /\ \A r \in Requests : WF_vars(Step(r)) /\ WF_vars(RunTask(r))
            /\ \A p \in Processes : WF_vars(Start(p))

-----------------------------------------------------------------------------
(* A key of a user stands for one job, whatever the processes, the retries *)
(* and the crashes between a commit and its answer.                        *)
OneJobPerKey ==
  \A r, s \in Requests : r # s /\ Key(r) = Key(s) => "ABSENT" \in {job[r], job[s]}

(* A client is only ever given a job that was created for the same key and *)
(* the same request, by whatever way its own request was answered.         *)
AnswersOwnRequest ==
  \A r \in Requests : req[r].answer # None =>
    Same(r, req[r].answer) /\ job[req[r].answer] # "ABSENT"

(* The counters of a process count exactly the requests in preparation:    *)
(* every way out of a preparation gives its slot back once.                *)
SlotsMatchWork ==
  \A p \in Processes, u \in Users :
    active[p][u] = Cardinality({r \in Requests :
                     /\ Proc(r) = p /\ User(r) = u
                     /\ req[r].pc \in Preparing \cup {"lease"}})

(* A request that has ended leaves nothing behind: a reservation or a pin  *)
(* is held by a request still under way or by a job in the queue. The one  *)
(* exception of the code is a deletion that fails after the job exists.    *)
Stranded(r) == req[r].pc = "ended" /\ req[r].then = "run" /\ req[r].answer = None

NothingIsLeft ==
  \A r \in Requests :
    (req[r].reserved \/ req[r].pinned) /\ ~ Stranded(r) => req[r].pc \notin Ended \/ r \in task

(* A promise that later requests of the process would join is still to be  *)
(* settled: nobody is given the error of a request that is over.           *)
InFlightIsLive ==
  \A p \in Processes, k \in Keys :
    inFlight[p][k] # None => req[inFlight[p][k]].pc \notin Ended \cup {"new", "joined"}

(* A job that was announced to its creator is in the queue or no longer    *)
(* waiting, as long as the process has not begun to shut down.             *)
AnnouncedJobIsQueued ==
  \A r \in Requests :
    req[r].answer = r /\ job[r] = "QUEUED" => r \in task \/ process[Proc(r)] # "open"

(* A key has one job, whatever is repeated where; a request is answered    *)
(* with the job it asked for, and one announced is in the queue.           *)
RequestsAreOnce == TypeOK /\ OneJobPerKey /\ AnswersOwnRequest /\ AnnouncedJobIsQueued

(* Every slot belongs to work, a request that ended holds none, and a      *)
(* request somebody waits for is under way.                                *)
SlotsAreAccounted == SlotsMatchWork /\ NothingIsLeft /\ InFlightIsLive

(* Every request is answered, or dies with its process.                    *)
RequestEnds == \A r \in Requests : req[r].pc = "look" ~> req[r].pc \in Ended

-----------------------------------------------------------------------------
(* What is explored: three requests under one key, two of them the same    *)
(* and in the two processes or in one, and three different keys, for which *)
(* the limits matter.                                                      *)
Ask(p, key, hash) == [proc |-> p, user |-> CHOOSE u \in Users : TRUE, key |-> key, hash |-> hash]

MCLoads ==
  LET first  == CHOOSE r \in Requests : TRUE
      second == CHOOSE r \in Requests : r # first
      here   == CHOOSE p \in Mortal : TRUE
      there  == CHOOSE p \in Processes : p # here
      Load(key1, key2, key3, hash) ==
        [r \in Requests |-> CASE r = first  -> Ask(here, key1, "h")
                              [] r = second -> Ask(here, key2, hash)
                              [] OTHER      -> Ask(there, key3, "h")]
  IN {Load("k1", "k1", "k1", hash) : hash \in {"h", "x"}} \cup {Load("k1", "k2", "k3", "h")}
=============================================================================
