----------------------------- MODULE Comparisons ----------------------------
(***************************************************************************)
(* ComparisonService.create and execute, ComparisonJobRepository, and the  *)
(* part the runtime's shutdown plays: a request reserves a place, prepares *)
(* its sources, pins them, inserts its job and enqueues the task; the task *)
(* compares, writes its artifact and commits; the shutdown stops the queue *)
(* while requests are still preparing, recovers the jobs and closes the    *)
(* storage of the sources and the database.                                *)
(***************************************************************************)
EXTENDS ManagedProjects, Sequences

CONSTANTS Comparisons,
          Uses(_),        \* the managed projects a comparison reads ...
          Registered,     \* ... those it has to import itself first
          Concurrency, MaximumQueued,
          MaxFaults, MaxRestarts

(* A registered source stands for the directory one comparison imports     *)
(* into: no other comparison has to do with it.                            *)
ComparisonsAssumption ==
  /\ Registered \subseteq Projects /\ \A c \in Comparisons : Uses(c) \subseteq Projects
  /\ \A c, d \in Comparisons : c # d => Uses(c) \cap Uses(d) \cap Registered = {}
  /\ Concurrency \in Nat \ {0} /\ MaximumQueued \in Nat
  /\ MaxFaults \in Nat /\ MaxRestarts \in Nat

VARIABLES
  req,        \* per comparison: the request, and what it holds
  row,        \* comparison_jobs.status, "none" before the INSERT
  artifact,   \* the comparisons whose result file is in place
  task,       \* where the task is
  pinned,     \* the comparisons whose releaseSources was not called
  waiting,    \* the pending tasks of the queue
  phase,      \* of the server's life
  aborting,   \* the queue was aborted
  bounds      \* faults and restarts so far

vars == <<storageVars, req, row, artifact, task, pinned, waiting, phase, aborting, bounds>>

Status  == {"QUEUED", "RUNNING", "SUCCEEDED", "FAILED"}
Steps   == {"new", "prepare", "pin", "resolve", "create", "readback", "reject", "discard", "remove", "ended"}
Working == {"start", "compare", "write", "commit", "fail"}
Own(c)  == Uses(c) \cap Registered

TypeOK ==
  /\ StorageTypeOK
  /\ req \in [Comparisons -> [pc : Steps, reserved : BOOLEAN,
                              prepared : SUBSET Registered, held : SUBSET Registered]]
  /\ row \in [Comparisons -> Status \cup {"none"}]
  /\ artifact \subseteq Comparisons /\ pinned \subseteq Comparisons
  /\ task \in [Comparisons -> Working \cup {"none", "waiting", "ended"}]
  /\ waiting \in Seq(Comparisons)
  /\ phase \in {"open", "stopping", "recovered", "closed"} /\ aborting \in BOOLEAN
  /\ bounds \in [faults : 0 .. MaxFaults, restarts : 0 .. MaxRestarts]

Fresh == [pc |-> "new", reserved |-> FALSE, prepared |-> {}, held |-> {}]

Init ==
  /\ project = [p \in Projects |-> IF p \in Registered THEN [state |-> "none", pins |-> 0, timer |-> FALSE]
                                   ELSE [state |-> "ready", pins |-> 0, timer |-> TRUE]]
  /\ storage = "open"
  /\ req = [c \in Comparisons |-> Fresh]
  /\ row = [c \in Comparisons |-> "none"]
  /\ task = [c \in Comparisons |-> "none"]
  /\ artifact = {} /\ pinned = {} /\ waiting = <<>>
  /\ phase = "open" /\ aborting = FALSE
  /\ bounds = [faults |-> 0, restarts |-> 0]

At(c, pc) == req[c].pc = pc
Goto(c, pc) == req' = [req EXCEPT ![c].pc = pc]
accepting == phase = "open"
Reserved == {c \in Comparisons : req[c].reserved}
Lanes == {c \in Comparisons : task[c] \in Working}

(* A statement or a file operation fails; every one does once the database *)
(* is closed.                                                              *)
Fault == \/ phase = "closed" /\ UNCHANGED bounds
         \/ bounds.faults < MaxFaults /\ bounds' = [bounds EXCEPT !.faults = @ + 1]
Works == phase # "closed" /\ UNCHANGED bounds

-----------------------------------------------------------------------------
(* create: one await after the other                                       *)
Reserve(c) ==
  /\ At(c, "new") /\ accepting
  /\ Len(waiting) + Cardinality(Reserved) < MaximumQueued
  /\ req' = [req EXCEPT ![c].pc = "prepare", ![c].reserved = TRUE]
  /\ UNCHANGED <<storageVars, row, artifact, task, pinned, waiting, phase, aborting, bounds>>

(* prepareSource of a registered branch imports it, and pins it as soon as *)
(* the import is finished; any other source is taken as it is.             *)
Prepare(c) ==
  /\ At(c, "prepare")
  /\ IF Own(c) = req[c].prepared
     THEN Goto(c, "resolve") /\ UNCHANGED project
     ELSE \E p \in Own(c) \ req[c].prepared :
            IF phase = "open"
            THEN /\ project' = [project EXCEPT ![p].state = "ready", ![p].timer = TRUE]
                 /\ Goto(c, "pin")
            ELSE Goto(c, "discard") /\ UNCHANGED project
  /\ UNCHANGED <<storage, row, artifact, task, pinned, waiting, phase, aborting, bounds>>

PrepareFails(c) ==
  /\ At(c, "prepare") /\ Own(c) # req[c].prepared
  /\ Fault
  /\ Goto(c, "discard")
  /\ UNCHANGED <<storageVars, row, artifact, task, pinned, waiting, phase, aborting>>

PinPrepared(c) ==
  /\ At(c, "pin")
  /\ \E p \in Own(c) \ req[c].prepared :
       \/ /\ PinProject(p)
          /\ req' = [req EXCEPT ![c].pc = "prepare", ![c].prepared = @ \cup {p}, ![c].held = @ \cup {p}]
       \/ /\ project[p].state # "ready"
          /\ Goto(c, "discard") /\ UNCHANGED project
  /\ UNCHANGED <<storage, row, artifact, task, pinned, waiting, phase, aborting, bounds>>

(* Mutant: the sources are looked up but not pinned.                       *)
PinNone(c) == project

(* pinSources: all of them, or none when one is gone                       *)
PinAll(c) ==
  [p \in Projects |-> IF p \in Uses(c) THEN [project[p] EXCEPT !.pins = @ + 1, !.timer = FALSE]
                      ELSE project[p]]

(* createPrepared up to the INSERT: every look at a source or at the queue *)
(* may end it, the pins come last.                                         *)
Resolve(c) ==
  /\ At(c, "resolve")
  /\ IF (\A p \in Uses(c) : project[p].state = "ready") /\ accepting
     THEN project' = PinAll(c) /\ pinned' = pinned \cup {c} /\ Goto(c, "create")
     ELSE Goto(c, "discard") /\ UNCHANGED <<project, pinned>>
  /\ UNCHANGED <<storage, row, artifact, task, waiting, phase, aborting, bounds>>

(* A set of pins given back, the last one of a project starting its timer. *)
Unpinned(store, ps) ==
  [p \in Projects |-> IF p \in ps
     THEN [store[p] EXCEPT !.pins = @ - 1,
                           !.timer = @ \/ (store[p].pins = 1 /\ store[p].state = "ready")]
     ELSE store[p]]

(* releaseSources gives the pins back once, however often it is called.    *)
(* Mutant: it is forgotten.                                                *)
ReleasedNever(c) == project
Released(c) == IF c \in pinned THEN Unpinned(project, Uses(c)) ELSE project

InsertFails(c) ==
  /\ At(c, "create")
  /\ Fault
  /\ project' = Released(c) /\ pinned' = pinned \ {c}
  /\ Goto(c, "discard")
  /\ UNCHANGED <<storage, row, artifact, task, waiting, phase, aborting>>

Insert(c) ==
  /\ At(c, "create") /\ Works
  /\ row' = [row EXCEPT ![c] = "QUEUED"]
  /\ Goto(c, "readback")
  /\ UNCHANGED <<storageVars, artifact, task, pinned, waiting, phase, aborting>>

ReadBackFails(c) ==
  /\ At(c, "readback")
  /\ Fault
  /\ project' = Released(c) /\ pinned' = pinned \ {c}
  /\ Goto(c, "discard")
  /\ UNCHANGED <<storage, row, artifact, task, waiting, phase, aborting>>

(* drain of the queue                                                      *)
Drain(tasks, queue) ==
  LET free == Concurrency - Cardinality({c \in Comparisons : tasks[c] \in Working})
      n == IF Len(queue) < free THEN Len(queue) ELSE free
      started == {queue[k] : k \in 1 .. n}
  IN  /\ waiting' = SubSeq(queue, n + 1, Len(queue))
      /\ task' = [c \in Comparisons |-> IF c \in started THEN "start" ELSE tasks[c]]

(* What a request holds when it returns: nothing (the finally of create).  *)
(* Mutant: the pins of the preparation stay until the process ends.        *)
EndedHolding(c) == [req EXCEPT ![c].pc = "ended", ![c].reserved = FALSE]
Ended(c) == [req EXCEPT ![c].pc = "ended", ![c].reserved = FALSE, ![c].held = {}]

(* The job is enqueued and the request answered; a closed queue refuses    *)
(* the task, which gives the pins back and fails the job.                  *)
Enqueue(c) ==
  /\ At(c, "readback") /\ Works
  /\ IF accepting
     THEN /\ req' = Ended(c) /\ project' = Unpinned(project, req[c].held)
          /\ Drain([task EXCEPT ![c] = "waiting"], Append(waiting, c))
          /\ UNCHANGED pinned
     ELSE /\ req' = [req EXCEPT ![c].pc = "reject", ![c].reserved = FALSE, ![c].held = {}]
          /\ project' = Unpinned(Released(c), req[c].held) /\ pinned' = pinned \ {c}
          /\ UNCHANGED <<task, waiting>>
  /\ UNCHANGED <<storage, row, artifact, phase, aborting>>

(* Mutants: what the job's status is does not matter; a waiting job is not *)
(* failed.                                                                 *)
MarkedFailedRunning(c) == IF row[c] = "RUNNING" THEN [row EXCEPT ![c] = "FAILED"] ELSE row
MarkedFailedAlways(c) == [row EXCEPT ![c] = "FAILED"]
MarkedFailed(c) == IF row[c] \in {"QUEUED", "RUNNING"} THEN [row EXCEPT ![c] = "FAILED"] ELSE row

Reject(c) ==
  /\ At(c, "reject")
  /\ \/ Works /\ row' = MarkedFailed(c)
     \/ Fault /\ UNCHANGED row
  /\ Goto(c, "ended")
  /\ UNCHANGED <<storageVars, artifact, task, pinned, waiting, phase, aborting>>

(* After an error everything the request prepared itself is unpinned and   *)
(* removed, one source after the other; a failing removal is ignored.      *)
Discard(c) ==
  /\ At(c, "discard")
  /\ IF \E p \in req[c].prepared : project[p].state = "ready"
     THEN \E p \in req[c].prepared :
            /\ project[p].state = "ready"
            /\ LET store == Unpinned(project, req[c].held \cap {p})
               IN  IF store[p].pins = 0 THEN project' = [store EXCEPT ![p].state = "deleting", ![p].timer = FALSE]
                   ELSE project' = store
            /\ req' = [req EXCEPT ![c].pc = "remove", ![c].held = @ \ {p}]
     ELSE /\ project' = Unpinned(project, req[c].held)
          /\ req' = Ended(c)
  /\ UNCHANGED <<storage, row, artifact, task, pinned, waiting, phase, aborting, bounds>>

Removed(c) ==
  /\ At(c, "remove")
  /\ \E p \in req[c].prepared, ok \in BOOLEAN :
       /\ IF ok THEN UNCHANGED bounds ELSE Fault
       /\ DeletionEnds(p, ok)
  /\ Goto(c, "discard")
  /\ UNCHANGED <<storage, row, artifact, task, pinned, waiting, phase, aborting>>

-----------------------------------------------------------------------------
(* execute, and the finally of the task that gives the sources back        *)
Step(c, from, to) == task[c] = from /\ task' = [task EXCEPT ![c] = to]

(* Mutant: the lane that became free is not used.                          *)
TaskEndsUndrained(c) ==
  /\ project' = Released(c) /\ pinned' = pinned \ {c}
  /\ task' = [task EXCEPT ![c] = "ended"] /\ UNCHANGED waiting

TaskEnds(c) ==
  /\ project' = Released(c) /\ pinned' = pinned \ {c}
  /\ Drain([task EXCEPT ![c] = "ended"], waiting)

(* The row may be read back in vain when it is RUNNING: the task ends, and *)
(* only the next start finds the row.                                      *)
MarkRunning(c) ==
  /\ task[c] = "start"
  /\ \/ /\ Works /\ row[c] = "QUEUED"
        /\ row' = [row EXCEPT ![c] = "RUNNING"]
        /\ task' = [task EXCEPT ![c] = "compare"] /\ UNCHANGED <<waiting, project, pinned>>
     \/ (Fault \/ (row[c] # "QUEUED" /\ UNCHANGED bounds)) /\ TaskEnds(c) /\ UNCHANGED row
     \/ /\ Fault /\ row[c] = "QUEUED" /\ phase # "closed" /\ row' = [row EXCEPT ![c] = "RUNNING"]
        /\ TaskEnds(c)
  /\ UNCHANGED <<storage, req, artifact, phase, aborting>>

Compare(c) ==
  /\ \/ ~aborting /\ Step(c, "compare", "write") /\ UNCHANGED bounds
     \/ aborting /\ Step(c, "compare", "fail") /\ UNCHANGED bounds
     \/ Fault /\ Step(c, "compare", "fail")
  /\ UNCHANGED <<storageVars, req, row, artifact, pinned, waiting, phase, aborting>>

(* Mutant: the row is written first, the result file afterwards.           *)
WriteNothing(c) ==
  /\ Step(c, "write", "commit") /\ UNCHANGED <<bounds, artifact>>
  /\ UNCHANGED <<storageVars, req, row, pinned, waiting, phase, aborting>>

WriteArtifact(c) ==
  /\ \/ Step(c, "write", "commit") /\ artifact' = artifact \cup {c} /\ UNCHANGED bounds
     \/ Fault /\ Step(c, "write", "fail") /\ UNCHANGED artifact
  /\ UNCHANGED <<storageVars, req, row, pinned, waiting, phase, aborting>>

(* markSucceeded's transaction; what fails after the commit, such as the   *)
(* read-back, sends the task to markFailed all the same.                   *)
Commit(c) ==
  /\ task[c] = "commit"
  /\ \/ /\ Works /\ row[c] = "RUNNING" /\ row' = [row EXCEPT ![c] = "SUCCEEDED"] /\ TaskEnds(c)
     \/ /\ Fault /\ row[c] = "RUNNING" /\ phase # "closed" /\ row' = [row EXCEPT ![c] = "SUCCEEDED"]
        /\ Step(c, "commit", "fail") /\ UNCHANGED <<project, pinned, waiting>>
     \/ /\ Fault \/ (row[c] # "RUNNING" /\ UNCHANGED bounds)
        /\ Step(c, "commit", "fail") /\ UNCHANGED <<row, project, pinned, waiting>>
  /\ UNCHANGED <<storage, req, artifact, phase, aborting>>

MarkFailed(c) ==
  /\ task[c] = "fail"
  /\ \/ Works /\ row' = MarkedFailed(c)
     \/ Fault /\ UNCHANGED row
  /\ TaskEnds(c)
  /\ UNCHANGED <<storage, req, artifact, phase, aborting>>

-----------------------------------------------------------------------------
(* The user removes a source nobody uses, or its time is over.             *)
RemoveSource(p) ==
  /\ Discardable(p) /\ phase # "closed" /\ ~ \E c \in Comparisons : p \in req[c].prepared /\ req[c].pc = "remove"
  /\ project' = [project EXCEPT ![p].state = "gone", ![p].timer = FALSE]
  /\ UNCHANGED <<storage, req, row, artifact, task, pinned, waiting, phase, aborting, bounds>>

Stop ==
  /\ phase = "open" /\ phase' = "stopping"
  /\ UNCHANGED <<storageVars, req, row, artifact, task, pinned, waiting, aborting, bounds>>

Idle == Lanes = {} /\ waiting = <<>>

Abort ==
  /\ phase = "stopping" /\ ~Idle /\ aborting' = TRUE
  /\ UNCHANGED <<storageVars, req, row, artifact, task, pinned, waiting, phase, bounds>>

(* Mutant: only the jobs that were running are recovered.                  *)
RecoverRunning == row' = [c \in Comparisons |-> IF row[c] = "RUNNING" THEN "FAILED" ELSE row[c]]

RecoverInterrupted ==
  row' = [c \in Comparisons |-> IF row[c] \in {"QUEUED", "RUNNING"} THEN "FAILED" ELSE row[c]]

(* The shutdown recovers once the queue is idle. The sources in use by a   *)
(* request keep it from closing: it fails and is begun again.              *)
Recover ==
  /\ phase = "stopping" /\ Idle /\ phase' = "recovered"
  /\ RecoverInterrupted
  /\ UNCHANGED <<storageVars, req, artifact, task, pinned, waiting, aborting, bounds>>

Close ==
  /\ phase = "recovered"
  /\ \/ CloseStorage /\ phase' = "closed"
     \/ (\E p \in Projects : project[p].pins > 0) /\ phase' = "stopping" /\ UNCHANGED storageVars
  /\ UNCHANGED <<req, row, artifact, task, pinned, waiting, aborting, bounds>>

(* The process ends at any point and a new one recovers what it finds; of  *)
(* the sources nothing is left.                                            *)
Restart ==
  /\ bounds.restarts < MaxRestarts /\ bounds' = [bounds EXCEPT !.restarts = @ + 1]
  /\ RecoverInterrupted
  /\ project' = [p \in Projects |-> IF p \in Registered /\ project[p].state = "none"
                                    THEN project[p] ELSE [state |-> "gone", pins |-> 0, timer |-> FALSE]]
  /\ storage' = "open" /\ phase' = "open" /\ aborting' = FALSE
  /\ req' = [c \in Comparisons |-> [Fresh EXCEPT !.pc = IF req[c].pc = "new" THEN "new" ELSE "ended"]]
  /\ task' = [c \in Comparisons |-> IF task[c] = "none" THEN "none" ELSE "ended"]
  /\ pinned' = {} /\ waiting' = <<>>
  /\ UNCHANGED artifact

Request(c) ==
  \/ Prepare(c) \/ PrepareFails(c) \/ PinPrepared(c) \/ Resolve(c) \/ InsertFails(c) \/ Insert(c)
  \/ ReadBackFails(c) \/ Enqueue(c) \/ Reject(c) \/ Discard(c) \/ Removed(c)

Execute(c) == MarkRunning(c) \/ Compare(c) \/ WriteArtifact(c) \/ Commit(c) \/ MarkFailed(c)

Next == \/ \E c \in Comparisons : Reserve(c) \/ Request(c) \/ Execute(c)
        \/ \E p \in Projects : RemoveSource(p)
        \/ Stop \/ Abort \/ Recover \/ Close \/ Restart

Spec == Init /\ [][Next]_vars

(* Requests and tasks go on; nobody has to start or stop anything.         *)
Fairness == \A c \in Comparisons : WF_vars(Request(c)) /\ WF_vars(Execute(c))

FairSpec == Spec /\ Fairness

-----------------------------------------------------------------------------
(* The files a task is going to read, or reads, are there from the moment  *)
(* the job exists until the task has ended.                                *)
SourcesArePresent ==
  \A c \in Comparisons :
    At(c, "create") \/ At(c, "readback") \/ task[c] \in Working \cup {"waiting"}
      => \A p \in Uses(c) : project[p].state = "ready"

(* Every pin has a holder: a request that prepared the project, or a job   *)
(* between its pinSources and the end of its task.                         *)
PinsAreHeld ==
  \A p \in Projects :
    project[p].pins = Cardinality({c \in Comparisons : p \in req[c].held})
                      + Cardinality({c \in pinned : p \in Uses(c)})

(* A request that ended holds no place and no pin of its own, and after a  *)
(* failure no directory either, unless its deletion failed.                *)
NothingIsLeft ==
  \A c \in Comparisons : At(c, "ended") =>
    /\ ~req[c].reserved /\ req[c].held = {}
    /\ c \in pinned => task[c] \in Working \cup {"waiting"}
    /\ row[c] = "none" => \A p \in req[c].prepared : project[p].state \in {"gone", "undeleted"}

(* A job that is waiting or running is carried by a request or by a task;  *)
(* only a failing or a closed database can leave one to the next start.    *)
JobIsCarried ==
  \A c \in Comparisons :
    /\ row[c] = "QUEUED" => \/ At(c, "readback") \/ At(c, "reject") \/ task[c] \in {"waiting", "start"}
                            \/ bounds.faults > 0 \/ phase = "closed"
    /\ row[c] = "RUNNING" => task[c] \in Working \ {"start"} \/ bounds.faults > 0

(* The result of a job that succeeded can be read.                         *)
SuccessHasResult == \A c \in Comparisons : row[c] = "SUCCEEDED" => c \in artifact

(* No more tasks run than there are lanes.                                 *)
LanesWithinLimit == Cardinality(Lanes) <= Concurrency

(* The first final status stays, also when the read-back after the commit  *)
(* fails and when recovery and late writes of a task meet.                 *)
FinalIsFinal ==
  [][\A c \in Comparisons : row[c] \in {"SUCCEEDED", "FAILED"} => row'[c] = row[c]]_vars

(* When the server starts again no job of the past is waiting or running.  *)
RestartEndsJobs ==
  [][bounds'.restarts > bounds.restarts => \A c \in Comparisons : row'[c] \notin {"QUEUED", "RUNNING"}]_vars

(* Every job of a request ends, with or without a shutdown in between.     *)
JobEnds ==
  \A c \in Comparisons :
    row[c] \in {"QUEUED", "RUNNING"}
      ~> (row[c] \in {"SUCCEEDED", "FAILED"} \/ bounds.faults > 0 \/ phase = "closed")
=============================================================================
