------------------------ MODULE DeploymentJobsProofs ------------------------
(***************************************************************************)
(* Safety of the deployment jobs for any number of jobs, Salesforce ids    *)
(* and actors.  Three invariants build on each other: the types, where a   *)
(* submission can be under way (SubmissionInv), and what the program knows *)
(* of it (TruthInv).  The third needs administrators who bind the right id.*)
(***************************************************************************)
EXTENDS DeploymentJobs, FiniteSetTheorems, TLAPS

Acting(j)    == worker[j].pc \notin {"idle", "queued", "verifying"}
NotStarted(j) == job[j].status \in {"ABSENT", "QUEUED"}
Kept(j)      == pending[j] # None \/ (retrying # None /\ retrying.job = j)
Reconciling(a, j) == rec[a].pc # "idle" /\ rec[a].job = j

(* What a reconciler carries from one transaction to the next.             *)
RecInv ==
  \A a \in Actors :
    /\ rec[a].pc # "idle" => rec[a].job \in Jobs /\ rec[a].report \in {"running"} \cup Done
    /\ rec[a].pc = "recorded" => rec[a].report # "running"

TypeInv == TypeOK /\ RecInv

(* A remote operation has one owner, whose start command was accepted.     *)
OwnersInv ==
  /\ \A r \in Remotes : remote[r].state = "absent" <=> remote[r].owner = None
  /\ \A r \in Remotes : remote[r].owner # None => call[remote[r].owner] = "accepted"
  /\ \A r, s \in Remotes : remote[r].owner # None /\ remote[r].owner = remote[s].owner => r = s

(* Who may touch a job, by its status: a working task means a running      *)
(* status, a kept completion means that the task has done its work, a      *)
(* reconciliation that it is over, a recovery that there is none.          *)
RolesInv ==
  /\ \A j \in Jobs : Acting(j) => job[j].status \in Running
  /\ \A j \in Jobs : worker[j].pc = "verifying" => ~NotStarted(j)
  /\ \A j \in Jobs : Kept(j) => ~Acting(j) /\ ~NotStarted(j)
  /\ \A a \in Actors, j \in Jobs : Reconciling(a, j) =>
       job[j].status \in {"RECONCILE_REQUIRED"} \cup Completed
  /\ phase \notin {"up", "stopping"} => \A j \in Jobs : worker[j].pc = "idle"

(* Before its task submits, nothing of a job is on its way.                *)
NotSentInv ==
  \A j \in Jobs : NotStarted(j) \/ worker[j].pc \in {"preparing", "intending", "submitting"}
                    => call[j] = "none"

SubmissionInv == OwnersInv /\ RolesInv /\ NotSentInv

-----------------------------------------------------------------------------
(* The values of the rows, as TypeOK has them.                             *)
JobRow      == [status : Statuses, prepared : BOOLEAN,
                sfId : Remotes \cup {None}, dryRun : DryRuns \cup {None}]
AttemptRow  == [state : {"NONE", "SUBMITTING", "SUBMITTED", "TERMINAL"},
                op : {None, "VALIDATE", "DEPLOY"}, remoteId : Remotes \cup {None},
                outcome : {"UNKNOWN", "SUBMITTED", "RUNNING", "SUCCEEDED", "FAILED"},
                version : Nat]
WorkerRow   == [pc : Pcs, rid : Remotes \cup {None}, version : Nat]
JobRows     == [Jobs -> JobRow]
AttemptRows == [Jobs -> AttemptRow]
WorkerRows  == [Jobs -> WorkerRow]
RecRows     == [Actors -> [pc : {"idle", "reported", "recorded"}, job : Jobs \cup {None},
                           version : Nat, report : {"running"} \cup Done \cup {None}]]

(* The types of the rows, by name.                                         *)
LEMMA Rows ==
  ASSUME TypeOK
  PROVE  job \in JobRows /\ attempt \in AttemptRows /\ worker \in WorkerRows /\ rec \in RecRows
  BY DEF TypeOK, JobRows, JobRow, AttemptRows, AttemptRow, WorkerRows, WorkerRow, RecRows

(* A remote id written into a row leaves every status alone.               *)
LEMMA IdWrite ==
  ASSUME job \in JobRows, NEW i, NEW x, job' = [job EXCEPT ![i].sfId = x]
  PROVE  \A k \in Jobs : job'[k].status = job[k].status
<1> SUFFICES ASSUME NEW k \in Jobs PROVE job'[k].status = job[k].status
  OBVIOUS
<1>1. CASE k = i
  <2>1. job[k] \in JobRow /\ job'[k] = [job[k] EXCEPT !.sfId = x]
    BY <1>1 DEF JobRows
  <2> QED  BY <2>1 DEF JobRow
<1>2. CASE k # i
  BY <1>2 DEF JobRows
<1> QED  BY <1>1, <1>2

(* A change of a field of one row.                                         *)
LEMMA JobUpdate ==
  ASSUME job \in JobRows, NEW j \in Jobs
  PROVE  /\ \A s \in Statuses : job' = [job EXCEPT ![j].status = s] => job' \in JobRows
         /\ \A sf \in Remotes \cup {None} : job' = [job EXCEPT ![j].sfId = sf] => job' \in JobRows
         /\ job' = [job EXCEPT ![j].prepared = TRUE] => job' \in JobRows
<1>1. /\ \A s \in Statuses : [job[j] EXCEPT !.status = s] \in JobRow
      /\ \A sf \in Remotes \cup {None} : [job[j] EXCEPT !.sfId = sf] \in JobRow
      /\ [job[j] EXCEPT !.prepared = TRUE] \in JobRow
  BY DEF JobRows, JobRow
<1>2. \A x \in JobRow : [job EXCEPT ![j] = x] \in JobRows
  BY DEF JobRows
<1> QED  BY <1>1, <1>2

(* The statuses of the table.                                              *)
LEMMA StatusNames == Running \cup Completed \cup {"QUEUED", "RECONCILE_REQUIRED"} \subseteq Statuses
  BY DEF Statuses

(* The transition table: where a status can come from.                     *)
LEMMA Table ==
  ASSUME NEW s \in Statuses, NEW next \in AllowedTransitions[s]
  PROVE  /\ next \in Statuses \ {"ABSENT", "QUEUED"}
         /\ s \in {"QUEUED", "RECONCILE_REQUIRED", "VALIDATED_PENDING_EXECUTION"} \cup Running
         /\ next \in Running => s = "QUEUED"
         /\ next \in {"APPROVAL_PENDING", "SUCCEEDED"} => s # "QUEUED"
         /\ next = "RECONCILE_REQUIRED" => s \in Running
  BY DEF Statuses, Completed, Running, AllowedTransitions

(* A transition changes the status of one job, along the table.            *)
LEMMA TransitionEffect ==
  ASSUME job \in JobRows, NEW j \in Jobs, NEW next, NEW sf \in Remotes \cup {None},
         Transition(j, next, sf)
  PROVE  /\ job' \in JobRows
         /\ next \in AllowedTransitions[job[j].status]
         /\ job'[j].status = next
         /\ \A k \in Jobs \ {j} : job'[k] = job[k]
<1>1. next \in AllowedTransitions[job[j].status] /\ job[j].status \in Statuses
  BY DEF Transition, MayTransition, JobRows, JobRow
<1>2. next \in Statuses
  BY <1>1, Table
<1>3. job' = [job EXCEPT ![j].status = next, ![j].sfId = IF sf = None THEN @ ELSE sf]
  BY DEF Transition
<1>4. job' \in JobRows
  <2> DEFINE x == IF sf = None THEN job[j].sfId ELSE sf
             row == [job[j] EXCEPT !.status = next, !.sfId = x]
  <2>1. row \in JobRow
    BY <1>2 DEF JobRows, JobRow
  <2>2. job' = [job EXCEPT ![j] = row]
    BY <1>3 DEF JobRows, JobRow
  <2> HIDE DEF row
  <2> QED  BY <2>1, <2>2 DEF JobRows
<1>5. job'[j].status = next /\ \A k \in Jobs \ {j} : job'[k] = job[k]
  BY <1>3 DEF JobRows, JobRow
<1> QED  BY <1>1, <1>4, <1>5

(* The steps of a failing task leave the worker's row well formed.         *)
LEMMA WorkerTypes ==
  ASSUME worker \in WorkerRows, NEW j \in Jobs
  PROVE  /\ \A pc \in Pcs : Goto(j, pc) => worker' \in WorkerRows
         /\ Finish(j) => worker' \in WorkerRows
         /\ Fail(j) => worker' \in WorkerRows
  BY DEF WorkerRows, WorkerRow, Goto, Finish, Fail, Idle, Pcs

(* A report of a known operation.                                          *)
LEMMA ReportTypes ==
  ASSUME TypeOK, NEW r \in Remotes, NEW report \in Reports(r)
  PROVE  report \in {"running"} \cup Done
  BY DEF TypeOK, Reports, Done

(* A request that creates a job, approves it or hands it to the queue.     *)
LEMMA RequestTypes ==
  ASSUME TypeInv, (\E j \in Jobs : RequestStep(j)) \/ (\E d \in DryRuns : Approve(d))
  PROVE  TypeInv'
<1>1. ASSUME NEW j \in Jobs, Create(j) PROVE TypeInv'
  <2>1. job' \in JobRows
    BY <1>1, Rows, StatusNames
    DEF Create, JobRows, JobRow, TypeInv
  <2>2. requests' \in [Jobs -> 0 .. MaxCalls]
    BY <1>1, ConstantsAssumption
    DEF Create, TypeInv, TypeOK
  <2> QED  BY <1>1, <2>1, <2>2
       DEF Create, world, TypeInv, TypeOK, RecInv, JobRows, JobRow, AttemptRows, AttemptRow,
           WorkerRows, WorkerRow, RecRows
<1>2. ASSUME NEW d \in DryRuns, Approve(d) PROVE TypeInv'
  <2>1. job \in JobRows /\ approval \in [DryRuns -> Deploys \cup {None}]
        /\ requests \in [Jobs -> 0 .. MaxCalls] /\ MaxCalls \in Nat \ {0}
    BY Rows, ConstantsAssumption DEF TypeInv, TypeOK
  <2>2. CASE approval[d] # None
    <3>1. approval[d] \in Jobs
      BY <2>1, <2>2 DEF Jobs
    <3>2. /\ requests[approval[d]] < MaxCalls
          /\ requests' = [requests EXCEPT ![approval[d]] = @ + 1]
          /\ UNCHANGED <<job, approval>>
      BY <1>2, <2>2 DEF Approve
    <3>3. requests' \in [Jobs -> 0 .. MaxCalls]
      BY <2>1, <3>1, <3>2
    <3> QED  BY <1>2, <3>2, <3>3 DEF Approve, world, TypeInv, TypeOK, RecInv
  <2>3. CASE approval[d] = None
    <3>1. PICK k \in Deploys :
            /\ job' = [job EXCEPT ![k] = [status |-> "QUEUED", prepared |-> TRUE,
                                         sfId |-> None, dryRun |-> d]]
            /\ approval' = [approval EXCEPT ![d] = k]
            /\ requests' = [requests EXCEPT ![k] = 1]
      BY <1>2, <2>3 DEF Approve
    <3>2. job' \in JobRows
      BY <2>1, <3>1, StatusNames DEF JobRows, JobRow
    <3>3. approval' \in [DryRuns -> Deploys \cup {None}] /\ requests' \in [Jobs -> 0 .. MaxCalls]
      BY <2>1, <3>1 DEF Jobs
    <3> QED  BY <1>2, <3>2, <3>3 DEF Approve, world, TypeInv, TypeOK, RecInv, JobRows, JobRow
  <2> QED  BY <2>2, <2>3
<1>3. ASSUME NEW j \in Jobs, Enqueue(j) PROVE TypeInv'
  <2>1. job' \in JobRows
    BY <1>3, Rows, StatusNames, TransitionEffect
    DEF Enqueue, JobRows, JobRow, TypeInv
  <2>2. worker' \in WorkerRows
    BY <1>3, Rows, StatusNames
    DEF Enqueue, WorkerRows, WorkerRow, Pcs, TypeInv
  <2>3. requests' \in [Jobs -> 0 .. MaxCalls]
    BY <1>3, ConstantsAssumption
    DEF Enqueue, TypeInv, TypeOK
  <2> QED  BY <1>3, <2>1, <2>2, <2>3
       DEF Enqueue, world, TypeInv, TypeOK, RecInv, JobRows, JobRow, AttemptRows, AttemptRow,
           WorkerRows, WorkerRow, RecRows
<1>4. ASSUME NEW j \in Jobs, Abandon(j) PROVE TypeInv'
  <2>1. job' \in JobRows
    BY <1>4, Rows, StatusNames, TransitionEffect
    DEF Abandon, JobRows, JobRow, TypeInv
  <2>2. requests' \in [Jobs -> 0 .. MaxCalls]
    BY <1>4, ConstantsAssumption
    DEF Abandon, TypeInv, TypeOK
  <2> QED  BY <1>4, <2>1, <2>2
       DEF Abandon, world, TypeInv, TypeOK, RecInv, JobRows, JobRow, AttemptRows, AttemptRow,
           WorkerRows, WorkerRow, RecRows
<1> QED  BY <1>1, <1>2, <1>3, <1>4 DEF RequestStep

(* A step of a task: what it does to each of the rows.                    *)
LEMMA TaskTypes ==
  ASSUME TypeInv, NEW j \in Jobs, WorkerStep(j)
  PROVE  TypeInv'
<1>0. /\ job \in JobRows /\ attempt \in AttemptRows /\ worker \in WorkerRows
      /\ pending \in [Jobs -> Completions \cup {None}]
      /\ call \in [Jobs -> {"none", "sent", "accepted", "refused"}]
  BY Rows DEF TypeInv, TypeOK
<1>1. worker' \in WorkerRows
  <2>1. \/ worker' = worker \/ Finish(j) \/ Fail(j)
        \/ \E pc \in Pcs : Goto(j, pc)
        \/ \E r \in Remotes : worker' = [worker EXCEPT ![j].pc = "recording", ![j].rid = r]
        \/ worker' = [worker EXCEPT ![j].pc = "completing", ![j].version = attempt[j].version]
    BY
    DEF WorkerStep, Start, Prepare, BeginAttempt, Submit, Respond, LoseResponse, RecordSubmission,
           Poll, LosePoll, StoreArtifacts, RecordFailure, Complete, Verify, Pcs
  <2>0. "recording" \in Pcs /\ "completing" \in Pcs
    BY DEF Pcs
  <2>2. CASE worker' = worker \/ Finish(j) \/ Fail(j) \/ \E pc \in Pcs : Goto(j, pc)
    BY <1>0, <2>2, WorkerTypes
  <2>3. CASE \E r \in Remotes : worker' = [worker EXCEPT ![j].pc = "recording", ![j].rid = r]
    <3>1. PICK r \in Remotes : worker' = [worker EXCEPT ![j].pc = "recording", ![j].rid = r]
      BY <2>3
    <3>2. [worker[j] EXCEPT !.pc = "recording", !.rid = r] \in WorkerRow
      BY <1>0, <2>0 DEF WorkerRows, WorkerRow
    <3> QED  BY <1>0, <3>1, <3>2 DEF WorkerRows
  <2>4. CASE worker' = [worker EXCEPT ![j].pc = "completing", ![j].version = attempt[j].version]
    <3>1. attempt[j].version \in Nat
      BY <1>0 DEF AttemptRows, AttemptRow
    <3>2. [worker[j] EXCEPT !.pc = "completing", !.version = attempt[j].version] \in WorkerRow
      BY <1>0, <2>0, <3>1 DEF WorkerRows, WorkerRow
    <3> QED  BY <1>0, <2>4, <3>2 DEF WorkerRows
  <2> QED  BY <2>1, <2>2, <2>3, <2>4
<1>2. job' \in JobRows
  <2>1. worker[j].rid \in Remotes \cup {None}
    BY <1>0 DEF WorkerRows, WorkerRow
  <2>2. \/ job' = job \/ job' = [job EXCEPT ![j].prepared = TRUE]
        \/ \E sf \in {None, worker[j].rid} : job' = [job EXCEPT ![j].sfId = sf]
        \/ \E next, sf : sf \in {None, worker[j].rid} /\ Transition(j, next, sf)
    BY
    DEF WorkerStep, Start, Prepare, BeginAttempt, Submit, Respond, LoseResponse, RecordSubmission,
           Poll, Progress, LosePoll, StoreArtifacts, RecordFailure, Complete, Verify, db
  <2>3. CASE job' = [job EXCEPT ![j].prepared = TRUE]
    BY <1>0, <2>3, JobUpdate
  <2>4. CASE \E sf \in {None, worker[j].rid} : job' = [job EXCEPT ![j].sfId = sf]
    BY <1>0, <2>1, <2>4, JobUpdate
  <2>5. CASE \E next, sf : sf \in {None, worker[j].rid} /\ Transition(j, next, sf)
    BY <1>0, <2>1, <2>5, TransitionEffect
  <2> QED  BY <1>0, <2>2, <2>3, <2>4, <2>5
<1>3. attempt' \in AttemptRows
  <2>1. CASE BeginAttempt(j)
    BY <1>0, <2>1 DEF BeginAttempt, AttemptRows, AttemptRow
  <2>2. CASE RecordSubmission(j)
    BY <1>0, <2>2 DEF RecordSubmission, AttemptRows, AttemptRow, WorkerRows, WorkerRow
  <2>3. CASE Poll(j)
    <3>1. PICK report : Progress(j, report)
      BY <2>3 DEF Poll
    <3>2. AttemptOutcome(report) \in {"RUNNING", "SUCCEEDED", "FAILED"}
      BY DEF AttemptOutcome
    <3> QED  BY <1>0, <3>1, <3>2 DEF Progress, AttemptRows, AttemptRow, WorkerRows, WorkerRow
  <2>4. BeginAttempt(j) \/ RecordSubmission(j) \/ Poll(j) \/ attempt' = attempt
    BY DEF WorkerStep, Start, Prepare, Submit, Respond, LoseResponse, LosePoll, StoreArtifacts,
           RecordFailure, Complete, Verify, db
  <2> QED  BY <1>0, <2>1, <2>2, <2>3, <2>4
<1>4. pending' \in [Jobs -> Completions \cup {None}]
  <2>1. Completion(j) \in Completions
    BY <1>0 DEF Completion, Completions, WorkerRows, WorkerRow
  <2>2. \/ pending' = pending
        \/ \E p \in {None, Completion(j)} : pending' = [pending EXCEPT ![j] = p]
    BY
    DEF WorkerStep, Start, Prepare, BeginAttempt, Submit, Respond, LoseResponse, RecordSubmission,
           Poll, LosePoll, StoreArtifacts, RecordFailure, Complete, Verify
  <2> QED  BY <1>0, <2>1, <2>2
<1>5. call' \in [Jobs -> {"none", "sent", "accepted", "refused"}]
  <2>1. call' = call \/ call' = [call EXCEPT ![j] = "sent"]
    BY
    DEF WorkerStep, Start, Prepare, BeginAttempt, Submit, Respond, LoseResponse, RecordSubmission,
           Poll, LosePoll, StoreArtifacts, RecordFailure, Complete, Verify, world
  <2> QED  BY <1>0, <2>1
<1>6. UNCHANGED <<approval, remote>> /\ QueueUntouched
  BY DEF WorkerStep, Start, Prepare, BeginAttempt, Submit, Respond, LoseResponse, RecordSubmission,
         Poll, LosePoll, StoreArtifacts, RecordFailure, Complete, Verify, db, world
<1> QED  BY <1>1, <1>2, <1>3, <1>4, <1>5, <1>6
     DEF QueueUntouched, TypeInv, TypeOK, RecInv, JobRows, JobRow, AttemptRows, AttemptRow,
         WorkerRows, WorkerRow

(* A step of the completion retry.                                         *)
LEMMA RetryTypes ==
  ASSUME TypeInv, NEW j \in Jobs, RetryStep(j)
  PROVE  TypeInv'
<1>0. job \in JobRows /\ pending \in [Jobs -> Completions \cup {None}]
      /\ retrying \in [job : Jobs, completion : Completions] \cup {None}
  BY Rows DEF TypeInv, TypeOK
<1>1. pending' \in [Jobs -> Completions \cup {None}]
  <2>1. pending' = pending \/ pending' = [pending EXCEPT ![j] = None]
    BY DEF RetryStep, RetryRead, RetryWrite, RetryFail
  <2> QED  BY <1>0, <2>1
<1>2. retrying' \in [job : Jobs, completion : Completions] \cup {None}
  <2>1. \/ retrying' = retrying \/ retrying' = None
        \/ pending[j] # None /\ retrying' = [job |-> j, completion |-> pending[j]]
    BY DEF RetryStep, RetryRead, RetryWrite, RetryFail
  <2> QED  BY <1>0, <2>1
<1>3. job' \in JobRows
  <2>1. \/ job' = job
        \/ Retrying(j) /\ Transition(j, CompletedStatus(j), retrying.completion.rid)
    BY DEF RetryStep, RetryRead, RetryWrite, RetryFail, RetryTransition, db
  <2>2. Retrying(j) => retrying.completion.rid \in Remotes \cup {None}
    BY <1>0 DEF Retrying, Completions
  <2> QED  BY <1>0, <2>1, <2>2, TransitionEffect
<1>4. UNCHANGED <<attempt, approval, world, phase, toRecover, requests, worker, rec>>
  BY DEF RetryStep, RetryRead, RetryWrite, RetryFail, db
<1> QED  BY <1>1, <1>2, <1>3, <1>4 DEF world, TypeInv, TypeOK, RecInv, JobRows, JobRow

(* A step of a user.                                                       *)
LEMMA UserTypes ==
  ASSUME TypeInv, UserStep
  PROVE  TypeInv'
<1>1. ASSUME NEW a \in Actors, NEW j \in Jobs, ReconcileReport(a, j) PROVE TypeInv'
  <2>1. attempt[j].remoteId \in Remotes /\ attempt[j].version \in Nat
    BY <1>1, Rows DEF ReconcileReport, AttemptRows, AttemptRow, TypeInv
  <2>2. PICK report \in Reports(attempt[j].remoteId) :
          rec' = [rec EXCEPT ![a] = [pc |-> "reported", job |-> j,
                                     version |-> attempt[j].version, report |-> report]]
    BY <1>1 DEF ReconcileReport
  <2>3. report \in {"running"} \cup Done
    BY <2>1, <2>2, ReportTypes DEF TypeInv
  <2>4. rec' \in RecRows /\ RecInv'
    BY <2>1, <2>2, <2>3, Rows DEF RecRows, RecInv, TypeInv
  <2> QED  BY <1>1, <2>4 DEF ReconcileReport, db, world, TypeInv, TypeOK, RecRows
<1>2. ASSUME NEW a \in Actors, ReconcileRecord(a) PROVE TypeInv'
  <2>1. job' \in JobRows
    <3>1. rec[a].job \in Jobs
      BY <1>2 DEF ReconcileRecord, RecInv, TypeInv
    <3>2. attempt[rec[a].job].remoteId \in Remotes \cup {None} /\ job \in JobRows
      BY <3>1, Rows DEF AttemptRows, AttemptRow, TypeInv
    <3>3. job' = job \/ job' = [job EXCEPT ![rec[a].job].sfId = attempt[rec[a].job].remoteId]
      BY <1>2 DEF ReconcileRecord
    <3> QED  BY <3>1, <3>2, <3>3, JobUpdate
  <2>2. attempt' \in AttemptRows
    <3>1. ReconciledOutcome(rec[a].report) \in {"RUNNING", "SUCCEEDED", "FAILED"}
      BY DEF ReconciledOutcome
    <3>2. attempt \in AttemptRows /\ rec[a].job \in Jobs
      BY <1>2, Rows DEF ReconcileRecord, RecInv, TypeInv
    <3>3. \/ attempt' = attempt
          \/ \E s \in {"TERMINAL", "SUBMITTED"}, o \in {"RUNNING", "SUCCEEDED", "FAILED"} :
               attempt' = [attempt EXCEPT ![rec[a].job].state = s, ![rec[a].job].outcome = o,
                                          ![rec[a].job].version = @ + 1]
      BY <1>2, <3>1 DEF ReconcileRecord
    <3>4. ASSUME NEW s \in {"TERMINAL", "SUBMITTED"}, NEW o \in {"RUNNING", "SUCCEEDED", "FAILED"},
                 attempt' = [attempt EXCEPT ![rec[a].job].state = s, ![rec[a].job].outcome = o,
                                            ![rec[a].job].version = @ + 1]
          PROVE  attempt' \in AttemptRows
      <4> DEFINE old == attempt[rec[a].job]
                 row == [old EXCEPT !.state = s, !.outcome = o, !.version = @ + 1]
      <4>1. old \in AttemptRow
        BY <3>2 DEF AttemptRows
      <4>2. attempt' = [attempt EXCEPT ![rec[a].job] = row]
        BY <3>2, <3>4 DEF AttemptRows
      <4> HIDE DEF old
      <4>3. row \in AttemptRow
        <5>1. old.version + 1 \in Nat
          BY <4>1 DEF AttemptRow
        <5>2. [[old EXCEPT !.state = s] EXCEPT !.outcome = o] \in AttemptRow
          BY <4>1 DEF AttemptRow
        <5> QED  BY <4>1, <5>1, <5>2 DEF AttemptRow
      <4> HIDE DEF row
      <4> QED  BY <3>2, <4>2, <4>3 DEF AttemptRows
    <3> QED  BY <3>2, <3>3, <3>4
  <2>3. rec' \in RecRows
    BY <1>2, Rows, StatusNames
    DEF ReconcileRecord, NoRec, RecRows, TypeInv
  <2>4. RecInv'
    BY <1>2, Rows, StatusNames
    DEF ReconcileRecord, NoRec, RecInv, Done, RecRows, TypeInv
  <2> QED  BY <1>2, <2>1, <2>2, <2>3, <2>4
       DEF ReconcileRecord, world, TypeInv, TypeOK, JobRows, JobRow, AttemptRows, AttemptRow,
           WorkerRows, WorkerRow, RecRows
<1>3. ASSUME NEW a \in Actors, ReconcileFinish(a) PROVE TypeInv'
  BY <1>3, ConstantsAssumption, TransitionEffect
  DEF ReconcileFinish, CompletedStatus, NoRec, world, TypeInv, TypeOK, RecInv, JobRows, JobRow,
      WorkerRows, WorkerRow
<1>4. ASSUME NEW j \in Jobs, NEW r \in Remotes, Bind(j, r) PROVE TypeInv'
  BY <1>4, ConstantsAssumption
  DEF Bind, world, memory, TypeInv, TypeOK, RecInv, JobRows, JobRow, WorkerRows, WorkerRow
<1> QED  BY <1>1, <1>2, <1>3, <1>4, RequestTypes DEF UserStep

(* A step of Salesforce.                                                   *)
LEMMA SalesforceTypes ==
  ASSUME TypeInv, SalesforceStep
  PROVE  TypeInv'
<1>1. CASE \E j \in Jobs : Accept(j)
  BY <1>1, ConstantsAssumption
  DEF Accept, db, memory, Done, TypeInv, TypeOK, RecInv, JobRows, JobRow, WorkerRows, WorkerRow
<1>2. CASE \E j \in Jobs : Refuse(j)
  BY <1>2, ConstantsAssumption
  DEF Refuse, db, memory, TypeInv, TypeOK, RecInv, JobRows, JobRow, WorkerRows, WorkerRow
<1>3. CASE \E r \in Remotes : Settle(r)
  <2>1. PICK r \in Remotes : Settle(r)
    BY <1>3
  <2>2. remote \in [Remotes -> [state : {"absent", "active"} \cup Done, owner : Jobs \cup {None}]]
    BY DEF TypeInv, TypeOK
  <2>3. remote' \in [Remotes -> [state : {"absent", "active"} \cup Done, owner : Jobs \cup {None}]]
    BY <2>1, <2>2 DEF Settle
  <2> QED  BY <2>1, <2>3 DEF Settle, db, memory, TypeInv, TypeOK, RecInv
<1> QED  BY <1>1, <1>2, <1>3 DEF SalesforceStep

(* A step of the process.                                                  *)
LEMMA ProcessTypes ==
  ASSUME TypeInv, ProcessStep
  PROVE  TypeInv'
<1>1. CASE \E j \in Jobs : Recover(j)
  BY <1>1, ConstantsAssumption, TransitionEffect
  DEF Recover, world, memory, TypeInv, TypeOK, RecInv, JobRows, JobRow, WorkerRows, WorkerRow
<1>2. CASE RecoverFail
  BY <1>2, ConstantsAssumption
  DEF RecoverFail, db, world, memory, TypeInv, TypeOK, RecInv, JobRows, JobRow, WorkerRows,
      WorkerRow
<1>3. CASE Boot
  BY <1>3, ConstantsAssumption
  DEF Boot, db, world, memory, TypeInv, TypeOK, RecInv, JobRows, JobRow, WorkerRows, WorkerRow
<1>4. CASE StopAccepting
  BY <1>4, ConstantsAssumption
  DEF StopAccepting, db, world, memory, TypeInv, TypeOK, RecInv, JobRows, JobRow, WorkerRows,
      WorkerRow
<1>5. CASE Flushed
  BY <1>5, ConstantsAssumption
  DEF Flushed, Interrupted, db, world, memory, TypeInv, TypeOK, RecInv, JobRows, JobRow,
      WorkerRows, WorkerRow
<1>6. CASE Close
  BY <1>6, ConstantsAssumption
  DEF Close, ForgetMemory, Idle, NoRec, Pcs, db, world, TypeInv, TypeOK, RecInv, JobRows, JobRow,
      WorkerRows, WorkerRow
<1>7. CASE Crash
  BY <1>7, ConstantsAssumption
  DEF Crash, ForgetMemory, Idle, NoRec, Pcs, db, world, TypeInv, TypeOK, RecInv, JobRows, JobRow,
      WorkerRows, WorkerRow
<1>8. CASE Restart
  BY <1>8, ConstantsAssumption
  DEF Restart, Interrupted, db, world, memory, TypeInv, TypeOK, RecInv, JobRows, JobRow,
      WorkerRows, WorkerRow
<1> QED  BY <1>1, <1>2, <1>3, <1>4, <1>5, <1>6, <1>7, <1>8 DEF ProcessStep

(* The first invariant holds for ever.                                     *)
LEMMA TypeInvariance == Spec => []TypeInv
<1>1. Init => TypeInv
  BY ConstantsAssumption
  DEF Init, TypeInv, TypeOK, RecInv, NoAttempt, Idle, NoRec, Statuses, Pcs, Done
<1>2. TypeInv /\ [Next]_vars => TypeInv'
  <2> SUFFICES ASSUME TypeInv, [Next]_vars PROVE TypeInv'
    OBVIOUS
  <2>1. CASE UNCHANGED vars
    BY <2>1 DEF vars, db, world, memory, TypeInv, TypeOK, RecInv
  <2> QED
    BY <2>1, RequestTypes, TaskTypes, RetryTypes, UserTypes, SalesforceTypes, ProcessTypes DEF Next
<1> QED  BY <1>1, <1>2, PTL DEF Spec

(* Rows, remote operations and in-memory tables keep their types.          *)
THEOREM DeploymentTypes == Spec => []TypeOK
<1>1. TypeInv => TypeOK
  BY DEF TypeInv
<1> QED  BY <1>1, TypeInvariance, PTL

-----------------------------------------------------------------------------
(* A transition never goes back, and what is over stays over.              *)
LEMMA StatusMove ==
  ASSUME job \in JobRows, NEW j \in Jobs, NEW next, NEW sf, Transition(j, next, sf)
  PROVE  /\ job'[j].status = next
         /\ \A k \in Jobs \ {j} : job'[k].status = job[k].status
         /\ next \notin {"ABSENT", "QUEUED"}
         /\ next \in Running => job[j].status = "QUEUED"
         /\ job[j].status \in {"RECONCILE_REQUIRED"} \cup Completed => next \in Completed
<1>1. next \in AllowedTransitions[job[j].status] /\ job[j].status \in Statuses
  BY DEF Transition, MayTransition, JobRows, JobRow
<1>2. job' = [job EXCEPT ![j].status = next, ![j].sfId = IF sf = None THEN @ ELSE sf]
  BY DEF Transition
<1>3. job'[j].status = next /\ \A k \in Jobs \ {j} : job'[k].status = job[k].status
  BY <1>2 DEF JobRows, JobRow
<1> QED  BY <1>1, <1>3 DEF Statuses, Completed, Running, AllowedTransitions

(* A step that changes no status and gives nobody a new role.              *)
LEMMA RolesFrame ==
  ASSUME RolesInv,
         \A k \in Jobs : job'[k].status = job[k].status,
         \A k \in Jobs : Acting(k)' => Acting(k),
         \A k \in Jobs : worker'[k].pc = "verifying" => worker[k].pc = "verifying" \/ Acting(k),
         \A k \in Jobs : Kept(k)' => ~Acting(k)' /\ (Kept(k) \/ Acting(k)),
         \A a \in Actors, k \in Jobs : Reconciling(a, k)' => Reconciling(a, k),
         phase' \notin {"up", "stopping"} => \A k \in Jobs : worker'[k].pc = "idle"
  PROVE  RolesInv'
  BY DEF RolesInv, NotStarted, Running

(* A transition that ends the part the task plays, or begins it.           *)
LEMMA RolesMove ==
  ASSUME job \in JobRows, RolesInv, NEW j \in Jobs, NEW next, NEW sf, Transition(j, next, sf),
         \A k \in Jobs : Acting(k)' => Acting(k) \/ k = j,
         Acting(j)' => next \in Running,
         \A k \in Jobs : worker'[k].pc = "verifying" => worker[k].pc = "verifying" \/ k = j,
         \A k \in Jobs : Kept(k)' => ~Acting(k)' /\ (Kept(k) \/ k = j),
         \A a \in Actors, k \in Jobs : Reconciling(a, k)' => Reconciling(a, k),
         phase' \notin {"up", "stopping"} => \A k \in Jobs : worker'[k].pc = "idle"
  PROVE  RolesInv'
  BY StatusMove DEF RolesInv, NotStarted, Running

(* Creating a job, queueing it or giving up keeps the roles.               *)
LEMMA RequestRoles ==
  ASSUME TypeInv, RolesInv, NEW j \in Jobs, RequestStep(j)
  PROVE  RolesInv'
<1>0. job \in JobRows /\ worker \in WorkerRows
  BY Rows DEF TypeInv
<1>1. CASE Create(j)
  BY <1>0, <1>1
  DEF Create, JobRows, JobRow, RolesInv, Acting, NotStarted, Kept, Reconciling, Completed, Running
<1>2. CASE Enqueue(j)
  <2>1. worker' = worker \/ (phase = "up" /\ worker' = [worker EXCEPT ![j].pc = "queued"])
    BY <1>2 DEF Enqueue
  <2>2. /\ \A k \in Jobs : Acting(k)' => Acting(k)
        /\ \A k \in Jobs : worker'[k].pc = "verifying" => worker[k].pc = "verifying"
    BY <1>0, <2>1 DEF Acting, WorkerRows, WorkerRow
  <2>3. /\ phase' = phase
        /\ \A k \in Jobs : Kept(k)' <=> Kept(k)
        /\ \A a \in Actors, k \in Jobs : Reconciling(a, k)' <=> Reconciling(a, k)
    BY <1>2 DEF Enqueue, Kept, Reconciling
  <2>4. phase' \notin {"up", "stopping"} => \A k \in Jobs : worker'[k].pc = "idle"
    BY <2>1, <2>3 DEF RolesInv
  <2>5. \A k \in Jobs : Kept(k) => ~Acting(k)
    BY DEF RolesInv
  <2>6. CASE job' = job
    BY <2>2, <2>3, <2>4, <2>5, <2>6, RolesFrame
  <2>7. CASE job[j].status = "QUEUED" /\ Transition(j, "FAILED", None)
    <3>1. ~Acting(j)
      BY <2>7 DEF RolesInv, Running
    <3> QED  BY <1>0, <2>2, <2>3, <2>4, <2>5, <2>7, <3>1, RolesMove
  <2> QED  BY <1>2, <2>6, <2>7 DEF Enqueue
<1>3. CASE Abandon(j)
  <2>1. UNCHANGED <<worker, phase, pending, retrying, rec, toRecover, attempt, call>>
    BY <1>3 DEF Abandon, world
  <2>2. /\ \A k \in Jobs : Acting(k)' <=> Acting(k)
        /\ \A k \in Jobs : Kept(k)' <=> Kept(k)
        /\ \A a \in Actors, k \in Jobs : Reconciling(a, k)' <=> Reconciling(a, k)
    BY <2>1 DEF Acting, Kept, Reconciling
  <2>3. /\ phase' \notin {"up", "stopping"} => \A k \in Jobs : worker'[k].pc = "idle"
        /\ \A k \in Jobs : Kept(k) => ~Acting(k)
    BY <2>1 DEF RolesInv
  <2>4. CASE job' = job
    BY <2>1, <2>2, <2>3, <2>4, RolesFrame
  <2>5. CASE job[j].status = "QUEUED" /\ Transition(j, "FAILED", None)
    <3>1. ~Acting(j)
      BY <2>5 DEF RolesInv, Running
    <3> QED  BY <1>0, <2>1, <2>2, <2>3, <2>5, <3>1, RolesMove
  <2> QED  BY <1>3, <2>4, <2>5 DEF Abandon
<1> QED  BY <1>1, <1>2, <1>3 DEF RequestStep

(* A step of a task concerns no other job and no reconciler.               *)
LEMMA TaskFrame ==
  ASSUME TypeInv, RolesInv, NEW j \in Jobs, WorkerStep(j)
  PROVE  /\ worker[j].pc # "idle" /\ phase \in {"up", "stopping"} /\ phase' = phase
         /\ \A k \in Jobs \ {j} : worker'[k] = worker[k] /\ pending'[k] = pending[k]
         /\ retrying' = retrying /\ rec' = rec
<1>0. worker \in WorkerRows /\ pending \in [Jobs -> Completions \cup {None}]
  BY Rows DEF TypeInv, TypeOK
<1>1. Serving /\ worker[j].pc # "idle"
  BY DEF WorkerStep, Start, Prepare, BeginAttempt, Submit, Respond, LoseResponse, RecordSubmission,
         Poll, LosePoll, StoreArtifacts, RecordFailure, Complete, Verify, At
<1>2. phase \in {"up", "stopping"}
  BY <1>1 DEF RolesInv
<1>3. QueueUntouched
  BY DEF WorkerStep, Start, Prepare, BeginAttempt, Submit, Respond, LoseResponse, RecordSubmission,
         Poll, LosePoll, StoreArtifacts, RecordFailure, Complete, Verify
<1>4. \/ worker' = worker
      \/ \E w : worker' = [worker EXCEPT ![j] = w]
  BY <1>0
  DEF WorkerStep, Start, Prepare, BeginAttempt, Submit, Respond, LoseResponse, RecordSubmission,
         Poll, LosePoll, StoreArtifacts, RecordFailure, Complete, Verify, Goto, Finish, Fail, WorkerRows, WorkerRow
<1>5. pending' = pending \/ \E p : pending' = [pending EXCEPT ![j] = p]
  BY DEF WorkerStep, Start, Prepare, BeginAttempt, Submit, Respond, LoseResponse, RecordSubmission,
         Poll, LosePoll, StoreArtifacts, RecordFailure, Complete, Verify
<1> QED  BY <1>0, <1>1, <1>2, <1>3, <1>4, <1>5 DEF QueueUntouched, WorkerRows, WorkerRow

(* The task goes on, or ends without a transition.                         *)
LEMMA TaskGoesOn ==
  ASSUME TypeInv, RolesInv, NEW j \in Jobs, WorkerStep(j),
         Acting(j) \/ (~Acting(j)' /\ worker'[j].pc # "verifying"),
         \A k \in Jobs : job'[k].status = job[k].status,
         (Kept(j)' => Kept(j)) \/ (Acting(j) /\ ~Acting(j)')
  PROVE  RolesInv'
<1>1. /\ \A k \in Jobs : Acting(k)' => Acting(k)
      /\ \A k \in Jobs : worker'[k].pc = "verifying" => worker[k].pc = "verifying" \/ Acting(k)
      /\ \A a \in Actors, k \in Jobs : Reconciling(a, k)' => Reconciling(a, k)
      /\ phase' \in {"up", "stopping"}
  BY TaskFrame DEF Acting, Reconciling
<1>2. \A k \in Jobs \ {j} : (Kept(k)' <=> Kept(k)) /\ (Acting(k)' <=> Acting(k))
  BY TaskFrame DEF Kept, Acting
<1>3. \A k \in Jobs : Kept(k) => ~Acting(k)
  BY DEF RolesInv
<1>5. \A k \in Jobs : Kept(k)' => ~Acting(k)' /\ (Kept(k) \/ Acting(k))
  BY <1>1, <1>2, <1>3
<1> QED  BY <1>1, <1>5, RolesFrame

(* The task makes a transition.                                            *)
LEMMA TaskMoves ==
  ASSUME TypeInv, RolesInv, NEW j \in Jobs, WorkerStep(j),
         NEW next, NEW sf, Transition(j, next, sf),
         Acting(j)' => next \in Running /\ ~Kept(j)'
  PROVE  RolesInv'
<1>1. /\ \A k \in Jobs : Acting(k)' => Acting(k) \/ k = j
      /\ \A k \in Jobs : worker'[k].pc = "verifying" => worker[k].pc = "verifying" \/ k = j
      /\ \A a \in Actors, k \in Jobs : Reconciling(a, k)' => Reconciling(a, k)
      /\ phase' \in {"up", "stopping"}
  BY TaskFrame DEF Acting, Reconciling
<1>2. \A k \in Jobs \ {j} : (Kept(k)' <=> Kept(k)) /\ (Acting(k)' <=> Acting(k))
  BY TaskFrame DEF Kept, Acting
<1>3. \A k \in Jobs : Kept(k)' => ~Acting(k)' /\ (Kept(k) \/ k = j)
  BY <1>2 DEF RolesInv
<1>4. job \in JobRows
  BY Rows DEF TypeInv
<1> QED  BY <1>1, <1>3, <1>4, RolesMove

(* Every step of a task keeps the roles.                                   *)
LEMMA TaskRoles ==
  ASSUME TypeInv, RolesInv, NEW j \in Jobs, WorkerStep(j)
  PROVE  RolesInv'
<1>0. job \in JobRows /\ worker \in WorkerRows
  BY Rows DEF TypeInv
<1>1. CASE Start(j)
  <2>1. worker[j].pc = "queued" /\ retrying' = retrying /\ pending' = pending
    BY <1>1 DEF Start, At, QueueUntouched
  <2>2. CASE Transition(j, RunningStatus(j), None)
    <3>1. RunningStatus(j) \in Running /\ NotStarted(j)
      BY <1>0, <2>2, StatusMove DEF RunningStatus, Running, NotStarted
    <3>2. ~Kept(j)'
      BY <2>1, <3>1 DEF RolesInv, Kept
    <3> QED  BY <2>2, <3>1, <3>2, TaskMoves
  <2>3. CASE job' = job /\ Finish(j)
    BY <1>0, <2>1, <2>3, TaskGoesOn DEF Finish, Idle, Acting, Kept, WorkerRows, WorkerRow
  <2> QED  BY <1>1, <2>2, <2>3 DEF Start
<1>2. CASE Prepare(j) \/ Submit(j) \/ Respond(j) \/ LoseResponse(j) \/ LosePoll(j)
  <2>1. Acting(j) /\ job' = job /\ pending' = pending
    BY <1>2 DEF Prepare, Submit, Respond, LoseResponse, LosePoll, At, Acting, db
  <2>2. Kept(j)' => Kept(j)
    BY <2>1, TaskFrame DEF Kept
  <2> QED  BY <2>1, <2>2, TaskGoesOn
<1>3. CASE BeginAttempt(j) \/ RecordSubmission(j) \/ Poll(j) \/ StoreArtifacts(j)
  <2>1. Acting(j) /\ pending' = pending
    BY <1>3 DEF BeginAttempt, RecordSubmission, Poll, StoreArtifacts, At, Acting
  <2>2. \/ job' = job
        \/ \E x : job' = [job EXCEPT ![j].sfId = x]
        \/ job' = [job EXCEPT ![j].prepared = TRUE]
    BY <1>3 DEF BeginAttempt, RecordSubmission, Poll, Progress, StoreArtifacts
  <2>3. \A k \in Jobs : job'[k].status = job[k].status
    BY <1>0, <2>2 DEF JobRows, JobRow
  <2>4. Kept(j)' => Kept(j)
    BY <2>1, TaskFrame DEF Kept
  <2> QED  BY <2>1, <2>3, <2>4, TaskGoesOn
<1>4. CASE RecordFailure(j)
  <2>1. Acting(j) /\ ~Acting(j)'
    BY <1>0, <1>4 DEF RecordFailure, At, Acting, Finish, Idle, WorkerRows, WorkerRow
  <2>2. \/ job' = job \/ Transition(j, "FAILED", None)
        \/ Transition(j, "RECONCILE_REQUIRED", worker[j].rid)
    BY <1>4 DEF RecordFailure
  <2> QED  BY <2>1, <2>2, TaskMoves, TaskGoesOn
<1>5. CASE Complete(j)
  <2>1. Acting(j) /\ ~Acting(j)'
    BY <1>0, <1>5 DEF Complete, At, Acting, Finish, Goto, Idle, WorkerRows, WorkerRow
  <2>2. job' = job \/ Transition(j, CompletedStatus(j), worker[j].rid)
    BY <1>5 DEF Complete
  <2> QED  BY <2>1, <2>2, TaskMoves, TaskGoesOn
<1>6. CASE Verify(j)
  <2>1. ~Acting(j) /\ ~Acting(j)' /\ worker'[j].pc # "verifying"
    BY <1>0, <1>6 DEF Verify, At, Acting, Finish, Idle, WorkerRows, WorkerRow
  <2>2. job' = job \/ Transition(j, "RECONCILE_REQUIRED", worker[j].rid)
    BY <1>6 DEF Verify
  <2>3. pending' = pending \/ pending'[j] = None
    <3>1. pending' = pending \/ pending' = [pending EXCEPT ![j] = None]
      BY <1>6 DEF Verify
    <3> QED  BY <3>1 DEF TypeInv, TypeOK
  <2>4. Kept(j)' => Kept(j)
    BY <2>3, TaskFrame DEF Kept
  <2> QED  BY <2>1, <2>2, <2>4, TaskMoves, TaskGoesOn
<1> QED  BY <1>1, <1>2, <1>3, <1>4, <1>5, <1>6 DEF WorkerStep

(* The retry keeps the roles: its job has no working task.                 *)
LEMMA RetryRoles ==
  ASSUME TypeInv, RolesInv, NEW j \in Jobs, RetryStep(j)
  PROVE  RolesInv'
<1>1. job \in JobRows
  BY Rows DEF TypeInv
<1>2. worker' = worker /\ rec' = rec /\ phase' = phase
  BY DEF RetryStep, RetryRead, RetryWrite, RetryFail
<1>3. \A k \in Jobs : Kept(k)' => Kept(k)
  <2>1. pending \in [Jobs -> Completions \cup {None}]
    BY DEF TypeInv, TypeOK
  <2>2. pending' = pending \/ pending' = [pending EXCEPT ![j] = None]
    BY DEF RetryStep, RetryRead, RetryWrite, RetryFail
  <2>3. \/ retrying' = retrying \/ retrying' = None
        \/ pending[j] # None /\ retrying' = [job |-> j, completion |-> pending[j]]
    BY DEF RetryStep, RetryRead, RetryWrite, RetryFail
  <2> QED  BY <2>1, <2>2, <2>3 DEF Kept
<1>4. /\ \A k \in Jobs : (Acting(k)' <=> Acting(k))
      /\ \A k \in Jobs : worker'[k].pc = "verifying" => worker[k].pc = "verifying"
      /\ \A a \in Actors, k \in Jobs : Reconciling(a, k)' => Reconciling(a, k)
      /\ phase' \notin {"up", "stopping"} => \A k \in Jobs : worker'[k].pc = "idle"
      /\ \A k \in Jobs : Kept(k)' => ~Acting(k)'
  BY <1>2, <1>3 DEF RolesInv, Acting, Reconciling
<1>5. CASE job' = job
  BY <1>3, <1>4, <1>5, RolesFrame
<1>6. CASE RetryTransition(j) /\ Retrying(j)
  <2>1. ~Acting(j)
    BY <1>6 DEF RolesInv, Retrying, Kept
  <2> QED  BY <1>1, <1>3, <1>4, <1>6, <2>1, RolesMove DEF RetryTransition
<1> QED  BY <1>5, <1>6 DEF RetryStep, RetryRead, RetryWrite, RetryFail, db

(* Approvals, reconciliations and bindings keep the roles.                 *)
LEMMA UserRoles ==
  ASSUME TypeInv, RolesInv, UserStep
  PROVE  RolesInv'
<1>0. job \in JobRows /\ worker \in WorkerRows /\ rec \in RecRows
  BY Rows DEF TypeInv
<1>1. ASSUME NEW d \in DryRuns, Approve(d) PROVE RolesInv'
  <2>1. /\ \A k \in Jobs : (Acting(k)' <=> Acting(k)) /\ (Kept(k)' <=> Kept(k))
        /\ \A a \in Actors, k \in Jobs : Reconciling(a, k)' <=> Reconciling(a, k)
        /\ worker' = worker /\ phase' = phase
    BY <1>1 DEF Approve, Acting, Kept, Reconciling
  <2>2. CASE job' = job
    BY <2>1, <2>2 DEF RolesInv, NotStarted
  <2>3. CASE job' # job
    <3>1. PICK j \in Deploys :
            /\ job[j].status = "ABSENT"
            /\ job' = [job EXCEPT ![j] = [status |-> "QUEUED", prepared |-> TRUE,
                                         sfId |-> None, dryRun |-> d]]
      BY <1>1, <2>3 DEF Approve
    <3>2. j \in Jobs /\ job'[j].status = "QUEUED" /\ \A k \in Jobs \ {j} : job'[k] = job[k]
      BY <1>0, <3>1 DEF JobRows, JobRow, Jobs
    <3> QED  BY <2>1, <3>1, <3>2 DEF RolesInv, NotStarted, Running, Completed
  <2> QED  BY <2>2, <2>3
<1>2. ASSUME NEW a \in Actors, NEW j \in Jobs, ReconcileReport(a, j) PROVE RolesInv'
  BY <1>0, <1>2
  DEF ReconcileReport, db, RecRows, RolesInv, Acting, Kept, NotStarted, Reconciling
<1>3. ASSUME NEW a \in Actors, ReconcileRecord(a) \/ ReconcileFinish(a) PROVE RolesInv'
  <2>1. worker' = worker /\ phase' = phase /\ pending' = pending /\ retrying' = retrying
    BY <1>3 DEF ReconcileRecord, ReconcileFinish
  <2>2. rec' = [rec EXCEPT ![a] = NoRec] \/ rec' = [rec EXCEPT ![a].pc = "recorded"]
    BY <1>3 DEF ReconcileRecord, ReconcileFinish
  <2>3. rec[a].pc # "idle" /\ rec[a].job \in Jobs
    BY <1>3 DEF ReconcileRecord, ReconcileFinish, TypeInv, RecInv
  <2>4. \A b \in Actors, k \in Jobs : Reconciling(b, k)' => Reconciling(b, k)
    BY <1>0, <2>2, <2>3 DEF Reconciling, NoRec, RecRows
  <2>5. \A k \in Jobs : (Acting(k)' <=> Acting(k)) /\ (Kept(k)' <=> Kept(k))
    BY <2>1 DEF Acting, Kept
  <2>6. /\ \A k \in Jobs : Kept(k) => ~Acting(k)
        /\ phase' \notin {"up", "stopping"} => \A k \in Jobs : worker'[k].pc = "idle"
        /\ ~Acting(rec[a].job)
    BY <2>1, <2>3 DEF RolesInv, Reconciling, Running, Completed
  <2>7. CASE \A k \in Jobs : job'[k].status = job[k].status
    BY <2>1, <2>4, <2>5, <2>6, <2>7, RolesFrame
  <2>8. CASE \E next : Transition(rec[a].job, next, None)
    BY <1>0, <2>1, <2>3, <2>4, <2>5, <2>6, <2>8, RolesMove
  <2>9. \/ job' = job \/ \E next : Transition(rec[a].job, next, None)
        \/ \E x : job' = [job EXCEPT ![rec[a].job].sfId = x]
    BY <1>3 DEF ReconcileRecord, ReconcileFinish
  <2>10. CASE \E x : job' = [job EXCEPT ![rec[a].job].sfId = x]
    BY <1>0, <2>7, <2>10 DEF JobRows, JobRow
  <2> QED  BY <2>7, <2>8, <2>9, <2>10
<1>4. ASSUME NEW j \in Jobs, NEW r \in Remotes, Bind(j, r) PROVE RolesInv'
  <2>1. \A k \in Jobs : job'[k].status = job[k].status
    BY <1>0, <1>4 DEF Bind, JobRows, JobRow
  <2> QED  BY <1>4, <2>1
       DEF Bind, memory, RolesInv, Acting, Kept, NotStarted, Reconciling
<1> QED  BY <1>1, <1>2, <1>3, <1>4 DEF UserStep

(* So do Salesforce, recovery, shutdown, crash and restart.                *)
LEMMA ProcessRoles ==
  ASSUME TypeInv, RolesInv, SalesforceStep \/ ProcessStep
  PROVE  RolesInv'
<1>1. CASE SalesforceStep
  BY <1>1 DEF SalesforceStep, Accept, Refuse, Settle, db, memory,
              RolesInv, Acting, Kept, NotStarted, Reconciling
<1>2. ASSUME NEW j \in Jobs, Recover(j) PROVE RolesInv'
  <2>1. job \in JobRows /\ \A k \in Jobs : worker'[k].pc = "idle" /\ ~Acting(k) /\ ~Acting(k)'
    BY <1>2, Rows DEF Recover, Recovering, memory, RolesInv, Acting, TypeInv
  <2>2. /\ \A k \in Jobs : Kept(k)' <=> Kept(k)
        /\ \A a \in Actors, k \in Jobs : Reconciling(a, k)' <=> Reconciling(a, k)
    BY <1>2 DEF Recover, memory, Kept, Reconciling
  <2>3. \E next : Transition(j, next, None)
    BY <1>2 DEF Recover
  <2> QED  BY <2>1, <2>2, <2>3, RolesMove
<1>3. CASE RecoverFail \/ Boot \/ StopAccepting \/ Flushed \/ Restart
  BY <1>3 DEF RecoverFail, Boot, StopAccepting, Flushed, Restart, Recovering, db, memory,
              RolesInv, Acting, Kept, NotStarted, Reconciling
<1>4. CASE Close \/ Crash
  BY <1>4 DEF Close, Crash, ForgetMemory, Idle, NoRec, db,
              RolesInv, Acting, Kept, NotStarted, Reconciling
<1> QED  BY <1>1, <1>2, <1>3, <1>4 DEF ProcessStep

(* The roles are inductive.                                                *)
LEMMA RolesInvariance ==
  ASSUME TypeInv, RolesInv, [Next]_vars
  PROVE  RolesInv'
<1>1. CASE UNCHANGED vars
  BY <1>1 DEF vars, db, world, memory, RolesInv, Acting, NotStarted, Kept, Reconciling
<1> QED  BY <1>1, RequestRoles, TaskRoles, RetryRoles, UserRoles, ProcessRoles DEF Next

(* Only the reconciliation of a deployment that validated waits for the    *)
(* execution of what it has validated.                                     *)
Legacy(j, next) ==
  next = "VALIDATED_PENDING_EXECUTION" => j \in Deploys /\ attempt[j].op = "VALIDATE"

LEMMA PlainStatus ==
  ASSUME NEW j
  PROVE  /\ Legacy(j, CompletedStatus(j)) /\ Legacy(j, RunningStatus(j))
         /\ Legacy(j, "FAILED") /\ Legacy(j, "RECONCILE_REQUIRED")
  BY DEF Legacy, CompletedStatus, RunningStatus

(* What a step does to the statuses: nothing, a new job, or a transition.  *)
LEMMA StatusStep ==
  ASSUME TypeInv, [Next]_vars
  PROVE  \/ \A k \in Jobs : job'[k].status = job[k].status
         \/ \E j \in Jobs : /\ job[j].status = "ABSENT" /\ job'[j].status = "QUEUED"
                            /\ \A k \in Jobs \ {j} : job'[k].status = job[k].status
         \/ \E j \in Jobs : \E next, sf : Transition(j, next, sf) /\ Legacy(j, next)
<1> DEFINE Same == \A k \in Jobs : job'[k].status = job[k].status
           New  == \E j \in Jobs : /\ job[j].status = "ABSENT" /\ job'[j].status = "QUEUED"
                                   /\ \A k \in Jobs \ {j} : job'[k].status = job[k].status
           Move == \E j \in Jobs : \E next, sf : Transition(j, next, sf) /\ Legacy(j, next)
<1>0. job \in JobRows
  BY Rows DEF TypeInv
<1>1. CASE job' = job
  BY <1>1
<1>2. ASSUME NEW j \in Jobs, RequestStep(j) PROVE Same \/ New \/ Move
  <2>1. CASE Create(j)
    BY <1>0, <2>1 DEF Create, JobRows, JobRow
  <2>2. CASE Enqueue(j) \/ Abandon(j)
    BY <2>2, PlainStatus DEF Enqueue, Abandon
  <2> QED  BY <1>2, <2>1, <2>2 DEF RequestStep
<1>3. ASSUME NEW j \in Jobs, WorkerStep(j) PROVE Same \/ New \/ Move
  <2>1. CASE Start(j) \/ RecordFailure(j)
    BY <1>1, <2>1, PlainStatus DEF Start, RecordFailure, db
  <2>2. CASE Complete(j) \/ Verify(j)
    BY <1>1, <2>2, PlainStatus DEF Complete, Verify
  <2>3. CASE BeginAttempt(j) \/ RecordSubmission(j) \/ Poll(j) \/ StoreArtifacts(j)
    <3>1. \/ job' = job
          \/ \E x : job' = [job EXCEPT ![j].sfId = x]
          \/ job' = [job EXCEPT ![j].prepared = TRUE]
      BY <2>3 DEF BeginAttempt, RecordSubmission, Poll, Progress, StoreArtifacts
    <3> QED  BY <1>0, <3>1 DEF JobRows, JobRow
  <2>4. CASE Prepare(j) \/ Submit(j) \/ Respond(j) \/ LoseResponse(j) \/ LosePoll(j)
    BY <1>1, <2>4 DEF Prepare, Submit, Respond, LoseResponse, LosePoll, db
  <2> QED  BY <1>3, <2>1, <2>2, <2>3, <2>4 DEF WorkerStep
<1>4. ASSUME NEW j \in Jobs, RetryStep(j) PROVE Same \/ New \/ Move
  BY <1>4, PlainStatus DEF RetryStep, RetryRead, RetryWrite, RetryFail, RetryTransition, db
<1>5. ASSUME NEW d \in DryRuns, Approve(d) PROVE Same \/ New \/ Move
  <2>1. CASE job' # job
    <3>1. PICK j \in Deploys :
            /\ job[j].status = "ABSENT"
            /\ job' = [job EXCEPT ![j] = [status |-> "QUEUED", prepared |-> TRUE,
                                         sfId |-> None, dryRun |-> d]]
      BY <1>5, <2>1 DEF Approve
    <3>2. j \in Jobs /\ job'[j].status = "QUEUED" /\ \A k \in Jobs \ {j} : job'[k] = job[k]
      BY <1>0, <3>1 DEF JobRows, JobRow, Jobs
    <3> QED  BY <3>1, <3>2
  <2> QED  BY <1>1, <2>1
<1>6. ASSUME NEW a \in Actors, (\E j \in Jobs : ReconcileReport(a, j)) \/ ReconcileRecord(a)
                                 \/ ReconcileFinish(a)
      PROVE  Same \/ New \/ Move
  <2>1. CASE \E j \in Jobs : ReconcileReport(a, j)
    BY <1>1, <2>1 DEF ReconcileReport, db
  <2>2. CASE ReconcileRecord(a)
    <3>1. job' = job \/ \E x : job' = [job EXCEPT ![rec[a].job].sfId = x]
      BY <2>2 DEF ReconcileRecord
    <3> QED  BY <1>0, <1>1, <3>1, IdWrite
  <2>3. CASE ReconcileFinish(a)
    <3>1. job' = job \/ \E next : Transition(rec[a].job, next, None) /\ Legacy(rec[a].job, next)
      BY <2>3 DEF ReconcileFinish, CompletedStatus, Legacy
    <3>2. rec[a].job \in Jobs
      BY <2>3 DEF ReconcileFinish, TypeInv, RecInv
    <3> QED  BY <1>1, <3>1, <3>2
  <2> QED  BY <1>6, <2>1, <2>2, <2>3
<1>7. ASSUME NEW j \in Jobs, NEW r \in Remotes, Bind(j, r) PROVE Same \/ New \/ Move
  BY <1>0, <1>7 DEF Bind, JobRows, JobRow
<1>8. CASE SalesforceStep
  BY <1>1, <1>8 DEF SalesforceStep, Accept, Refuse, Settle, db
<1>9. CASE ProcessStep
  BY <1>1, <1>9, PlainStatus
  DEF ProcessStep, Recover, RecoverFail, Boot, StopAccepting, Flushed, Close, Crash, Restart, db
<1>10. CASE UNCHANGED vars
  BY <1>1, <1>10 DEF vars, db
<1> QED  BY <1>2, <1>3, <1>4, <1>5, <1>6, <1>7, <1>8, <1>9, <1>10 DEF Next, UserStep

(* A job that has started never goes back.                                 *)
LEMMA NoReturn ==
  ASSUME TypeInv, [Next]_vars, NEW k \in Jobs, NotStarted(k)'
  PROVE  NotStarted(k)
<1>1. job \in JobRows
  BY Rows DEF TypeInv
<1>2. CASE \E j \in Jobs : \E next, sf : Transition(j, next, sf)
  BY <1>1, <1>2, StatusMove DEF NotStarted
<1> QED  BY <1>2, StatusStep DEF NotStarted

(* Who starts a command, and who answers it.                               *)
LEMMA CallStep ==
  ASSUME TypeInv, [Next]_vars
  PROVE  \/ UNCHANGED world
         \/ \E j \in Jobs : /\ Submit(j) /\ worker[j].pc = "submitting"
                            /\ call' = [call EXCEPT ![j] = "sent"] /\ remote' = remote
         \/ SalesforceStep
<1>1. ASSUME NEW j \in Jobs, WorkerStep(j)
      PROVE  \/ UNCHANGED world
             \/ /\ Submit(j) /\ worker[j].pc = "submitting"
                /\ call' = [call EXCEPT ![j] = "sent"] /\ remote' = remote
  <2>1. UNCHANGED world \/ Submit(j)
    BY <1>1 DEF WorkerStep, Start, Prepare, BeginAttempt, Respond, LoseResponse, RecordSubmission,
                Poll, LosePoll, StoreArtifacts, RecordFailure, Complete, Verify
  <2> QED  BY <1>1, <2>1 DEF Submit, At, world
<1>2. (\E j \in Jobs : RequestStep(j) \/ RetryStep(j)) => UNCHANGED world
  BY DEF RequestStep, Create, Enqueue, Abandon, RetryStep, RetryRead, RetryWrite, RetryFail
<1>3. UserStep => UNCHANGED world
  <2>1. \A d \in DryRuns : Approve(d) => UNCHANGED world
    BY DEF Approve
  <2>2. \A a \in Actors : ReconcileRecord(a) \/ ReconcileFinish(a) => UNCHANGED world
    BY DEF ReconcileRecord, ReconcileFinish
  <2>3. \A j \in Jobs : /\ \A a \in Actors : ReconcileReport(a, j) => UNCHANGED world
                       /\ \A r \in Remotes : Bind(j, r) => UNCHANGED world
    BY DEF ReconcileReport, Bind
  <2> QED  BY <2>1, <2>2, <2>3 DEF UserStep
<1>4. ProcessStep => UNCHANGED world
  BY DEF ProcessStep, Recover, RecoverFail, Boot, StopAccepting, Flushed, Close, Crash, Restart
<1> QED  BY <1>1, <1>2, <1>3, <1>4 DEF Next, vars

(* Before the submission.                                                  *)
Early == {"preparing", "intending", "submitting"}

(* Only a job that had not started, or was there before, is there now.     *)
LEMMA EarlyStep ==
  ASSUME TypeInv, RolesInv, [Next]_vars, NEW k \in Jobs, worker'[k].pc \in Early
  PROVE  NotStarted(k) \/ worker[k].pc \in Early
<1>0. job \in JobRows /\ worker \in WorkerRows
  BY Rows DEF TypeInv
<1>1. ASSUME NEW j \in Jobs, RequestStep(j) PROVE worker[k].pc \in Early
  BY <1>0, <1>1 DEF RequestStep, Create, Enqueue, Abandon, Early, WorkerRows, WorkerRow
<1>2. ASSUME NEW j \in Jobs, WorkerStep(j) PROVE NotStarted(k) \/ worker[k].pc \in Early
  <2>1. CASE k # j
    BY <1>2, <2>1, TaskFrame
  <2>2. CASE k = j /\ Start(k)
    <3>1. Transition(k, RunningStatus(k), None) \/ worker'[k].pc = "idle"
      BY <1>0, <2>2 DEF Start, Finish, Idle, WorkerRows, WorkerRow
    <3> QED  BY <1>0, <3>1, StatusMove DEF RunningStatus, Running, NotStarted, Early
  <2>3. CASE k = j /\ ~Start(k)
    <3>1. worker[k].pc \in Early \/ Finish(k) \/ Fail(k) \/ \E pc \in Pcs \ Early : worker'[k].pc = pc
      BY <1>0, <1>2, <2>3
      DEF WorkerStep, Prepare, BeginAttempt, Submit, Respond, LoseResponse, RecordSubmission, Poll,
          LosePoll, StoreArtifacts, RecordFailure, Complete, Verify, At, Goto, Early, Pcs, WorkerRows, WorkerRow
    <3> QED  BY <1>0, <3>1 DEF Finish, Fail, Goto, Idle, Early, WorkerRows, WorkerRow
  <2> QED  BY <2>1, <2>2, <2>3
<1>3. CASE worker' = worker
  BY <1>3
<1>4. CASE ForgetMemory
  BY <1>4 DEF ForgetMemory, Idle, Early
<1>5. (\E j \in Jobs : RetryStep(j)) => worker' = worker
  BY DEF RetryStep, RetryRead, RetryWrite, RetryFail
<1>6. UserStep => worker' = worker
  <2>1. \A d \in DryRuns : Approve(d) => worker' = worker
    BY DEF Approve
  <2>2. \A a \in Actors : ReconcileRecord(a) \/ ReconcileFinish(a) => worker' = worker
    BY DEF ReconcileRecord, ReconcileFinish
  <2>3. \A j \in Jobs : /\ \A a \in Actors : ReconcileReport(a, j) => worker' = worker
                       /\ \A r \in Remotes : Bind(j, r) => worker' = worker
    BY DEF ReconcileReport, Bind, memory
  <2> QED  BY <2>1, <2>2, <2>3 DEF UserStep
<1>7. SalesforceStep \/ UNCHANGED vars => worker' = worker
  BY DEF SalesforceStep, Accept, Refuse, Settle, vars, memory
<1>8. ProcessStep => worker' = worker \/ ForgetMemory
  BY
  DEF ProcessStep, Recover, RecoverFail, Boot, StopAccepting, Flushed, Close, Crash, Restart, memory
<1> QED  BY <1>1, <1>2, <1>3, <1>4, <1>5, <1>6, <1>7, <1>8 DEF Next

(* Nothing is on its way for a job that has not come to its submission.    *)
LEMMA NotSentInvariance ==
  ASSUME TypeInv, RolesInv, NotSentInv, [Next]_vars
  PROVE  NotSentInv'
<1>0. call \in [Jobs -> {"none", "sent", "accepted", "refused"}]
  BY DEF TypeInv, TypeOK
<1>1. \A k \in Jobs : NotStarted(k)' \/ worker'[k].pc \in Early => call[k] = "none"
  BY NoReturn, EarlyStep DEF NotSentInv, Early
<1>2. CASE UNCHANGED world
  BY <1>1, <1>2 DEF NotSentInv, Early, world
<1>3. ASSUME NEW j \in Jobs, Submit(j), call' = [call EXCEPT ![j] = "sent"] PROVE NotSentInv'
  <2>1. worker'[j].pc \notin Early
    BY <1>3, Rows DEF Submit, At, Goto, Fail, Idle, Early, TypeInv, WorkerRows, WorkerRow
  <2>2. ~NotStarted(j)'
    BY <1>3, NoReturn DEF Submit, At, RolesInv, Acting, Running, NotStarted
  <2> QED  BY <1>0, <1>1, <1>3, <2>1, <2>2 DEF NotSentInv, Early
<1>4. CASE SalesforceStep
  BY <1>0, <1>1, <1>4 DEF SalesforceStep, Accept, Refuse, Settle, NotSentInv, Early
<1> QED  BY <1>2, <1>3, <1>4, CallStep

(* An id goes to the one job whose command was on its way.                 *)
LEMMA OwnersInvariance ==
  ASSUME TypeInv, OwnersInv, NotSentInv, [Next]_vars
  PROVE  OwnersInv'
<1>0. /\ call \in [Jobs -> {"none", "sent", "accepted", "refused"}]
      /\ remote \in [Remotes -> [state : {"absent", "active"} \cup Done, owner : Jobs \cup {None}]]
      /\ None \notin Jobs
  BY ConstantsAssumption DEF TypeInv, TypeOK
<1>1. CASE UNCHANGED world
  BY <1>1 DEF OwnersInv, world
<1>2. ASSUME NEW j \in Jobs, worker[j].pc = "submitting",
             call' = [call EXCEPT ![j] = "sent"], remote' = remote
      PROVE  OwnersInv'
  <2>1. call[j] = "none"
    BY <1>2 DEF NotSentInv
  <2> QED  BY <1>0, <1>2, <2>1 DEF OwnersInv
<1>3. ASSUME NEW j \in Jobs, Accept(j) PROVE OwnersInv'
  <2>1. PICK r \in Remotes : /\ remote[r].state = "absent"
                             /\ remote' = [remote EXCEPT ![r] = [state |-> "active", owner |-> j]]
    BY <1>3 DEF Accept
  <2>2. call[j] = "sent" /\ call' = [call EXCEPT ![j] = "accepted"]
    BY <1>3 DEF Accept
  <2>3. remote'[r] = [state |-> "active", owner |-> j] /\ \A s \in Remotes \ {r} : remote'[s] = remote[s]
    BY <1>0, <2>1
  <2>4. \A s \in Remotes : remote[s].owner # j
    BY <1>0, <2>2 DEF OwnersInv
  <2>5. \A k \in Jobs : call[k] = "accepted" => call'[k] = "accepted"
    BY <1>0, <2>2
  <2>6. call'[j] = "accepted"
    BY <1>0, <2>2
  <2> QED  BY <1>0, <2>3, <2>4, <2>5, <2>6 DEF OwnersInv
<1>4. ASSUME NEW j \in Jobs, Refuse(j) PROVE OwnersInv'
  BY <1>0, <1>4 DEF Refuse, OwnersInv
<1>5. ASSUME NEW r \in Remotes, Settle(r) PROVE OwnersInv'
  <2>1. PICK state \in Done : remote' = [remote EXCEPT ![r].state = state]
    BY <1>5 DEF Settle
  <2>2. call' = call /\ remote[r].state = "active" /\ state # "absent"
    BY <1>5 DEF Settle, Done
  <2>3. remote'[r].state = state /\ \A s \in Remotes : remote'[s].owner = remote[s].owner
    BY <1>0, <2>1
  <2>4. \A s \in Remotes \ {r} : remote'[s] = remote[s]
    BY <1>0, <2>1
  <2> QED  BY <2>2, <2>3, <2>4 DEF OwnersInv
<1> QED  BY <1>1, <1>2, <1>3, <1>4, <1>5, CallStep DEF SalesforceStep

(* The second invariant holds for ever.                                    *)
LEMMA SubmissionInvariance == Spec => []SubmissionInv
<1>1. Init => SubmissionInv
  BY ConstantsAssumption
  DEF Init, SubmissionInv, OwnersInv, RolesInv, NotSentInv, Acting, NotStarted, Kept, Reconciling,
      Idle, NoRec
<1>2. TypeInv /\ SubmissionInv /\ [Next]_vars => SubmissionInv'
  BY RolesInvariance, NotSentInvariance, OwnersInvariance DEF SubmissionInv
<1> QED  BY <1>1, <1>2, TypeInvariance, PTL DEF Spec

(* No job is ever submitted to Salesforce twice: the attempt row, the      *)
(* status table and the order of the worker's steps let no path, through   *)
(* crashes, retries, reconciliation or repeated approval, back to Submit.  *)
THEOREM SingleSubmission == Spec => []SubmittedAtMostOnce
<1>1. SubmissionInv => SubmittedAtMostOnce
  <2> SUFFICES ASSUME OwnersInv, NEW j \in Jobs PROVE Cardinality(OwnRemotes(j)) <= 1
    BY DEF SubmissionInv, SubmittedAtMostOnce
  <2>1. CASE OwnRemotes(j) = {}
    BY <2>1, FS_EmptySet
  <2>2. CASE OwnRemotes(j) # {}
    <3>1. PICK r \in Remotes : remote[r].owner = j
      BY <2>2 DEF OwnRemotes
    <3>2. OwnRemotes(j) = {r}
      BY <3>1, ConstantsAssumption DEF OwnersInv, OwnRemotes
    <3> QED  BY <3>2, FS_Singleton
  <2> QED  BY <2>1, <2>2
<1> QED  BY <1>1, SubmissionInvariance, PTL

-----------------------------------------------------------------------------
(* What the program says of a job is true of Salesforce as long as         *)
(* administrators bind the right id: TruthInv.  The assumption             *)
(* AdminMistakes = FALSE is stated where it is used.                       *)
(* What may be true of everything a job has submitted.                     *)
Own(j, r)    == remote[r].owner = j
Settled(j)   == call[j] # "sent" /\ \A r \in Remotes : Own(j, r) => remote[r].state # "active"
Succeeded(j) == /\ call[j] \in {"none", "accepted"}
                /\ \A r \in Remotes : Own(j, r) => remote[r].state = "succeeded"

(* Every id the program holds for a job is the job's own.                  *)
IdsInv ==
  /\ \A j \in Jobs : attempt[j].remoteId # None => Own(j, attempt[j].remoteId)
  /\ \A j \in Jobs : worker[j].pc \in {"recording", "polling"} =>
       worker[j].rid \in Remotes /\ Own(j, worker[j].rid)

(* What a task, a kept completion or a reconciler takes for known is so.   *)
KnowledgeInv ==
  /\ \A j \in Jobs : worker[j].pc \in {"storing", "completing"} \/ Kept(j) => Succeeded(j)
  /\ \A j \in Jobs : worker[j].pc = "failing" => Settled(j)
  /\ \A a \in Actors, j \in Jobs : Reconciling(a, j) =>
       /\ rec[a].report # "running" => Settled(j)
       /\ rec[a].report = "succeeded" => Succeeded(j)

(* What the statuses say is so.                                            *)
Confirmed == {"APPROVAL_PENDING", "SUCCEEDED"}
StatusInv ==
  \A j \in Jobs : /\ job[j].status \in Confirmed => Succeeded(j)
                  /\ job[j].status = "FAILED" => Settled(j)

TruthInv == IdsInv /\ KnowledgeInv /\ StatusInv

-----------------------------------------------------------------------------
(* The types the leaves below use.                                         *)
LEMMA TruthTypes ==
  ASSUME TypeInv
  PROVE  /\ job \in JobRows /\ attempt \in AttemptRows /\ worker \in WorkerRows /\ rec \in RecRows
         /\ remote \in [Remotes -> [state : {"absent", "active"} \cup Done, owner : Jobs \cup {None}]]
         /\ call \in [Jobs -> {"none", "sent", "accepted", "refused"}]
         /\ pending \in [Jobs -> Completions \cup {None}]
         /\ None \notin Jobs /\ None \notin Remotes
  BY Rows, ConstantsAssumption DEF TypeInv, TypeOK

(* An owned id stays with its owner.                                       *)
LEMMA OwnerStays ==
  ASSUME TypeInv, OwnersInv, [Next]_vars, NEW r \in Remotes, remote[r].owner # None
  PROVE  remote'[r].owner = remote[r].owner
<1>1. ASSUME NEW j \in Jobs, Accept(j) PROVE remote'[r].owner = remote[r].owner
  <2>1. PICK s \in Remotes : /\ remote[s].state = "absent"
                             /\ remote' = [remote EXCEPT ![s] = [state |-> "active", owner |-> j]]
    BY <1>1 DEF Accept
  <2>2. s # r
    BY <2>1 DEF OwnersInv
  <2> QED  BY <2>1, <2>2, TruthTypes
<1>2. ASSUME NEW j \in Jobs, Refuse(j) PROVE remote'[r].owner = remote[r].owner
  BY <1>2 DEF Refuse
<1>3. ASSUME NEW s \in Remotes, Settle(s) PROVE remote'[r].owner = remote[r].owner
  BY <1>3, TruthTypes DEF Settle
<1> QED  BY <1>1, <1>2, <1>3, CallStep DEF SalesforceStep, world

(* A job of which nothing was sent has succeeded in everything it sent.    *)
LEMMA NothingSent ==
  ASSUME TypeInv, OwnersInv, NEW j \in Jobs, call[j] = "none"
  PROVE  Succeeded(j)
  BY TruthTypes DEF OwnersInv, Succeeded, Own

LEMMA SucceededIsSettled == ASSUME NEW j \in Jobs, Succeeded(j) PROVE Settled(j)
  BY DEF Succeeded, Settled

(* A final report of a job's own operation says what became of the job.    *)
LEMMA Reported ==
  ASSUME TypeInv, OwnersInv, NEW j \in Jobs, NEW r \in Remotes, Own(j, r),
         NEW report \in Reports(r), report # "running"
  PROVE  Settled(j) /\ (report = "succeeded" => Succeeded(j))
<1>1. call[j] = "accepted" /\ \A s \in Remotes : Own(j, s) => s = r
  BY TruthTypes DEF OwnersInv, Own
<1>2. remote[r].state # "active" /\ (report = "succeeded" => remote[r].state = "succeeded")
  BY TruthTypes DEF Reports, Done
<1> QED  BY <1>1, <1>2 DEF Settled, Succeeded

(* What is settled stays so, except for the job that is being submitted.   *)
LEMMA TruthStays ==
  ASSUME TypeInv, OwnersInv, [Next]_vars, NEW j \in Jobs, worker'[j].pc # "responding"
  PROVE  (Settled(j) => Settled(j)') /\ (Succeeded(j) => Succeeded(j)')
<1>1. CASE UNCHANGED world
  BY <1>1 DEF world, Settled, Succeeded, Own
<1>2. ASSUME NEW k \in Jobs, Submit(k), call' = [call EXCEPT ![k] = "sent"], remote' = remote
      PROVE  (Settled(j) => Settled(j)') /\ (Succeeded(j) => Succeeded(j)')
  <2>1. call'[j] = call[j]
    BY <1>2, TruthTypes DEF Submit, Goto, WorkerRows, WorkerRow
  <2> QED  BY <1>2, <2>1 DEF Settled, Succeeded, Own
<1>3. ASSUME NEW k \in Jobs, Accept(k)
      PROVE  (Settled(j) => Settled(j)') /\ (Succeeded(j) => Succeeded(j)')
  <2>1. PICK r \in Remotes : remote' = [remote EXCEPT ![r] = [state |-> "active", owner |-> k]]
    BY <1>3 DEF Accept
  <2>2. call[k] = "sent" /\ call' = [call EXCEPT ![k] = "accepted"]
    BY <1>3 DEF Accept
  <2>3. CASE k = j
    BY <2>2, <2>3 DEF Settled, Succeeded
  <2>4. CASE k # j
    <3>1. call'[j] = call[j] /\ ~Own(j, r)' /\ \A s \in Remotes \ {r} : remote'[s] = remote[s]
      BY <2>1, <2>2, <2>4, TruthTypes DEF Own
    <3> QED  BY <3>1 DEF Settled, Succeeded, Own
  <2> QED  BY <2>3, <2>4
<1>4. ASSUME NEW k \in Jobs, Refuse(k)
      PROVE  (Settled(j) => Settled(j)') /\ (Succeeded(j) => Succeeded(j)')
  BY <1>4, TruthTypes DEF Refuse, Settled, Succeeded, Own
<1>5. ASSUME NEW r \in Remotes, Settle(r)
      PROVE  (Settled(j) => Settled(j)') /\ (Succeeded(j) => Succeeded(j)')
  <2>1. remote[r].state = "active" /\ call' = call
    BY <1>5 DEF Settle
  <2>2. remote'[r].owner = remote[r].owner /\ \A s \in Remotes \ {r} : remote'[s] = remote[s]
    BY <1>5, TruthTypes DEF Settle
  <2> QED  BY <2>1, <2>2 DEF Settled, Succeeded, Own
<1> QED  BY <1>1, <1>2, <1>3, <1>4, <1>5, CallStep DEF SalesforceStep

-----------------------------------------------------------------------------
(* A step changes the attempt of one job at most; where its operation and  *)
(* its remote id then come from.                                           *)
LEMMA AttemptStep ==
  ASSUME TypeInv, [Next]_vars
  PROVE  \/ attempt' = attempt
         \/ \E j \in Jobs :
              /\ \A i \in Jobs \ {j} : attempt'[i] = attempt[i]
              /\ attempt'[j].op \in {attempt[j].op, IF j \in DryRuns THEN "VALIDATE" ELSE "DEPLOY"}
              /\ \/ attempt'[j].remoteId \in {attempt[j].remoteId, None}
                 \/ worker[j].pc \in {"recording", "polling"} /\ attempt'[j].remoteId = worker[j].rid
                 \/ \E r \in Remotes : Bind(j, r) /\ attempt'[j].remoteId = r
<1> DEFINE Changed(j) ==
             /\ \A i \in Jobs \ {j} : attempt'[i] = attempt[i]
             /\ attempt'[j].op \in {attempt[j].op, IF j \in DryRuns THEN "VALIDATE" ELSE "DEPLOY"}
             /\ \/ attempt'[j].remoteId \in {attempt[j].remoteId, None}
                \/ worker[j].pc \in {"recording", "polling"} /\ attempt'[j].remoteId = worker[j].rid
                \/ \E r \in Remotes : Bind(j, r) /\ attempt'[j].remoteId = r
<1>0. attempt \in AttemptRows
  BY TruthTypes
<1>1. \A j \in Jobs : \A row : attempt' = [attempt EXCEPT ![j] = row] =>
        attempt'[j] = row /\ \A i \in Jobs \ {j} : attempt'[i] = attempt[i]
  BY <1>0 DEF AttemptRows
<1>2. ASSUME NEW j \in Jobs, BeginAttempt(j), attempt' # attempt PROVE Changed(j)
  <2> DEFINE op == IF j \in DryRuns THEN "VALIDATE" ELSE "DEPLOY"
             row == [state |-> "SUBMITTING", op |-> op, remoteId |-> None,
                     outcome |-> "UNKNOWN", version |-> attempt[j].version + 1]
  <2>1. attempt' = [attempt EXCEPT ![j] = row]
    BY <1>2 DEF BeginAttempt
  <2>2. row.remoteId = None /\ row.op = op
    OBVIOUS
  <2> HIDE DEF row
  <2> QED  BY <1>1, <2>1, <2>2
<1>3. ASSUME NEW j \in Jobs, RecordSubmission(j), attempt' # attempt PROVE Changed(j)
  <2> DEFINE row == [attempt[j] EXCEPT !.state = "SUBMITTED", !.outcome = "SUBMITTED",
                                       !.remoteId = worker[j].rid, !.version = @ + 1]
  <2>1. attempt' = [attempt EXCEPT ![j] = row] /\ worker[j].pc = "recording"
    BY <1>3 DEF RecordSubmission, At
  <2>2. row.remoteId = worker[j].rid /\ row.op = attempt[j].op
    BY <1>0 DEF AttemptRows, AttemptRow
  <2> HIDE DEF row
  <2> QED  BY <1>1, <2>1, <2>2
<1>4. ASSUME NEW j \in Jobs, Poll(j), attempt' # attempt PROVE Changed(j)
  <2>1. PICK report : Progress(j, report)
    BY <1>4 DEF Poll
  <2> DEFINE row == [attempt[j] EXCEPT !.state = IF report = "running" THEN "SUBMITTED" ELSE "TERMINAL",
                                       !.outcome = AttemptOutcome(report),
                                       !.remoteId = worker[j].rid, !.version = @ + 1]
  <2>2. attempt' = [attempt EXCEPT ![j] = row]
    BY <1>4, <2>1 DEF Progress
  <2>4. worker[j].pc = "polling"
    BY <1>4 DEF Poll, At
  <2>3. row.remoteId = worker[j].rid /\ row.op = attempt[j].op
    BY <1>0 DEF AttemptRows, AttemptRow
  <2> HIDE DEF row
  <2> QED  BY <1>1, <2>2, <2>3, <2>4
<1>5. ASSUME NEW a \in Actors, ReconcileRecord(a), attempt' # attempt
      PROVE  rec[a].job \in Jobs /\ Changed(rec[a].job)
  <2> DEFINE old == attempt[rec[a].job]
             row == [old EXCEPT !.state = IF rec[a].report # "running" THEN "TERMINAL" ELSE "SUBMITTED",
                                !.outcome = ReconciledOutcome(rec[a].report), !.version = @ + 1]
  <2>1. attempt' = [attempt EXCEPT ![rec[a].job] = row]
    BY <1>5 DEF ReconcileRecord
  <2>2. rec[a].job \in Jobs
    BY <1>5 DEF ReconcileRecord, TypeInv, RecInv
  <2>3. row.remoteId = old.remoteId /\ row.op = old.op
    BY <1>0, <2>2 DEF AttemptRows, AttemptRow
  <2> HIDE DEF row
  <2> QED  BY <1>1, <2>1, <2>2, <2>3
<1>6. ASSUME NEW j \in Jobs, NEW r \in Remotes, Bind(j, r) PROVE Changed(j)
  <2> DEFINE row == [attempt[j] EXCEPT !.state = "SUBMITTED", !.outcome = "SUBMITTED",
                                       !.remoteId = r, !.version = @ + 1]
  <2>1. attempt' = [attempt EXCEPT ![j] = row]
    BY <1>6 DEF Bind
  <2>2. row.remoteId = r /\ row.op = attempt[j].op
    BY <1>0 DEF AttemptRows, AttemptRow
  <2> HIDE DEF row
  <2> QED  BY <1>1, <1>6, <2>1, <2>2
<1>7. ASSUME NEW j \in Jobs, RequestStep(j) \/ RetryStep(j) \/ WorkerStep(j), attempt' # attempt
      PROVE  Changed(j)
  BY <1>2, <1>3, <1>4, <1>7
  DEF RequestStep, Create, Enqueue, Abandon, RetryStep, RetryRead, RetryWrite, RetryFail,
      WorkerStep,
      Start, Prepare, Submit, Respond, LoseResponse, LosePoll, StoreArtifacts, RecordFailure, Complete,
      Verify, db
<1>8. ASSUME UserStep, attempt' # attempt PROVE \E j \in Jobs : Changed(j)
  <2>1. \A d \in DryRuns : Approve(d) => attempt' = attempt
    BY DEF Approve
  <2>2. \A a \in Actors : ReconcileFinish(a) \/ (\E j \in Jobs : ReconcileReport(a, j)) => attempt' = attempt
    BY DEF ReconcileFinish, ReconcileReport, db
  <2> HIDE DEF Changed
  <2> QED  BY <1>5, <1>6, <1>8, <2>1, <2>2 DEF UserStep
<1>9. SalesforceStep \/ ProcessStep \/ UNCHANGED vars => attempt' = attempt
  BY DEF SalesforceStep, Accept, Refuse, Settle, ProcessStep, Recover, RecoverFail, Boot,
         StopAccepting, Flushed, Close, Crash, Restart, vars, db
<1>10. attempt' = attempt \/ \E j \in Jobs : Changed(j)
  <2> HIDE DEF Changed
  <2> QED  BY <1>7, <1>8, <1>9 DEF Next
<1> QED  BY <1>10

(* Steps of others do not move a task; a crash or a close ends it.         *)
LEMMA WorkerChange ==
  ASSUME [Next]_vars
  PROVE  \/ worker' = worker /\ pending' = pending /\ retrying' = retrying
         \/ ForgetMemory
         \/ \E j \in Jobs : RequestStep(j) /\ pending' = pending /\ retrying' = retrying
         \/ \E j \in Jobs : WorkerStep(j)
         \/ \E j \in Jobs : RetryStep(j) /\ worker' = worker
<1> DEFINE Same == worker' = worker /\ pending' = pending /\ retrying' = retrying
<1>1. UserStep => Same
  <2>1. \A d \in DryRuns : Approve(d) => Same
    BY DEF Approve
  <2>2. \A a \in Actors : ReconcileRecord(a) \/ ReconcileFinish(a) => Same
    BY DEF ReconcileRecord, ReconcileFinish
  <2>3. \A j \in Jobs : /\ \A a \in Actors : ReconcileReport(a, j) => Same
                        /\ \A r \in Remotes : Bind(j, r) => Same
    BY DEF ReconcileReport, Bind, memory
  <2> QED  BY <2>1, <2>2, <2>3 DEF UserStep
<1>2. SalesforceStep \/ UNCHANGED vars => Same
  BY DEF SalesforceStep, Accept, Refuse, Settle, vars, memory
<1>3. ProcessStep => Same \/ ForgetMemory
  BY
  DEF ProcessStep, Recover, RecoverFail, Boot, StopAccepting, Flushed, Close, Crash, Restart, memory
<1>4. \A j \in Jobs : RequestStep(j) => pending' = pending /\ retrying' = retrying
  BY DEF RequestStep, Create, Enqueue, Abandon
<1>5. \A j \in Jobs : RetryStep(j) => worker' = worker
  BY DEF RetryStep, RetryRead, RetryWrite, RetryFail
<1> QED  BY <1>1, <1>2, <1>3, <1>4, <1>5 DEF Next

(* A request only queues a task.                                           *)
LEMMA RequestWorker ==
  ASSUME worker \in WorkerRows, NEW j \in Jobs, RequestStep(j), NEW k \in Jobs
  PROVE  worker'[k] = worker[k] \/ worker'[k].pc = "queued"
  BY DEF RequestStep, Create, Enqueue, Abandon, WorkerRows, WorkerRow

(* Where the id a task holds comes from.                                   *)
LEMMA WorkerIdStep ==
  ASSUME TypeInv, RolesInv, [Next]_vars, NEW k \in Jobs, worker'[k].pc \in {"recording", "polling"}
  PROVE  \/ worker[k].pc \in {"recording", "polling"} /\ worker'[k].rid = worker[k].rid
         \/ worker'[k].rid \in Remotes /\ Own(k, worker'[k].rid)
<1> DEFINE Goal == \/ worker[k].pc \in {"recording", "polling"} /\ worker'[k].rid = worker[k].rid
                   \/ worker'[k].rid \in Remotes /\ Own(k, worker'[k].rid)
<1>0. worker \in WorkerRows
  BY TruthTypes
<1>1. ASSUME NEW j \in Jobs, WorkerStep(j) PROVE Goal
  <2>1. CASE k # j
    BY <1>1, <2>1, TaskFrame
  <2>2. CASE k = j /\ Respond(k)
    BY <1>0, <2>2 DEF Respond, Own, WorkerRows, WorkerRow
  <2>3. CASE k = j /\ (RecordSubmission(k) \/ Poll(k))
    BY <1>0, <2>3 DEF RecordSubmission, Poll, At, Goto, Fail, Idle, WorkerRows, WorkerRow
  <2>4. CASE k = j /\ ~Respond(k) /\ ~RecordSubmission(k) /\ ~Poll(k)
    <3>1. \/ Finish(k) \/ Fail(k)
          \/ \E pc \in Pcs \ {"recording", "polling"} : worker'[k].pc = pc
      BY <1>0, <1>1, <2>4
      DEF WorkerStep, Start, Prepare, BeginAttempt, Submit, LoseResponse, LosePoll, StoreArtifacts,
          RecordFailure, Complete, Verify, Goto, Pcs, WorkerRows, WorkerRow
    <3> QED  BY <1>0, <3>1 DEF Finish, Fail, Goto, Idle, WorkerRows, WorkerRow
  <2> QED  BY <1>1, <2>1, <2>2, <2>3, <2>4
<1>2. CASE ForgetMemory
  BY <1>2 DEF ForgetMemory, Idle
<1> QED  BY <1>0, <1>1, <1>2, WorkerChange, RequestWorker

(* The ids stay right: a job's id comes from the answer to its own command,*)
(* or from an administrator who names the right one.                       *)
LEMMA IdsInvariance ==
  ASSUME TypeInv, SubmissionInv, IdsInv, [Next]_vars, AdminMistakes = FALSE
  PROVE  IdsInv'
<1>1. ASSUME NEW j \in Jobs, NEW r \in Remotes, Own(j, r) PROVE Own(j, r)'
  BY <1>1, OwnerStays, TruthTypes DEF Own, SubmissionInv
<1>2. ASSUME NEW j \in Jobs, attempt'[j].remoteId # None 
      PROVE  remote'[attempt'[j].remoteId].owner = j
  <2>1. attempt[j].remoteId \in Remotes \cup {None}
    BY TruthTypes DEF AttemptRows, AttemptRow
  <2>2. \A r \in Remotes : Bind(j, r) => Own(j, r)
    BY DEF Bind, Own
  <2>3. attempt'[j].remoteId \in Remotes /\ Own(j, attempt'[j].remoteId)
    <3>1. attempt'[j].remoteId # attempt[j].remoteId =>
            \/ worker[j].pc \in {"recording", "polling"} /\ attempt'[j].remoteId = worker[j].rid
            \/ \E r \in Remotes : Bind(j, r) /\ attempt'[j].remoteId = r
      BY <1>2, AttemptStep
    <3> QED  BY <1>2, <2>1, <2>2, <3>1 DEF IdsInv
  <2> QED  BY <1>1, <2>3 DEF Own
<1>3. ASSUME NEW j \in Jobs, worker'[j].pc \in {"recording", "polling"}
      PROVE  worker'[j].rid \in Remotes /\ remote'[worker'[j].rid].owner = j
  <2>1. worker'[j].rid \in Remotes /\ Own(j, worker'[j].rid)
    BY <1>3, WorkerIdStep DEF IdsInv, SubmissionInv
  <2> QED  BY <1>1, <2>1 DEF Own
<1> QED  BY <1>2, <1>3 DEF IdsInv, Own

-----------------------------------------------------------------------------
(* What a task comes to know: that nothing was sent, or what a report says.*)
LEMMA TaskLearns ==
  ASSUME TypeInv, SubmissionInv, IdsInv, KnowledgeInv, NEW j \in Jobs, WorkerStep(j)
  PROVE  /\ worker'[j].pc \in {"storing", "completing"} \/ Kept(j)' => Succeeded(j)
         /\ worker'[j].pc = "failing" => Settled(j)
<1> DEFINE Learned == /\ worker'[j].pc \in {"storing", "completing"} => Succeeded(j)
                      /\ worker'[j].pc = "failing" => Settled(j)
<1>0. worker \in WorkerRows
  BY TruthTypes
<1>1. worker[j].pc \in Early => Succeeded(j) /\ Settled(j)
  BY NothingSent, SucceededIsSettled DEF Early, SubmissionInv, NotSentInv
<1>2. worker[j].pc = "storing" => Succeeded(j) /\ Settled(j)
  BY SucceededIsSettled DEF KnowledgeInv
<1>3. ASSUME worker[j].pc \in Early \cup {"storing"} PROVE Learned
  BY <1>1, <1>2, <1>3
<1>4. ASSUME Poll(j) PROVE Learned
  <2>1. worker[j].rid \in Remotes /\ Own(j, worker[j].rid) /\ worker[j].pc = "polling"
    BY <1>4 DEF Poll, At, IdsInv
  <2>2. PICK report \in Reports(worker[j].rid) :
          CASE report = "running"   -> UNCHANGED worker
            [] report = "succeeded" -> Goto(j, "storing")
            [] OTHER                -> Fail(j)
    BY <1>4 DEF Poll
  <2>3. CASE report = "running"
    BY <2>1, <2>2, <2>3
  <2>4. CASE report = "succeeded"
    <3>1. Succeeded(j)
      BY <2>1, <2>4, Reported DEF SubmissionInv
    <3> QED  BY <3>1, SucceededIsSettled
  <2>5. CASE report \notin {"running", "succeeded"}
    <3>1. Settled(j) /\ Fail(j)
      BY <2>1, <2>2, <2>5, Reported DEF SubmissionInv
    <3>2. worker'[j].pc \in {"failing", "unknown"}
      BY <1>0, <3>1 DEF Fail, Goto, Idle, WorkerRows, WorkerRow
    <3> QED  BY <3>1, <3>2
  <2> QED  BY <2>3, <2>4, <2>5
<1>5. ASSUME worker[j].pc \notin Early \cup {"storing"}, ~Poll(j) PROVE Learned
  <2>1. \/ Finish(j) \/ Start(j) \/ worker'[j].pc \in Pcs \ {"storing", "completing", "failing"}
    BY <1>0, <1>5
    DEF WorkerStep, Prepare, BeginAttempt, Submit, Respond, LoseResponse, RecordSubmission,
        LosePoll,
        StoreArtifacts, RecordFailure, Complete, Verify, At, Goto, Early, Pcs, WorkerRows, WorkerRow
  <2> QED  BY <1>0, <2>1 DEF Start, Finish, Goto, Idle, WorkerRows, WorkerRow
<1>6. Learned
  BY <1>3, <1>4, <1>5
<1>7. Kept(j)' => Kept(j) \/ worker[j].pc = "completing"
  <2>1. CASE pending' = pending \/ pending' = [pending EXCEPT ![j] = None]
    BY <2>1, TaskFrame, TruthTypes DEF Kept, SubmissionInv
  <2>2. CASE Complete(j)
    BY <2>2 DEF Complete, At
  <2> QED  BY <2>1, <2>2
       DEF WorkerStep, Start, Prepare, BeginAttempt, Submit, Respond, LoseResponse,
           RecordSubmission,
           Poll, LosePoll, StoreArtifacts, RecordFailure, Verify
<1> QED  BY <1>6, <1>7 DEF KnowledgeInv

(* What any step lets the program take for known of a job is already so.   *)
LEMMA Learns ==
  ASSUME TypeInv, SubmissionInv, IdsInv, KnowledgeInv, [Next]_vars, NEW k \in Jobs
  PROVE  /\ worker'[k].pc \in {"storing", "completing"} \/ Kept(k)' => Succeeded(k)
         /\ worker'[k].pc = "failing" => Settled(k)
<1> DEFINE Goal == /\ worker'[k].pc \in {"storing", "completing"} \/ Kept(k)' => Succeeded(k)
                   /\ worker'[k].pc = "failing" => Settled(k)
<1>0. /\ worker[k].pc \in {"storing", "completing"} \/ Kept(k) => Succeeded(k)
      /\ worker[k].pc = "failing" => Settled(k)
  BY DEF KnowledgeInv
<1>1. CASE worker' = worker /\ pending' = pending /\ retrying' = retrying
  BY <1>0, <1>1 DEF Kept
<1>2. CASE ForgetMemory
  BY <1>2 DEF ForgetMemory, Idle, Kept
<1>3. ASSUME NEW j \in Jobs, RequestStep(j), pending' = pending, retrying' = retrying PROVE Goal
  <2>1. worker'[k] = worker[k] \/ worker'[k].pc = "queued"
    BY <1>3, RequestWorker, TruthTypes
  <2> QED  BY <1>0, <1>3, <2>1 DEF Kept
<1>4. ASSUME NEW j \in Jobs, WorkerStep(j) PROVE Goal
  <2>1. CASE k = j
    BY <1>4, <2>1, TaskLearns
  <2>2. CASE k # j
    BY <1>0, <1>4, <2>2, TaskFrame DEF Kept, SubmissionInv
  <2> QED  BY <2>1, <2>2
<1>5. ASSUME NEW j \in Jobs, RetryStep(j), worker' = worker PROVE Goal
  <2>1. pending' = pending \/ pending' = [pending EXCEPT ![j] = None]
    BY <1>5 DEF RetryStep, RetryRead, RetryWrite, RetryFail
  <2>2. \/ retrying' = retrying \/ retrying' = None
        \/ pending[j] # None /\ retrying' = [job |-> j, completion |-> pending[j]]
    BY <1>5 DEF RetryStep, RetryRead, RetryWrite, RetryFail
  <2>3. Kept(k)' => Kept(k)
    BY <2>1, <2>2, TruthTypes DEF Kept
  <2> QED  BY <1>0, <1>5, <2>3
<1> QED  BY <1>1, <1>2, <1>3, <1>4, <1>5, WorkerChange

(* What a reconciler comes to know.                                        *)
LEMMA ReconcilerLearns ==
  ASSUME TypeInv, SubmissionInv, IdsInv, KnowledgeInv, [Next]_vars,
         NEW a \in Actors, NEW k \in Jobs, Reconciling(a, k)'
  PROVE  /\ rec'[a].report # "running" => Settled(k)
         /\ rec'[a].report = "succeeded" => Succeeded(k)
<1> DEFINE Goal == /\ rec'[a].report # "running" => Settled(k)
                   /\ rec'[a].report = "succeeded" => Succeeded(k)
<1>0. Reconciling(a, k) => /\ rec[a].report # "running" => Settled(k)
                           /\ rec[a].report = "succeeded" => Succeeded(k)
  BY DEF KnowledgeInv
<1>11. rec \in RecRows /\ None \notin Jobs
  BY TruthTypes
<1>1. CASE rec' = rec
  BY <1>0, <1>1 DEF Reconciling
<1>2. CASE ForgetMemory
  BY <1>2 DEF ForgetMemory, NoRec, Reconciling
<1>3. ASSUME NEW b \in Actors, NEW j \in Jobs, ReconcileReport(b, j) PROVE Goal
  <2>1. PICK report \in Reports(attempt[j].remoteId) :
          rec' = [rec EXCEPT ![b] = [pc |-> "reported", job |-> j,
                                     version |-> attempt[j].version, report |-> report]]
    BY <1>3 DEF ReconcileReport
  <2>2. attempt[j].remoteId \in Remotes /\ Own(j, attempt[j].remoteId)
    BY <1>3, TruthTypes DEF ReconcileReport, IdsInv, AttemptRows, AttemptRow
  <2>3. CASE a = b
    <3>1. k = j /\ rec'[a].report = report
      BY <2>1, <2>3, TruthTypes DEF Reconciling, RecRows
    <3> QED  BY <2>2, <3>1, Reported DEF SubmissionInv
  <2>4. CASE a # b
    BY <1>0, <2>1, <2>4, TruthTypes DEF Reconciling, RecRows
  <2> QED  BY <2>3, <2>4
<1>4. ASSUME NEW b \in Actors, ReconcileRecord(b) \/ ReconcileFinish(b) PROVE Goal
  <2>1. rec' = [rec EXCEPT ![b] = NoRec] \/ rec' = [rec EXCEPT ![b].pc = "recorded"]
    BY <1>4 DEF ReconcileRecord, ReconcileFinish
  <2>2. rec[b].pc # "idle"
    BY <1>4 DEF ReconcileRecord, ReconcileFinish
  <2>3. Reconciling(a, k) /\ rec'[a].report = rec[a].report
    BY <1>11, <2>1, <2>2 DEF Reconciling, NoRec, RecRows
  <2> QED  BY <1>0, <2>3
<1>5. \A j \in Jobs : RequestStep(j) \/ RetryStep(j) => rec' = rec
  BY DEF RequestStep, Create, Enqueue, Abandon, RetryStep, RetryRead, RetryWrite, RetryFail
<1>6. \A j \in Jobs : WorkerStep(j) => rec' = rec
  BY TaskFrame DEF SubmissionInv
<1>7. \A d \in DryRuns : Approve(d) => rec' = rec
  BY DEF Approve
<1>8. \A j \in Jobs, r \in Remotes : Bind(j, r) => rec' = rec
  BY DEF Bind, memory
<1>9. SalesforceStep \/ UNCHANGED vars => rec' = rec
  BY DEF SalesforceStep, Accept, Refuse, Settle, vars, memory
<1>10. ProcessStep => rec' = rec \/ ForgetMemory
  BY
  DEF ProcessStep, Recover, RecoverFail, Boot, StopAccepting, Flushed, Close, Crash, Restart, memory
<1> QED  BY <1>1, <1>2, <1>3, <1>4, <1>5, <1>6, <1>7, <1>8, <1>9, <1>10 DEF Next, UserStep

(* What the program knows stays true: the only step that could spoil it,   *)
(* the submission, is taken by a task that knows nothing yet.              *)
LEMMA KnowledgeInvariance ==
  ASSUME TypeInv, SubmissionInv, SubmissionInv', IdsInv, KnowledgeInv, [Next]_vars
  PROVE  KnowledgeInv'
<1>1. \A k \in Jobs : worker'[k].pc = "responding" =>
        /\ ~Kept(k)' /\ \A a \in Actors : ~Reconciling(a, k)'
  BY DEF SubmissionInv, RolesInv, Acting, Running, Completed
<1>2. \A k \in Jobs : worker'[k].pc # "responding" =>
        (Settled(k) => Settled(k)') /\ (Succeeded(k) => Succeeded(k)')
  BY TruthStays DEF SubmissionInv
<1>3. ASSUME NEW k \in Jobs, worker'[k].pc \in {"storing", "completing"} \/ Kept(k)' PROVE Succeeded(k)'
  BY <1>1, <1>2, <1>3, Learns
<1>4. ASSUME NEW k \in Jobs, worker'[k].pc = "failing" PROVE Settled(k)'
  BY <1>2, <1>4, Learns
<1>5. ASSUME NEW a \in Actors, NEW k \in Jobs, Reconciling(a, k)'
      PROVE  /\ rec'[a].report # "running" => Settled(k)'
             /\ rec'[a].report = "succeeded" => Succeeded(k)'
  BY <1>1, <1>2, <1>5, ReconcilerLearns
<1> QED  BY <1>3, <1>4, <1>5 DEF KnowledgeInv

-----------------------------------------------------------------------------
(* A transition to a status that is true of its job keeps all of them true.*)
LEMMA TrueTransition ==
  ASSUME job \in JobRows, StatusInv, NEW j \in Jobs, NEW next, NEW sf, Transition(j, next, sf),
         next \in Confirmed => Succeeded(j), next = "FAILED" => Settled(j), NEW k \in Jobs
  PROVE  /\ job'[k].status \in Confirmed => Succeeded(k)
         /\ job'[k].status = "FAILED" => Settled(k)
<1>1. CASE k = j
  BY <1>1, StatusMove
<1>2. CASE k # j
  BY <1>2, StatusMove DEF StatusInv
<1> QED  BY <1>1, <1>2

(* A transition takes the job to a status that is true of it.              *)
LEMMA StatusLearns ==
  ASSUME TypeInv, SubmissionInv, KnowledgeInv, StatusInv, [Next]_vars, NEW k \in Jobs
  PROVE  /\ job'[k].status \in Confirmed => Succeeded(k)
         /\ job'[k].status = "FAILED" => Settled(k)
<1> DEFINE Goal == /\ job'[k].status \in Confirmed => Succeeded(k)
                   /\ job'[k].status = "FAILED" => Settled(k)
<1>0. job \in JobRows
  BY TruthTypes
<1>1. \A j \in Jobs : CompletedStatus(j) \in Confirmed /\ RunningStatus(j) \notin Confirmed \cup {"FAILED"}
  BY DEF CompletedStatus, RunningStatus, Confirmed
<1>2. CASE job'[k].status = job[k].status
  BY <1>2 DEF StatusInv
<1>3. ASSUME NEW j \in Jobs, job'[j].status = "QUEUED", \A i \in Jobs \ {j} : job'[i].status = job[i].status
      PROVE  Goal
  BY <1>3 DEF StatusInv, Confirmed
<1>4. ASSUME NEW j \in Jobs, NotStarted(j), NEW sf, Transition(j, "FAILED", sf) PROVE Goal
  <2>1. Settled(j)
    BY <1>4, NothingSent, SucceededIsSettled DEF SubmissionInv, NotSentInv
  <2> QED  BY <1>0, <1>4, <2>1, TrueTransition DEF Confirmed
<1>5. ASSUME NEW j \in Jobs, NEW next, NEW sf, Transition(j, next, sf), next \notin Confirmed \cup {"FAILED"}
      PROVE  Goal
  BY <1>0, <1>5, TrueTransition
<1>6. ASSUME NEW j \in Jobs, Succeeded(j), NEW sf, Transition(j, CompletedStatus(j), sf) PROVE Goal
  BY <1>0, <1>1, <1>6, TrueTransition DEF Confirmed
<1>7. ASSUME NEW j \in Jobs, Enqueue(j) \/ Abandon(j), job' # job PROVE Goal
  BY <1>4, <1>7 DEF Enqueue, Abandon, NotStarted
<1>8. ASSUME NEW j \in Jobs, Start(j), job' # job PROVE Goal
  BY <1>1, <1>5, <1>8 DEF Start
<1>9. ASSUME NEW j \in Jobs, RecordFailure(j), job' # job PROVE Goal
  <2>1. CASE worker[j].pc = "failing" /\ Transition(j, "FAILED", None)
    BY <1>0, <2>1, TrueTransition DEF KnowledgeInv, Confirmed
  <2>2. CASE Transition(j, "RECONCILE_REQUIRED", worker[j].rid)
    BY <1>5, <2>2 DEF Confirmed
  <2> QED  BY <1>9, <2>1, <2>2 DEF RecordFailure, At
<1>10. ASSUME NEW j \in Jobs, Complete(j), job' # job PROVE Goal
  <2>1. Succeeded(j) /\ Transition(j, CompletedStatus(j), worker[j].rid)
    BY <1>10 DEF Complete, At, KnowledgeInv
  <2> QED  BY <1>6, <2>1
<1>11. ASSUME NEW j \in Jobs, Verify(j), job' # job PROVE Goal
  <2>1. Transition(j, "RECONCILE_REQUIRED", worker[j].rid)
    BY <1>11 DEF Verify
  <2> QED  BY <1>5, <2>1 DEF Confirmed
<1>12. ASSUME NEW j \in Jobs, RetryStep(j), job' # job PROVE Goal
  <2>1. Retrying(j) /\ Transition(j, CompletedStatus(j), retrying.completion.rid)
    BY <1>12 DEF RetryStep, RetryRead, RetryWrite, RetryFail, RetryTransition, db
  <2>2. Succeeded(j)
    BY <2>1 DEF Retrying, Kept, KnowledgeInv
  <2> QED  BY <1>6, <2>1, <2>2
<1>13. ASSUME NEW a \in Actors, ReconcileFinish(a), job' # job PROVE Goal
  <2> DEFINE j == rec[a].job
  <2>1. j \in Jobs /\ Reconciling(a, j) /\ rec[a].report # "running"
    BY <1>13 DEF ReconcileFinish, Reconciling, TypeInv, RecInv
  <2>2. Settled(j) /\ (rec[a].report = "succeeded" => Succeeded(j))
    BY <2>1 DEF KnowledgeInv
  <2>3. PICK next : /\ Transition(j, next, None)
                    /\ rec[a].report # "succeeded" => next = "FAILED"
    BY <1>13 DEF ReconcileFinish
  <2> HIDE DEF j
  <2>4. /\ next \in Confirmed => Succeeded(j)
        /\ next = "FAILED" => Settled(j)
    BY <2>2, <2>3 DEF Confirmed
  <2> QED  BY <1>0, <2>1, <2>3, <2>4, TrueTransition
<1>14. ASSUME NEW j \in Jobs, Recover(j) PROVE Goal
  BY <1>4, <1>5, <1>14 DEF Recover, NotStarted, Confirmed
<1>15. ASSUME NEW j \in Jobs, WorkerStep(j) PROVE Goal
  <2>1. CASE BeginAttempt(j) \/ RecordSubmission(j) \/ Poll(j) \/ StoreArtifacts(j)
    <3>1. \/ job' = job
          \/ \E x : job' = [job EXCEPT ![j].sfId = x]
          \/ job' = [job EXCEPT ![j].prepared = TRUE]
      BY <2>1 DEF BeginAttempt, RecordSubmission, Poll, Progress, StoreArtifacts
    <3>2. job'[k].status = job[k].status
      BY <1>0, <3>1 DEF JobRows, JobRow
    <3> QED  BY <1>2, <3>2
  <2>2. CASE Prepare(j) \/ Submit(j) \/ Respond(j) \/ LoseResponse(j) \/ LosePoll(j)
    BY <1>2, <2>2 DEF Prepare, Submit, Respond, LoseResponse, LosePoll, db
  <2> QED  BY <1>2, <1>8, <1>9, <1>10, <1>11, <1>15, <2>1, <2>2 DEF WorkerStep
<1>16. ASSUME NEW j \in Jobs, RequestStep(j) PROVE Goal
  <2>1. CASE Create(j)
    BY <1>0, <1>3, <2>1 DEF Create, JobRows, JobRow
  <2> QED  BY <1>2, <1>7, <1>16, <2>1 DEF RequestStep
<1>17. ASSUME NEW d \in DryRuns, Approve(d), job' # job PROVE Goal
  <2>1. PICK j \in Deploys : job' = [job EXCEPT ![j] = [status |-> "QUEUED", prepared |-> TRUE,
                                                       sfId |-> None, dryRun |-> d]]
    BY <1>17 DEF Approve
  <2>2. j \in Jobs /\ job'[j].status = "QUEUED" /\ \A i \in Jobs \ {j} : job'[i] = job[i]
    BY <1>0, <2>1 DEF Jobs, JobRows
  <2> QED  BY <1>3, <2>2
<1>18. ASSUME NEW a \in Actors, ReconcileRecord(a) PROVE Goal
  <2>1. job' = job \/ \E x : job' = [job EXCEPT ![rec[a].job].sfId = x]
    BY <1>18 DEF ReconcileRecord
  <2>2. job'[k].status = job[k].status
    BY <1>0, <2>1, IdWrite
  <2> QED  BY <1>2, <2>2
<1>19. ASSUME NEW j \in Jobs, NEW r \in Remotes, Bind(j, r) PROVE Goal
  <2>1. job'[k].status = job[k].status
    BY <1>0, <1>19 DEF Bind, JobRows, JobRow
  <2> QED  BY <1>2, <2>1
<1>20. CASE UserStep
  <2>1. \A a \in Actors, j \in Jobs : ReconcileReport(a, j) => job' = job
    BY DEF ReconcileReport, db
  <2> QED  BY <1>2, <1>13, <1>17, <1>18, <1>19, <1>20, <2>1 DEF UserStep
<1>21. CASE SalesforceStep \/ UNCHANGED vars
  BY <1>2, <1>21 DEF SalesforceStep, Accept, Refuse, Settle, vars, db
<1>22. CASE ProcessStep
  BY <1>2, <1>14, <1>22
  DEF ProcessStep, RecoverFail, Boot, StopAccepting, Flushed, Close, Crash, Restart, db
<1> QED  BY <1>2, <1>12, <1>15, <1>16, <1>20, <1>21, <1>22 DEF Next

(* The statuses stay true.                                                 *)
LEMMA StatusInvariance ==
  ASSUME TypeInv, SubmissionInv, SubmissionInv', KnowledgeInv, StatusInv, [Next]_vars
  PROVE  StatusInv'
<1>1. ASSUME NEW k \in Jobs, job'[k].status \in Confirmed \cup {"FAILED"}
      PROVE  (Settled(k) => Settled(k)') /\ (Succeeded(k) => Succeeded(k)')
  <2>1. worker'[k].pc # "responding"
    BY <1>1 DEF SubmissionInv, RolesInv, Acting, Running, Confirmed
  <2> QED  BY <2>1, TruthStays DEF SubmissionInv
<1> QED  BY <1>1, StatusLearns DEF StatusInv

LEMMA TruthInvariance ==
  ASSUME AdminMistakes = FALSE
  PROVE  Spec => []TruthInv
<1>1. Init => TruthInv
  BY ConstantsAssumption
  DEF Init, TruthInv, IdsInv, KnowledgeInv, StatusInv, Confirmed, Kept, Reconciling, NoAttempt,
      Idle, NoRec
<1>2. TypeInv /\ SubmissionInv /\ SubmissionInv' /\ TruthInv /\ [Next]_vars => TruthInv'
  BY IdsInvariance, KnowledgeInvariance, StatusInvariance DEF TruthInv
<1> QED  BY <1>1, <1>2, TypeInvariance, SubmissionInvariance, PTL DEF Spec

(* A job is reported successful only when all it submitted has succeeded:  *)
(* neither a lost answer, a late acceptance, a retried completion nor a    *)
(* reconciliation of an old report turns anything else into a success.     *)
THEOREM TruthfulSuccess ==
  ASSUME AdminMistakes = FALSE
  PROVE  Spec => []SuccessIsReal
<1>1. TruthInv => SuccessIsReal
  BY DEF TruthInv, StatusInv, Confirmed, Succeeded, Own, SuccessIsReal, OwnRemotes
<1> QED  BY <1>1, TruthInvariance, PTL

(* A job is reported failed only when nothing of it is under way.          *)
THEOREM SettledFailure ==
  ASSUME AdminMistakes = FALSE
  PROVE  Spec => []FailureIsSettled
<1>1. TruthInv => FailureIsSettled
  BY DEF TruthInv, StatusInv, Settled, Own, FailureIsSettled, OwnRemotes
<1> QED  BY <1>1, TruthInvariance, PTL

-----------------------------------------------------------------------------
(* No deployment validates, and so no job waits for the execution of what  *)
(* it has validated: that status, the only completed one the table lets a  *)
(* job leave, is not reached.                                              *)
NoValidationInv ==
  \A j \in Jobs : /\ j \in Deploys => attempt[j].op # "VALIDATE"
                  /\ job[j].status # "VALIDATED_PENDING_EXECUTION"

(* Only the reconciliation of a deployment that validated gets there.      *)
LEMMA NoValidationInvariance ==
  ASSUME TypeInv, SubmissionInv, NoValidationInv, [Next]_vars
  PROVE  NoValidationInv'
<1>0. job \in JobRows /\ DryRuns \cap Deploys = {}
  BY TruthTypes, ConstantsAssumption
<1>1. ASSUME NEW j \in Deploys PROVE attempt'[j].op # "VALIDATE"
  BY <1>1, <1>0, AttemptStep DEF NoValidationInv, Jobs
<1>2. ASSUME NEW j \in Jobs PROVE job'[j].status # "VALIDATED_PENDING_EXECUTION"
  <2>1. CASE job'[j].status = job[j].status \/ job'[j].status = "QUEUED"
    BY <2>1 DEF NoValidationInv
  <2>2. ASSUME NEW next, NEW sf, Transition(j, next, sf), Legacy(j, next)
        PROVE  job'[j].status # "VALIDATED_PENDING_EXECUTION"
    BY <1>0, <2>2, StatusMove DEF Legacy, NoValidationInv
  <2> QED  BY <1>0, <2>1, <2>2, StatusStep, StatusMove
<1> QED  BY <1>1, <1>2 DEF NoValidationInv

LEMMA NoValidation == Spec => []NoValidationInv
<1>1. Init => NoValidationInv
  BY ConstantsAssumption DEF Init, NoValidationInv, NoAttempt
<1>2. TypeInv /\ SubmissionInv /\ NoValidationInv /\ [Next]_vars => NoValidationInv'
  BY NoValidationInvariance
<1> QED  BY <1>1, <1>2, TypeInvariance, SubmissionInvariance, PTL DEF Spec

(* A completed job keeps its status for ever.                              *)
THEOREM CompletionIsFinal == Spec => CompletedIsFinal
<1> DEFINE A == \A j \in Jobs : job[j].status \in Completed => job'[j].status = job[j].status
<1>1. TypeInv /\ NoValidationInv /\ [Next]_vars => [A]_vars
  <2> SUFFICES ASSUME TypeInv, NoValidationInv, [Next]_vars, NEW j \in Jobs, job[j].status \in Completed
               PROVE  job'[j].status = job[j].status
    BY DEF CompletedIsFinal
  <2>1. AllowedTransitions[job[j].status] = {} /\ job[j].status # "ABSENT"
    BY DEF NoValidationInv, Completed, AllowedTransitions
  <2>2. \A next, sf : ~Transition(j, next, sf)
    BY <2>1 DEF Transition, MayTransition
  <2> QED  BY <2>1, <2>2, StatusStep, StatusMove, TruthTypes
<1> QED  BY <1>1, TypeInvariance, NoValidation, PTL DEF Spec, CompletedIsFinal

-----------------------------------------------------------------------------
(* The deployment job of an approved dry run is the one its approval names.*)
ApprovalInv ==
  \A j \in Deploys : job[j].dryRun # None => approval[job[j].dryRun] = j

(* The dry run of a job is written when its approval is, and never again.  *)
LEMMA DryRunStep ==
  ASSUME TypeInv, [Next]_vars
  PROVE  \/ approval' = approval /\ \A k \in Jobs : job'[k].dryRun = job[k].dryRun
         \/ \E d \in DryRuns : \E j \in Deploys :
              /\ approval[d] = None /\ approval' = [approval EXCEPT ![d] = j]
              /\ job'[j].dryRun = d
              /\ \A k \in Jobs \ {j} : job'[k].dryRun = job[k].dryRun
<1> DEFINE Same == approval' = approval /\ \A k \in Jobs : job'[k].dryRun = job[k].dryRun
<1>0. job \in JobRows
  BY TruthTypes
<1>1. ASSUME NEW j \in Jobs, NEW next, NEW sf, Transition(j, next, sf), NEW k \in Jobs
      PROVE  job'[k].dryRun = job[k].dryRun
  BY <1>0, <1>1 DEF Transition, JobRows, JobRow
<1>2. ASSUME NEW i, NEW x, job' = [job EXCEPT ![i].sfId = x] \/ job' = [job EXCEPT ![i].prepared = x],
             NEW k \in Jobs
      PROVE  job'[k].dryRun = job[k].dryRun
  <2>1. CASE k = i
    <3>1. job'[k] = [job[k] EXCEPT !.sfId = x] \/ job'[k] = [job[k] EXCEPT !.prepared = x]
      BY <1>0, <1>2, <2>1 DEF JobRows
    <3> QED  BY <1>0, <3>1 DEF JobRows, JobRow
  <2>2. CASE k # i
    BY <1>0, <1>2, <2>2 DEF JobRows
  <2> QED  BY <2>1, <2>2
<1>3. ASSUME NEW j \in Jobs, RequestStep(j) PROVE Same
  <2>1. CASE Create(j)
    BY <1>0, <2>1 DEF Create, JobRows, JobRow
  <2>2. CASE Enqueue(j) \/ Abandon(j)
    BY <1>1, <2>2 DEF Enqueue, Abandon, db
  <2> QED  BY <1>3, <2>1, <2>2 DEF RequestStep
<1>4. ASSUME NEW j \in Jobs, WorkerStep(j) PROVE Same
  <2>1. \/ job' = job
        \/ \E x : job' = [job EXCEPT ![j].sfId = x] \/ job' = [job EXCEPT ![j].prepared = x]
        \/ \E next, sf : Transition(j, next, sf)
    BY <1>4
    DEF WorkerStep, Start, Prepare, BeginAttempt, Submit, Respond, LoseResponse, RecordSubmission,
        Poll, Progress, LosePoll, StoreArtifacts, RecordFailure, Complete, Verify, db
  <2>2. approval' = approval
    BY <1>4
    DEF WorkerStep, Start, Prepare, BeginAttempt, Submit, Respond, LoseResponse, RecordSubmission,
        Poll, LosePoll, StoreArtifacts, RecordFailure, Complete, Verify, db
  <2> QED  BY <1>1, <1>2, <2>1, <2>2
<1>5. ASSUME NEW j \in Jobs, RetryStep(j) PROVE Same
  BY <1>1, <1>5 DEF RetryStep, RetryRead, RetryWrite, RetryFail, RetryTransition, db
<1>6. ASSUME NEW d \in DryRuns, Approve(d)
      PROVE  \/ Same
             \/ \E j \in Deploys :
                  /\ approval[d] = None /\ approval' = [approval EXCEPT ![d] = j]
                  /\ job'[j].dryRun = d
                  /\ \A k \in Jobs \ {j} : job'[k].dryRun = job[k].dryRun
  <2>1. CASE UNCHANGED <<job, approval>>
    BY <2>1
  <2>2. CASE approval[d] = None
    <3>1. PICK j \in Deploys :
            /\ job' = [job EXCEPT ![j] = [status |-> "QUEUED", prepared |-> TRUE,
                                          sfId |-> None, dryRun |-> d]]
            /\ approval' = [approval EXCEPT ![d] = j]
      BY <1>6, <2>2 DEF Approve
    <3>2. job'[j].dryRun = d /\ \A k \in Jobs \ {j} : job'[k] = job[k]
      BY <1>0, <3>1 DEF JobRows, Jobs
    <3> QED  BY <2>2, <3>1, <3>2
  <2> QED  BY <1>6, <2>1, <2>2 DEF Approve
<1>7. ASSUME NEW a \in Actors, ReconcileRecord(a) \/ ReconcileFinish(a) PROVE Same
  <2>1. rec[a].job \in Jobs /\ approval' = approval
    BY <1>7 DEF ReconcileRecord, ReconcileFinish, TypeInv, RecInv
  <2>2. \/ job' = job
        \/ \E x : job' = [job EXCEPT ![rec[a].job].sfId = x]
        \/ \E next : Transition(rec[a].job, next, None)
    BY <1>7 DEF ReconcileRecord, ReconcileFinish
  <2> QED  BY <1>1, <1>2, <2>1, <2>2
<1>8. ASSUME NEW j \in Jobs, NEW r \in Remotes, Bind(j, r) PROVE Same
  BY <1>2, <1>8 DEF Bind
<1>9. ASSUME UserStep, ~Same PROVE \E d \in DryRuns : Approve(d)
  <2>1. \A a \in Actors, j \in Jobs : ReconcileReport(a, j) => Same
    BY DEF ReconcileReport, db
  <2> QED  BY <1>7, <1>8, <1>9, <2>1 DEF UserStep
<1>10. SalesforceStep \/ UNCHANGED vars => Same
  BY DEF SalesforceStep, Accept, Refuse, Settle, vars, db
<1>11. ASSUME ProcessStep PROVE Same
  BY <1>1, <1>11
  DEF ProcessStep, Recover, RecoverFail, Boot, StopAccepting, Flushed, Close, Crash, Restart, db
<1> QED  BY <1>3, <1>4, <1>5, <1>6, <1>9, <1>10, <1>11 DEF Next

LEMMA ApprovalInvariance == Spec => []ApprovalInv
<1>1. Init => ApprovalInv
  BY DEF Init, ApprovalInv, Jobs
<1>2. TypeInv /\ ApprovalInv /\ [Next]_vars => ApprovalInv'
  <2> SUFFICES ASSUME TypeInv, ApprovalInv, [Next]_vars, NEW k \in Deploys, job'[k].dryRun # None
               PROVE  approval'[job'[k].dryRun] = k
    BY DEF ApprovalInv
  <2>1. /\ approval \in [DryRuns -> Deploys \cup {None}] /\ None \notin Deploys
        /\ k \in Jobs /\ job[k].dryRun \in DryRuns \cup {None}
    BY ConstantsAssumption, TruthTypes DEF TypeInv, TypeOK, Jobs, JobRows, JobRow
  <2>2. CASE approval' = approval /\ job'[k].dryRun = job[k].dryRun
    BY <2>2 DEF ApprovalInv
  <2>3. ASSUME NEW d \in DryRuns, NEW j \in Deploys, approval[d] = None,
               approval' = [approval EXCEPT ![d] = j], job'[j].dryRun = d,
               \A i \in Jobs \ {j} : job'[i].dryRun = job[i].dryRun
        PROVE  approval'[job'[k].dryRun] = k
    <3>1. CASE k = j
      BY <2>1, <2>3, <3>1
    <3>2. CASE k # j
      <4>1. job'[k].dryRun = job[k].dryRun /\ approval[job[k].dryRun] = k
        BY <2>1, <2>3, <3>2 DEF ApprovalInv
      <4>2. job[k].dryRun # d
        BY <2>1, <2>3, <4>1
      <4> QED  BY <2>1, <2>3, <4>1, <4>2
    <3> QED  BY <3>1, <3>2
  <2> QED  BY <2>1, <2>2, <2>3, DryRunStep
<1> QED  BY <1>1, <1>2, TypeInvariance, PTL DEF Spec

(* A set without two different members.                                    *)
LEMMA AtMostOne == ASSUME NEW S, \A r, s \in S : r = s PROVE Cardinality(S) <= 1
<1>1. CASE S = {}
  BY <1>1, FS_EmptySet
<1>2. CASE S # {}
  <2>1. PICK r \in S : S = {r}
    BY <1>2
  <2> QED  BY <2>1, FS_Singleton
<1> QED  BY <1>1, <1>2

(* One validated payload is deployed at most once: a dry run has one       *)
(* approval, the approval one job, and the job one submission, however     *)
(* many approvals arrive and whatever fails or is lost between them.       *)
THEOREM SingleDeploymentOfADryRun == Spec => []ApprovedAtMostOnce
<1>1. TypeInv /\ SubmissionInv /\ ApprovalInv => ApprovedAtMostOnce
  <2> SUFFICES ASSUME TypeInv, OwnersInv, ApprovalInv, NEW d \in DryRuns
               PROVE  Cardinality({r \in Remotes :
                        remote[r].owner \in {j \in Deploys : job[j].dryRun = d}}) <= 1
    BY DEF SubmissionInv, ApprovedAtMostOnce
  <2> DEFINE S == {r \in Remotes : remote[r].owner \in {j \in Deploys : job[j].dryRun = d}}
  <2>0. None \notin Deploys /\ d # None
    BY ConstantsAssumption DEF Jobs
  <2>1. \A r, s \in S : r = s
    <3> SUFFICES ASSUME NEW r \in S, NEW s \in S PROVE r = s
      OBVIOUS
    <3>1. remote[r].owner = approval[d] /\ remote[s].owner = approval[d]
      BY <2>0 DEF ApprovalInv
    <3> QED  BY <2>0, <3>1 DEF OwnersInv
  <2> HIDE DEF S
  <2>2. Cardinality(S) <= 1
    BY <2>1, AtMostOne
  <2> QED  BY <2>2 DEF S
<1> QED  BY <1>1, TypeInvariance, SubmissionInvariance, ApprovalInvariance, PTL

-----------------------------------------------------------------------------
(* The jobs implement SalesforceEffects.  What each part of a step is in   *)
(* the abstract specification: the rows move the stage, Salesforce moves   *)
(* the effect, and no step moves both.                                     *)
Stages    == [j \in Jobs |-> Stage(j)]
Outcomes  == [j \in Jobs |-> Effect(j)]
EffectsStep == [Effects!Next]_<<Stages, Outcomes>>

(* What the stage says of the status.                                      *)
LEMMA StageOf ==
  ASSUME NEW j \in Jobs, job[j].status \in Statuses
  PROVE  /\ Stage(j) = "none" <=> job[j].status = "ABSENT"
         /\ Stage(j) = "refused" <=> job[j].status = "FAILED"
         /\ Stage(j) = "confirmed" <=> job[j].status \in Completed \ {"FAILED"}
         /\ Stage(j) = "open" <=> job[j].status \in {"QUEUED", "RECONCILE_REQUIRED"} \cup Running
  BY DEF Stage, Statuses, Completed, Running

(* What the effect says of the operation, in the state after a step.       *)
LEMMA EffectAfter ==
  ASSUME TypeInv', NEW j \in Jobs
  PROVE  /\ Settled(j)' => Effect(j)' # "underway"
         /\ Succeeded(j)' => Effect(j)' \in {"none", "applied"}
<1>1. call'[j] \in {"none", "sent", "accepted", "refused"}
  BY DEF TypeInv, TypeOK
<1> QED  BY <1>1 DEF Effect, Settled, Succeeded, Own, OwnRemotes

(* A step of the rows opens a job, confirms it, refuses it, or changes     *)
(* nothing that is seen from outside.                                      *)
LEMMA RowsImplement ==
  ASSUME TypeInv, SubmissionInv, TypeInv', TruthInv', NoValidationInv, NoValidationInv',
         [Next]_vars, UNCHANGED world
  PROVE  EffectsStep
<1>0. /\ \A k \in Jobs : job[k].status \in Statuses
      /\ \A k \in Jobs : job'[k].status \in Statuses
  BY DEF TypeInv, TypeOK
<1>1. Outcomes' = Outcomes
  BY DEF Outcomes, Effect, OwnRemotes, world
<1>2. \A k \in Jobs : job'[k].status = job[k].status => Stage(k)' = Stage(k)
  BY DEF Stage
<1>3. ASSUME NEW j \in Jobs, NEW s, Stage(j)' = s, \A k \in Jobs \ {j} : job'[k].status = job[k].status
      PROVE  Stages' = [Stages EXCEPT ![j] = s]
  BY <1>2, <1>3 DEF Stages
<1>4. CASE \A k \in Jobs : job'[k].status = job[k].status
  BY <1>1, <1>2, <1>4 DEF Stages, EffectsStep
<1>5. ASSUME NEW j \in Jobs, job[j].status = "ABSENT", job'[j].status = "QUEUED",
             \A k \in Jobs \ {j} : job'[k].status = job[k].status
      PROVE  EffectsStep
  <2>1. Stage(j) = "none" /\ Stage(j)' = "open"
    BY <1>5 DEF Stage, Completed
  <2>2. Stages[j] = "none" /\ Stages' = [Stages EXCEPT ![j] = "open"]
    BY <1>3, <1>5, <2>1 DEF Stages
  <2> QED  BY <1>1, <2>2 DEF EffectsStep, Effects!Next, Effects!Open, Stages, Outcomes
<1>6. ASSUME NEW j \in Jobs, NEW next, NEW sf, Transition(j, next, sf) PROVE EffectsStep
  <2>1. /\ job'[j].status = next /\ next \in AllowedTransitions[job[j].status]
        /\ \A k \in Jobs \ {j} : job'[k].status = job[k].status
    BY <1>6, StatusMove, TruthTypes DEF Transition, MayTransition
  <2>2. Stage(j) = "open" /\ Stages[j] = "open"
    BY <1>0, <2>1, Table, StageOf DEF NoValidationInv, Stages
  <2>3. next \in {"RECONCILE_REQUIRED"} \cup Running \cup Completed
    BY <1>0, <2>1, Table DEF Statuses
  <2>4. CASE next \in {"RECONCILE_REQUIRED"} \cup Running
    <3>1. Stage(j)' = "open"
      BY <2>1, <2>4 DEF Stage, Running, Completed
    <3> QED  BY <1>1, <1>2, <2>1, <2>2, <3>1 DEF EffectsStep, Stages
  <2>5. CASE next = "FAILED"
    <3>1. Stage(j)' = "refused"
      BY <2>1, <2>5 DEF Stage
    <3>2. Effect(j)' # "underway"
      BY <2>1, <2>5, EffectAfter DEF TruthInv, StatusInv
    <3> QED  BY <1>1, <1>3, <2>1, <2>2, <3>1, <3>2
             DEF EffectsStep, Effects!Next, Effects!Refuse, Stages, Outcomes
  <2>6. CASE next \in Completed \ {"FAILED"}
    <3>1. Stage(j)' = "confirmed" /\ next \in Confirmed
      BY <2>1, <2>6 DEF Stage, Completed, Confirmed, NoValidationInv
    <3>2. Effect(j)' \in {"none", "applied"}
      BY <2>1, <3>1, EffectAfter DEF TruthInv, StatusInv
    <3> QED  BY <1>1, <1>3, <2>1, <2>2, <3>1, <3>2
             DEF EffectsStep, Effects!Next, Effects!Confirm, Stages, Outcomes
  <2> QED  BY <2>3, <2>4, <2>5, <2>6
<1> QED  BY <1>4, <1>5, <1>6, StatusStep

(* A step of Salesforce, or the start of a command, launches or resolves   *)
(* the operation of one job.                                               *)
LEMMA WorldImplements ==
  ASSUME TypeInv, SubmissionInv, SubmissionInv', [Next]_vars, UNCHANGED job
  PROVE  EffectsStep
<1>0. /\ call \in [Jobs -> {"none", "sent", "accepted", "refused"}]
      /\ remote \in [Remotes -> [state : {"absent", "active"} \cup Done, owner : Jobs \cup {None}]]
      /\ None \notin Jobs
  BY TruthTypes
<1>1. Stages' = Stages
  BY DEF Stages, Stage
<1>2. CASE UNCHANGED world
  BY <1>1, <1>2 DEF EffectsStep, Outcomes, Effect, OwnRemotes, world
<1>3. ASSUME NEW j \in Jobs, \A k \in Jobs \ {j} : Effect(k)' = Effect(k), NEW e, Effect(j)' = e
      PROVE  Outcomes' = [Outcomes EXCEPT ![j] = e] /\ Outcomes[j] = Effect(j)
  BY <1>3 DEF Outcomes
<1>4. ASSUME NEW j \in Jobs, Submit(j), worker[j].pc = "submitting",
             call' = [call EXCEPT ![j] = "sent"], remote' = remote
      PROVE  EffectsStep
  <2>1. call[j] = "none" /\ job[j].status \in Running
    BY <1>4 DEF SubmissionInv, NotSentInv, RolesInv, Acting
  <2>2. Effect(j) = "none" /\ Effect(j)' = "underway"
    BY <1>0, <1>4, <2>1 DEF Effect
  <2>3. \A k \in Jobs \ {j} : Effect(k)' = Effect(k)
    BY <1>0, <1>4 DEF Effect, OwnRemotes
  <2>4. Stages[j] = "open"
    BY <2>1 DEF Stages, Stage, Running, Completed
  <2> QED  BY <1>1, <1>3, <2>2, <2>3, <2>4
           DEF EffectsStep, Effects!Next, Effects!Launch, Stages, Outcomes
<1>5. ASSUME NEW j \in Jobs, Refuse(j) PROVE EffectsStep
  <2>1. Effect(j) = "underway" /\ Effect(j)' = "rejected"
    BY <1>0, <1>5 DEF Refuse, Effect
  <2>2. \A k \in Jobs \ {j} : Effect(k)' = Effect(k)
    BY <1>0, <1>5 DEF Refuse, Effect, OwnRemotes
  <2> QED  BY <1>1, <1>3, <2>1, <2>2
           DEF EffectsStep, Effects!Next, Effects!Resolve, Stages, Outcomes
<1>6. ASSUME NEW j \in Jobs, Accept(j) PROVE EffectsStep
  <2>1. PICK r \in Remotes : /\ remote[r].state = "absent"
                             /\ remote' = [remote EXCEPT ![r] = [state |-> "active", owner |-> j]]
    BY <1>6 DEF Accept
  <2>2. call[j] = "sent" /\ call' = [call EXCEPT ![j] = "accepted"]
    BY <1>6 DEF Accept
  <2>3. /\ remote'[r] = [state |-> "active", owner |-> j] /\ remote[r].owner = None
        /\ \A s \in Remotes \ {r} : remote'[s] = remote[s]
    BY <1>0, <2>1 DEF SubmissionInv, OwnersInv
  <2>4. Effect(j) = "underway" /\ Effect(j)' = "underway"
    BY <1>0, <2>2, <2>3 DEF Effect, OwnRemotes
  <2>5. ASSUME NEW k \in Jobs \ {j} PROVE Effect(k)' = Effect(k)
    <3>1. call'[k] = call[k] /\ OwnRemotes(k)' = OwnRemotes(k) /\ r \notin OwnRemotes(k)
      BY <1>0, <2>2, <2>3 DEF OwnRemotes
    <3>2. \A s \in OwnRemotes(k) : remote'[s] = remote[s]
      BY <2>3, <3>1 DEF OwnRemotes
    <3> QED  BY <3>1, <3>2 DEF Effect
  <2> QED  BY <1>1, <1>3, <2>4, <2>5 DEF EffectsStep, Outcomes
<1>7. ASSUME NEW r \in Remotes, Settle(r) PROVE EffectsStep
  <2>1. PICK state \in Done : remote' = [remote EXCEPT ![r].state = state]
    BY <1>7 DEF Settle
  <2>2. call' = call /\ remote[r].state = "active"
    BY <1>7 DEF Settle
  <2>0. PICK j \in Jobs : j = remote[r].owner
    BY <1>0, <2>2 DEF SubmissionInv, OwnersInv
  <2>3. /\ call[j] = "accepted"
        /\ \A s \in Remotes : remote[s].owner = j => s = r
    BY <1>0, <2>0, <2>2 DEF SubmissionInv, OwnersInv
  <2>4. /\ remote'[r].state = state /\ remote'[r].owner = j
        /\ \A s \in Remotes \ {r} : remote'[s] = remote[s]
    BY <1>0, <2>0, <2>1
  <2>5. OwnRemotes(j) = {r} /\ OwnRemotes(j)' = {r}
    BY <2>0, <2>3, <2>4 DEF OwnRemotes
  <2>6. Effect(j) = "underway"
    BY <2>2, <2>3, <2>5 DEF Effect
  <2>7. PICK outcome \in {"applied", "rejected"} : Effect(j)' = outcome
    BY <2>2, <2>3, <2>4, <2>5 DEF Effect, Done
  <2>8. ASSUME NEW k \in Jobs \ {j} PROVE Effect(k)' = Effect(k)
    <3>1. OwnRemotes(k)' = OwnRemotes(k) /\ r \notin OwnRemotes(k)
      BY <2>0, <2>4 DEF OwnRemotes
    <3>2. \A s \in OwnRemotes(k) : remote'[s] = remote[s]
      BY <2>4, <3>1 DEF OwnRemotes
    <3> QED  BY <2>2, <3>1, <3>2 DEF Effect
  <2> QED  BY <1>1, <1>3, <2>3, <2>6, <2>7, <2>8
           DEF EffectsStep, Effects!Next, Effects!Resolve, Stages, Outcomes
<1> QED  BY <1>2, <1>4, <1>5, <1>6, <1>7, CallStep DEF SalesforceStep

(* A step that starts a command or is Salesforce's leaves the rows alone.  *)
LEMMA EffectsImplemented ==
  ASSUME TypeInv, TypeInv', SubmissionInv, SubmissionInv', TruthInv', NoValidationInv,
         NoValidationInv', [Next]_vars
  PROVE  EffectsStep
<1>1. UNCHANGED world \/ UNCHANGED job
  BY CallStep DEF Submit, db, SalesforceStep, Accept, Refuse, Settle
<1> QED  BY <1>1, RowsImplement, WorldImplements

(* Whatever is lost, retried, crashed, reconciled or approved again, the   *)
(* jobs do to Salesforce, and say of it, only what the abstract service    *)
(* does and says.                                                          *)
THEOREM EffectsAreImplemented ==
  ASSUME AdminMistakes = FALSE
  PROVE  Spec => ImplementsEffects
<1>1. Init => Effects!Init
  <2> SUFFICES ASSUME Init PROVE Effects!Init
    OBVIOUS
  <2>1. \A j \in Jobs : Stage(j) = "none" /\ Effect(j) = "none"
    <3>1. \A j \in Jobs : job[j].status = "ABSENT" /\ call[j] = "none"
      BY DEF Init
    <3> QED  BY <3>1 DEF Stage, Effect, Completed
  <2> QED  BY <2>1 DEF Effects!Init
<1>2. TypeInv /\ TypeInv' /\ SubmissionInv /\ SubmissionInv' /\ TruthInv' /\ NoValidationInv
        /\ NoValidationInv' /\ [Next]_vars
        => [Effects!Next]_<<[j \in Jobs |-> Stage(j)], [j \in Jobs |-> Effect(j)]>>
  BY EffectsImplemented DEF EffectsStep, Stages, Outcomes
<1> QED  BY <1>1, <1>2, TypeInvariance, SubmissionInvariance, TruthInvariance,
            NoValidation, PTL DEF Spec, ImplementsEffects, Effects!Spec
=============================================================================
