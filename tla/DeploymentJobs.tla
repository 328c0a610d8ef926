--------------------------- MODULE DeploymentJobs ---------------------------
(***************************************************************************)
(* Dry-run and deployment jobs of the web server, from the request that    *)
(* creates a job to its terminal state: the worker that submits to         *)
(* Salesforce and polls it, the attempt row written before the submission, *)
(* the completion whose write is retried, the reconciliation of an unknown *)
(* outcome, the administrator's binding of a remote id, and the crash,     *)
(* shutdown and restart of the single server process.                      *)
(*                                                                         *)
(* Every database transaction is one step; everything between two awaits   *)
(* of the code is one step.  Any database call may fail.  Salesforce is    *)
(* the environment: it may accept a submission late, never, or after the   *)
(* process that sent it has died.                                          *)
(***************************************************************************)
EXTENDS Naturals, FiniteSets

CONSTANTS DryRuns,      \* ids of jobs of kind DRY_RUN
          Deploys,      \* ids of jobs of kind DEPLOY, direct or approved
          Remotes,      \* deployment ids Salesforce may hand out
          Actors,       \* users reconciling jobs
          None,         \* SQL NULL / undefined
          MaxVersion,   \* bound on the attempt versions reached by polling
          MaxCalls,     \* bound on requests waiting to enqueue one job
          AdminMistakes \* may an administrator bind another job's remote id?

Jobs == DryRuns \cup Deploys

ASSUME ConstantsAssumption ==
  /\ DryRuns \cap Deploys = {}
  /\ None \notin Jobs \cup Remotes \cup {"VALIDATE", "DEPLOY"}
  /\ MaxVersion \in Nat
  /\ MaxCalls \in Nat \ {0}
  /\ AdminMistakes \in BOOLEAN

VARIABLES
  job,      \* row of deployment_jobs: status, prepared, sfId, dryRun
  attempt,  \* row of the job's active attempt in deployment_attempts
  approval, \* deployment_approvals: dry-run job -> the deploy job it queued
  remote,   \* Salesforce: the operation behind every deployment id
  call,     \* Salesforce: the start command of a job on its way
  phase,    \* of the server process
  toRecover,\* jobs recoverInterruptedJobs has listed and not yet updated
  requests, \* requests that created a job and have not yet enqueued it
  worker,   \* the queue entry or running task of a job
  pending,  \* DeploymentCompletion.pending: results whose write failed
  retrying, \* the job DeploymentCompletion.retryPending is about to write
  rec       \* the reconciliation an actor has under way

db       == <<job, attempt, approval>>
world    == <<remote, call>>
memory   == <<requests, worker, pending, retrying, rec>>
vars     == <<db, world, phase, toRecover, memory>>

-----------------------------------------------------------------------------
Running   == {"DRY_RUN_RUNNING", "DEPLOYING"}
Completed == {"APPROVAL_PENDING", "VALIDATED_PENDING_EXECUTION", "SUCCEEDED", "FAILED"}
Statuses  == {"ABSENT", "QUEUED", "RECONCILE_REQUIRED"} \cup Running \cup Completed

AllowedTransitions ==
  [ABSENT |-> {}, APPROVAL_PENDING |-> {}, SUCCEEDED |-> {}, FAILED |-> {},
   QUEUED |-> Running \cup {"FAILED"},
   DRY_RUN_RUNNING |-> {"APPROVAL_PENDING", "FAILED", "RECONCILE_REQUIRED"},
   VALIDATED_PENDING_EXECUTION |-> {"FAILED"},
   DEPLOYING |-> {"SUCCEEDED", "FAILED", "RECONCILE_REQUIRED"},
   RECONCILE_REQUIRED |-> Completed]

(* Mutant: the transition table is not consulted.                          *)
MayTransitionUnchecked(j, next) ==
  /\ job[j].status # "ABSENT"
  /\ next = "DEPLOYING" => j \notin DryRuns
  /\ next = "DRY_RUN_RUNNING" => j \in DryRuns

(* DeploymentStateMachine.transition does not throw. *)
MayTransition(j, next) ==
  /\ next \in AllowedTransitions[job[j].status]
  /\ next = "DEPLOYING" => j \notin DryRuns
  /\ next = "DRY_RUN_RUNNING" => j \in DryRuns

(* The UPDATE of DeploymentJobRepository.transition; sf is COALESCEd.      *)
Transition(j, next, sf) ==
  /\ MayTransition(j, next)
  /\ job' = [job EXCEPT ![j].status = next,
                        ![j].sfId = IF sf = None THEN @ ELSE sf]

RunningStatus(j)   == IF j \in DryRuns THEN "DRY_RUN_RUNNING" ELSE "DEPLOYING"
CompletedStatus(j) == IF j \in DryRuns THEN "APPROVAL_PENDING" ELSE "SUCCEEDED"

NoAttempt == [state |-> "NONE", op |-> None, remoteId |-> None,
              outcome |-> "UNKNOWN", version |-> 0]
Idle      == [pc |-> "idle", rid |-> None, version |-> 0]
NoRec     == [pc |-> "idle", job |-> None, version |-> 0, report |-> None]

(* A completion carries the version of the attempt it is about; a job      *)
(* without an attempt (an empty payload) carries none and is not checked.  *)
IsCurrentAttempt(j, version) == version = 0 \/ attempt[j].version = version

(* What `sf project deploy report` says of a remote operation: nothing of  *)
(* an unknown id.  The success flag of a cancelled one may be missing.     *)
Done      == {"succeeded", "failed", "canceled"}
CheckOnly(r) == remote[r].owner \in DryRuns
Reports(r) == CASE remote[r].state = "absent"    -> {}
                [] remote[r].state = "active"    -> {"running"}
                [] remote[r].state = "canceled"  -> {"failed", "canceled"}
                [] OTHER                         -> {remote[r].state}

(* Mutant: the row takes over what Salesforce says.                        *)
OutcomeAsReported(report) == report

AttemptOutcome(report) ==           \* DeploymentAttemptRepository.progress
  CASE report = "running"   -> "RUNNING"
    [] report = "succeeded" -> "SUCCEEDED"
    [] OTHER                -> "FAILED"

ReconciledOutcome(report) ==        \* remoteStatusFromProgress
  CASE report = "running" -> "RUNNING"
    [] report = "failed"  -> "FAILED"
    [] OTHER              -> "SUCCEEDED"

-----------------------------------------------------------------------------
Init ==
  /\ job = [j \in Jobs |-> [status |-> "ABSENT", prepared |-> FALSE,
                            sfId |-> None, dryRun |-> None]]
  /\ attempt = [j \in Jobs |-> NoAttempt]
  /\ approval = [d \in DryRuns |-> None]
  /\ remote = [r \in Remotes |-> [state |-> "absent", owner |-> None]]
  /\ call = [j \in Jobs |-> "none"]
  /\ phase = "up"
  /\ toRecover = {}
  /\ requests = [j \in Jobs |-> 0]
  /\ worker = [j \in Jobs |-> Idle]
  /\ pending = [j \in Jobs |-> None]
  /\ retrying = None
  /\ rec = [a \in Actors |-> NoRec]

Serving == phase \in {"up", "stopping", "settling"}

-----------------------------------------------------------------------------
(* Requests: creation, approval, and the enqueueing that follows.          *)

(* The commit of createDryRunJob or createDirectDeployment.  The queue may *)
(* have closed since the request was admitted.                             *)
Create(j) ==
  /\ Serving
  /\ job[j].status = "ABSENT"
  /\ job' = [job EXCEPT ![j].status = "QUEUED"]
  /\ requests' = [requests EXCEPT ![j] = 1]
  /\ UNCHANGED <<attempt, approval, world, phase, toRecover, worker, pending, retrying, rec>>

(* Mutant: the existing approval is not looked up.                         *)
ApproveAgain(d) ==
  /\ Serving
  /\ job[d].status = "APPROVAL_PENDING" /\ job[d].prepared
  /\ \E j \in Deploys :
       /\ job[j].status = "ABSENT"
       /\ job' = [job EXCEPT ![j] = [status |-> "QUEUED", prepared |-> TRUE,
                                     sfId |-> None, dryRun |-> d]]
       /\ approval' = [approval EXCEPT ![d] = j]
       /\ requests' = [requests EXCEPT ![j] = 1]
  /\ UNCHANGED <<attempt, world, phase, toRecover, worker, pending, retrying, rec>>

(* approveAndQueueDeployment: a second approval gets the job of the first. *)
Approve(d) ==
  /\ Serving
  /\ job[d].status = "APPROVAL_PENDING" /\ job[d].prepared
  /\ \/ /\ approval[d] # None
        /\ requests[approval[d]] < MaxCalls
        /\ requests' = [requests EXCEPT ![approval[d]] = @ + 1]
        /\ UNCHANGED <<job, approval>>
     \/ /\ approval[d] = None
        /\ \E j \in Deploys :
             /\ job[j].status = "ABSENT"
             /\ job' = [job EXCEPT ![j] = [status |-> "QUEUED", prepared |-> TRUE,
                                           sfId |-> None, dryRun |-> d]]
             /\ approval' = [approval EXCEPT ![d] = j]
             /\ requests' = [requests EXCEPT ![j] = 1]
  /\ UNCHANGED <<attempt, world, phase, toRecover, worker, pending, retrying, rec>>

(* runDryRun / runDeployment hand the task to the queue.  A closed queue   *)
(* and a job that already has an entry refuse it; only an approval refused *)
(* by a closed queue fails its job, and that write may itself fail.        *)
Enqueue(j) ==
  /\ Serving
  /\ requests[j] > 0
  /\ requests' = [requests EXCEPT ![j] = @ - 1]
  /\ \/ /\ phase = "up" /\ worker[j].pc = "idle"
        /\ worker' = [worker EXCEPT ![j].pc = "queued"]
        /\ UNCHANGED job
     \/ /\ phase # "up"
        /\ \/ job[j].dryRun # None /\ job[j].status = "QUEUED" /\ Transition(j, "FAILED", None)
           \/ UNCHANGED job
        /\ UNCHANGED worker
     \/ /\ phase = "up" /\ worker[j].pc # "idle"
        /\ UNCHANGED <<job, worker>>
  /\ UNCHANGED <<attempt, approval, world, phase, toRecover, pending, retrying, rec>>

(* The request fails after its job was committed: nothing is enqueued.  A  *)
(* job whose selected manifest could not be written is failed, unless that *)
(* write fails too or a recovery failed it before; a job that merely could *)
(* not be read back stays QUEUED.                                          *)
Abandon(j) ==
  /\ Serving
  /\ requests[j] > 0
  /\ requests' = [requests EXCEPT ![j] = @ - 1]
  /\ \/ job[j].dryRun = None /\ job[j].status = "QUEUED" /\ Transition(j, "FAILED", None)
     \/ UNCHANGED job
  /\ UNCHANGED <<attempt, approval, world, phase, toRecover, worker, pending, retrying, rec>>

-----------------------------------------------------------------------------
(* The worker: the task that the deployment queue runs, one at a time.     *)

At(j, pc)     == Serving /\ worker[j].pc = pc
Goto(j, pc)   == worker' = [worker EXCEPT ![j].pc = pc]
Finish(j)     == worker' = [worker EXCEPT ![j] = Idle]
Occupied      == \E j \in Jobs : worker[j].pc \notin {"idle", "queued"}
QueueUntouched == UNCHANGED <<phase, toRecover, requests, retrying, rec>>

(* The task throws.  The task of an approved job takes an error that reads *)
(* like a network failure for an unknown outcome, wherever it came from.   *)
Fail(j) ==
  \/ Goto(j, "failing")
  \/ job[j].dryRun # None /\ worker' = [worker EXCEPT ![j] = [Idle EXCEPT !.pc = "unknown"]]

(* The task begins with the transition to its running status, outside the  *)
(* try block: when it throws, or when reading the row back for the         *)
(* notification throws after the commit, no failure is recorded.           *)
Start(j) ==
  /\ At(j, "queued") /\ ~Occupied
  /\ \/ /\ Transition(j, RunningStatus(j), None)
        /\ Goto(j, "preparing") \/ Finish(j)
     \/ /\ UNCHANGED job
        /\ Finish(j)
  /\ UNCHANGED <<attempt, approval, world, pending>> /\ QueueUntouched

(* evaluateQuickDeployEligibility on the attempt that validated the        *)
(* payload of an approved job; quick and standard deployment differ only   *)
(* in the arguments of the start command.                                  *)
Eligibility(d) ==
  CASE attempt[d].state = "NONE"                       -> "DEPLOY"
    [] attempt[d].state \in {"SUBMITTING", "SUBMITTED"} -> "RECONCILE_REQUIRED"
    [] attempt[d].outcome = "SUCCEEDED"                -> "DEPLOY"
    [] OTHER                                           -> "REVALIDATION_REQUIRED"

(* Everything before the submission: snapshots, checks, the execution      *)
(* plan.  It may fail; a job with nothing to deploy skips Salesforce.      *)
Prepare(j) ==
  /\ At(j, "preparing")
  /\ LET mode == IF job[j].dryRun = None THEN "DEPLOY" ELSE Eligibility(job[j].dryRun)
     IN \/ mode = "DEPLOY" /\ Goto(j, "intending")
        \/ mode = "RECONCILE_REQUIRED" /\ Goto(j, "unknown")
        \/ job[j].dryRun = None /\ Goto(j, "storing")
        \/ Fail(j)
  /\ UNCHANGED <<db, world, pending>> /\ QueueUntouched

(* DeploymentAttemptRepository.begin accepts a new attempt of the job.     *)
MayBegin(j) ==
  /\ job[j].status \in Running
  /\ \/ attempt[j].state = "NONE"
     \/ /\ attempt[j].op = "VALIDATE" /\ attempt[j].state = "TERMINAL"
        /\ attempt[j].outcome = "SUCCEEDED" /\ j \in Deploys

(* beforeSubmit: the identity and access checks, then the intent.  An      *)
(* abort noticed after the commit fails the job with the intent in place.  *)
BeginAttempt(j) ==
  /\ At(j, "intending")
  /\ \/ /\ MayBegin(j)
        /\ attempt' = [attempt EXCEPT ![j] =
             [state |-> "SUBMITTING", op |-> IF j \in DryRuns THEN "VALIDATE" ELSE "DEPLOY",
              remoteId |-> None, outcome |-> "UNKNOWN", version |-> attempt[j].version + 1]]
        /\ job' = [job EXCEPT ![j].sfId = None]
        /\ Goto(j, "submitting") \/ Fail(j)
     \/ /\ UNCHANGED <<job, attempt>>
        /\ Fail(j)
  /\ UNCHANGED <<approval, world, pending>> /\ QueueUntouched

(* The start command is spawned, or could not be.                          *)
Submit(j) ==
  /\ At(j, "submitting")
  /\ \/ /\ call' = [call EXCEPT ![j] = "sent"]
        /\ Goto(j, "responding")
     \/ /\ UNCHANGED call
        /\ Fail(j)
  /\ UNCHANGED <<db, remote, pending>> /\ QueueUntouched

(* The command answers with the deployment id...                           *)
Respond(j) ==
  /\ At(j, "responding") /\ call[j] = "accepted"
  /\ \E r \in Remotes :
       /\ remote[r].owner = j
       /\ worker' = [worker EXCEPT ![j].pc = "recording", ![j].rid = r]
  /\ UNCHANGED <<db, world, pending>> /\ QueueUntouched

(* Mutant: a start command without an answer is sent again.                *)
Resubmit(j) ==
  /\ At(j, "responding")
  /\ Goto(j, "submitting")
  /\ UNCHANGED <<db, world, pending>> /\ QueueUntouched

(* ... or it fails, times out, is aborted or answers without one.  Nothing *)
(* is known of the submission then, whatever the error says.               *)
LoseResponse(j) ==
  /\ At(j, "responding")
  /\ Goto(j, "unknown")
  /\ UNCHANGED <<db, world, pending>> /\ QueueUntouched

(* onSubmitted: DeploymentAttemptRepository.submitted; a failed write is   *)
(* swallowed and polling goes on.                                          *)
RecordSubmission(j) ==
  /\ At(j, "recording")
  /\ \/ /\ job[j].status \in Running /\ attempt[j].state = "SUBMITTING"
        /\ attempt' = [attempt EXCEPT ![j].state = "SUBMITTED", ![j].outcome = "SUBMITTED",
                          ![j].remoteId = worker[j].rid, ![j].version = @ + 1]
        /\ job' = [job EXCEPT ![j].sfId = worker[j].rid]
     \/ UNCHANGED <<job, attempt>>
  /\ Goto(j, "polling")
  /\ UNCHANGED <<approval, world, pending>> /\ QueueUntouched

(* DeploymentAttemptRepository.progress, whose failure is swallowed too.   *)
Progress(j, report) ==
  \/ /\ job[j].status \in Running
     /\ attempt[j].state \in {"SUBMITTING", "SUBMITTED"}
     /\ attempt[j].remoteId \in {None, worker[j].rid}
     /\ attempt' = [attempt EXCEPT ![j].state = IF report = "running" THEN "SUBMITTED" ELSE "TERMINAL",
                       ![j].outcome = AttemptOutcome(report),
                       ![j].remoteId = worker[j].rid, ![j].version = @ + 1]
     /\ job' = [job EXCEPT ![j].sfId = worker[j].rid]
  \/ UNCHANGED <<job, attempt>>

(* Mutant: a finished operation counts as successful.                      *)
PollDone(j) ==
  /\ At(j, "polling")
  /\ \E report \in Reports(worker[j].rid) :
       /\ report = "running" => attempt[j].version < MaxVersion
       /\ Progress(j, report)
       /\ IF report = "running" THEN UNCHANGED worker ELSE Goto(j, "storing")
  /\ UNCHANGED <<approval, world, pending>> /\ QueueUntouched

(* One round of the polling loop.                                          *)
Poll(j) ==
  /\ At(j, "polling")
  /\ \E report \in Reports(worker[j].rid) :
       /\ report = "running" => attempt[j].version < MaxVersion
       /\ Progress(j, report)
       /\ CASE report = "running"   -> UNCHANGED worker
            [] report = "succeeded" -> Goto(j, "storing")
            [] OTHER                -> Fail(j)
  /\ UNCHANGED <<approval, world, pending>> /\ QueueUntouched

(* Mutant: every report that says "running" moves the deadline.            *)
LosePollNoDeadline(j) ==
  /\ At(j, "polling") /\ remote[worker[j].rid].state # "active"
  /\ Goto(j, "unknown")
  /\ UNCHANGED <<db, world, pending>> /\ QueueUntouched

(* A report that fails, belongs to another operation, or the 60 minutes.   *)
LosePoll(j) ==
  /\ At(j, "polling")
  /\ Goto(j, "unknown")
  /\ UNCHANGED <<db, world, pending>> /\ QueueUntouched

(* After success: the attempt is read back for its version, then the       *)
(* artifacts are written and a failure of that is only a warning.  A       *)
(* failure of the read, or a dry run below its coverage, fails the job.    *)
StoreArtifacts(j) ==
  /\ At(j, "storing")
  /\ \/ /\ \/ job[j].status \in Running /\ job' = [job EXCEPT ![j].prepared = TRUE]
           \/ UNCHANGED job
        /\ worker' = [worker EXCEPT ![j].pc = "completing", ![j].version = attempt[j].version]
     \/ /\ UNCHANGED job
        /\ Fail(j)
  /\ UNCHANGED <<attempt, approval, world, pending>> /\ QueueUntouched

(* Mutant: an unknown outcome is recorded as a failure.                    *)
RecordFailureOnly(j) ==
  /\ At(j, "failing") \/ At(j, "unknown")
  /\ Transition(j, "FAILED", worker[j].rid) \/ UNCHANGED job
  /\ Finish(j)
  /\ UNCHANGED <<attempt, approval, world, pending>> /\ QueueUntouched

(* recordFailure.  When its write fails the task ends all the same and the *)
(* job keeps its running status.                                           *)
RecordFailure(j) ==
  /\ \/ At(j, "failing") /\ (Transition(j, "FAILED", None) \/ UNCHANGED job)
     \/ At(j, "unknown") /\ (Transition(j, "RECONCILE_REQUIRED", worker[j].rid) \/ UNCHANGED job)
  /\ Finish(j)
  /\ UNCHANGED <<attempt, approval, world, pending>> /\ QueueUntouched

-----------------------------------------------------------------------------
(* DeploymentCompletion.                                                   *)

Completion(j) == [version |-> worker[j].version, rid |-> worker[j].rid]

(* complete, first write.  The commit may succeed and the notification     *)
(* fail; either error puts the completion into pending.                    *)
Complete(j) ==
  /\ At(j, "completing")
  /\ \/ /\ IsCurrentAttempt(j, worker[j].version)
        /\ Transition(j, CompletedStatus(j), worker[j].rid)
        /\ \/ Finish(j) /\ UNCHANGED pending
           \/ Goto(j, "verifying") /\ pending' = [pending EXCEPT ![j] = Completion(j)]
     \/ /\ UNCHANGED job
        /\ Goto(j, "verifying")
        /\ pending' = [pending EXCEPT ![j] = Completion(j)]
  /\ UNCHANGED <<attempt, approval, world>> /\ QueueUntouched

(* complete, after the error: re-read, and try RECONCILE_REQUIRED when the *)
(* result is still current and unsaved.  A failure leaves it pending.      *)
Verify(j) ==
  /\ At(j, "verifying")
  /\ LET current == IsCurrentAttempt(j, worker[j].version)
     IN \/ /\ job[j].status = CompletedStatus(j) \/ ~current
           /\ pending' = [pending EXCEPT ![j] = None]
           /\ UNCHANGED job
        \/ /\ job[j].status \notin {CompletedStatus(j), "RECONCILE_REQUIRED"} /\ current
           /\ Transition(j, "RECONCILE_REQUIRED", worker[j].rid)
           /\ UNCHANGED pending
        \/ UNCHANGED <<job, pending>>
  /\ Finish(j)
  /\ UNCHANGED <<attempt, approval, world>> /\ QueueUntouched

(* Mutant: the retry leaves a job awaiting reconciliation alone.           *)
RetryReadRunning(j) ==
  /\ Serving /\ retrying = None /\ pending[j] # None
  /\ job[j].status # "RECONCILE_REQUIRED"
  /\ IF job[j].status \in Completed \/ ~IsCurrentAttempt(j, pending[j].version)
     THEN pending' = [pending EXCEPT ![j] = None] /\ UNCHANGED retrying
     ELSE retrying' = [job |-> j, completion |-> pending[j]] /\ UNCHANGED pending
  /\ UNCHANGED <<db, world, phase, toRecover, requests, worker, rec>>

(* retryPending, run by the timer and by flush: two reads, then the write  *)
(* that checks status and attempt version again in its transaction.        *)
RetryRead(j) ==
  /\ Serving /\ retrying = None /\ pending[j] # None
  /\ IF job[j].status \in Completed \/ ~IsCurrentAttempt(j, pending[j].version)
     THEN pending' = [pending EXCEPT ![j] = None] /\ UNCHANGED retrying
     ELSE retrying' = [job |-> j, completion |-> pending[j]] /\ UNCHANGED pending
  /\ UNCHANGED <<db, world, phase, toRecover, requests, worker, rec>>

Retrying(j) == Serving /\ retrying # None /\ retrying.job = j

RetryTransition(j) ==
  /\ IsCurrentAttempt(j, retrying.completion.version)
  /\ Transition(j, CompletedStatus(j), retrying.completion.rid)

RetryWrite(j) ==
  /\ Retrying(j) /\ RetryTransition(j)
  /\ retrying' = None
  /\ pending' = [pending EXCEPT ![j] = None]
  /\ UNCHANGED <<attempt, approval, world, phase, toRecover, requests, worker, rec>>

(* The write is refused or fails, or its notification does after the       *)
(* commit: the completion stays for the next round.                        *)
RetryFail(j) ==
  /\ Retrying(j)
  /\ RetryTransition(j) \/ UNCHANGED job
  /\ retrying' = None
  /\ UNCHANGED <<attempt, approval, world, phase, toRecover, requests, worker, pending, rec>>

-----------------------------------------------------------------------------
(* DeploymentService.reconcile: rows, report, first write, second write.   *)

(* The rows are read, then the report of the id they name is fetched.      *)
ReconcileReport(a, j) ==
  /\ Serving /\ rec[a].pc = "idle"
  /\ job[j].status = "RECONCILE_REQUIRED" /\ attempt[j].remoteId # None
  /\ CheckOnly(attempt[j].remoteId) = (attempt[j].op = "VALIDATE")
  /\ \E report \in Reports(attempt[j].remoteId) :
       rec' = [rec EXCEPT ![a] = [pc |-> "reported", job |-> j,
                                  version |-> attempt[j].version, report |-> report]]
  /\ UNCHANGED <<db, world, phase, toRecover, requests, worker, pending, retrying>>

(* recordReconciliationReport, whose transaction checks the version.       *)
ReconcileRecord(a) ==
  LET j == rec[a].job  done == rec[a].report # "running" IN
  /\ Serving /\ rec[a].pc = "reported"
  /\ \/ /\ job[j].status = "RECONCILE_REQUIRED"
        /\ attempt[j].version = rec[a].version
        /\ attempt[j].version < MaxVersion
        /\ attempt' = [attempt EXCEPT ![j].state = IF done THEN "TERMINAL" ELSE "SUBMITTED",
                          ![j].outcome = ReconciledOutcome(rec[a].report), ![j].version = @ + 1]
        /\ job' = [job EXCEPT ![j].sfId = attempt[j].remoteId]
        /\ rec' = [rec EXCEPT ![a] = IF done THEN [@ EXCEPT !.pc = "recorded"] ELSE NoRec]
     \/ /\ UNCHANGED <<job, attempt>>
        /\ rec' = [rec EXCEPT ![a] = NoRec]
  /\ UNCHANGED <<approval, world, phase, toRecover, requests, worker, pending, retrying>>

(* The second transaction checks only the status; it may not happen at     *)
(* all.  A dry run without its payload stays where it is.                  *)
ReconcileFinish(a) ==
  LET j == rec[a].job
      next == IF rec[a].report # "succeeded" THEN "FAILED"
              ELSE IF j \in Deploys /\ attempt[j].op = "VALIDATE"
                   THEN "VALIDATED_PENDING_EXECUTION" ELSE CompletedStatus(j)
  IN
  /\ Serving /\ rec[a].pc = "recorded"
  /\ \/ /\ next = "APPROVAL_PENDING" => job[j].prepared
        /\ Transition(j, next, None)
     \/ UNCHANGED job
  /\ rec' = [rec EXCEPT ![a] = NoRec]
  /\ UNCHANGED <<attempt, approval, world, phase, toRecover, requests, worker, pending, retrying>>

(* bindForReconciliation: an administrator names the remote operation of a *)
(* submission whose id never arrived.  The report must exist and match the *)
(* kind of the submission; the id must not be recorded anywhere else.      *)
Bind(j, r) ==
  /\ Serving
  /\ job[j].status = "RECONCILE_REQUIRED"
  /\ attempt[j].state = "SUBMITTING" /\ attempt[j].remoteId = None
  /\ remote[r].state # "absent" /\ CheckOnly(r) = (attempt[j].op = "VALIDATE")
  /\ remote[r].owner = j \/ AdminMistakes
  /\ \A k \in Jobs \ {j} : attempt[k].remoteId # r /\ job[k].sfId # r
  /\ attempt' = [attempt EXCEPT ![j].state = "SUBMITTED", ![j].outcome = "SUBMITTED",
                    ![j].remoteId = r, ![j].version = @ + 1]
  /\ job' = [job EXCEPT ![j].sfId = r]
  /\ UNCHANGED <<approval, world, phase, toRecover, memory>>

-----------------------------------------------------------------------------
(* Salesforce and the network.                                             *)

Accept(j) ==
  /\ call[j] = "sent"
  /\ \E r \in Remotes :
       /\ remote[r].state = "absent"
       /\ remote' = [remote EXCEPT ![r] = [state |-> "active", owner |-> j]]
  /\ call' = [call EXCEPT ![j] = "accepted"]
  /\ UNCHANGED <<db, phase, toRecover, memory>>

Refuse(j) ==
  /\ call[j] = "sent"
  /\ call' = [call EXCEPT ![j] = "refused"]
  /\ UNCHANGED <<db, remote, phase, toRecover, memory>>

Settle(r) ==
  /\ remote[r].state = "active"
  /\ \E state \in Done : remote' = [remote EXCEPT ![r].state = state]
  /\ UNCHANGED <<db, call, phase, toRecover, memory>>

-----------------------------------------------------------------------------
(* The process.                                                            *)

(* recoverInterruptedJobs runs at start-up before anything else and at the *)
(* end of a shutdown: it lists the interrupted jobs, then updates each by  *)
(* the status the list had.  A failure aborts the start-up or shutdown.    *)
Interrupted == {j \in Jobs : job[j].status \in {"QUEUED"} \cup Running}

Recovering == phase \in {"recovering", "settling"}

Recover(j) ==
  /\ Recovering /\ j \in toRecover
  /\ Transition(j, IF job[j].status = "QUEUED" THEN "FAILED" ELSE "RECONCILE_REQUIRED", None)
  /\ toRecover' = toRecover \ {j}
  /\ UNCHANGED <<attempt, approval, world, phase, memory>>

(* A request refused by the closed queue may have failed the job first.    *)
RecoverFail ==
  /\ Recovering /\ toRecover # {}
  /\ phase' = IF phase = "settling" THEN "stopping" ELSE "down"
  /\ toRecover' = {}
  /\ UNCHANGED <<db, world, memory>>

Boot ==
  /\ phase = "recovering" /\ toRecover = {}
  /\ phase' = "up"
  /\ UNCHANGED <<db, world, toRecover, memory>>

(* shutdown: the queue closes, its entries finish (an aborted one by one   *)
(* of the failures above), the pending completions are flushed, the        *)
(* interrupted jobs are recovered and the database is closed.              *)
StopAccepting ==
  /\ phase = "up"
  /\ phase' = "stopping"
  /\ UNCHANGED <<db, world, toRecover, memory>>

(* Mutant: the database is closed without flushing the completions.        *)
FlushSkipped ==
  /\ phase = "stopping"
  /\ \A j \in Jobs : worker[j].pc = "idle"
  /\ phase' = "settling"
  /\ toRecover' = Interrupted
  /\ UNCHANGED <<db, world, memory>>

Flushed ==
  /\ phase = "stopping"
  /\ \A j \in Jobs : worker[j].pc = "idle" /\ pending[j] = None
  /\ phase' = "settling"
  /\ toRecover' = Interrupted
  /\ UNCHANGED <<db, world, memory>>

ForgetMemory ==
  /\ requests' = [j \in Jobs |-> 0]
  /\ worker' = [j \in Jobs |-> Idle]
  /\ pending' = [j \in Jobs |-> None]
  /\ retrying' = None
  /\ rec' = [a \in Actors |-> NoRec]

(* Requests under way when the database closes die with it.                *)
Close ==
  /\ phase = "settling" /\ toRecover = {}
  /\ phase' = "closed"
  /\ ForgetMemory
  /\ UNCHANGED <<db, world, toRecover>>

Crash ==
  /\ phase \notin {"closed", "down"}
  /\ phase' = "down"
  /\ toRecover' = {}
  /\ ForgetMemory
  /\ UNCHANGED <<db, world>>

Restart ==
  /\ phase \in {"down", "closed"}
  /\ phase' = "recovering"
  /\ toRecover' = Interrupted
  /\ UNCHANGED <<db, world, memory>>

-----------------------------------------------------------------------------
RequestStep(j) == Create(j) \/ Enqueue(j) \/ Abandon(j)

WorkerStep(j) ==
  \/ Start(j) \/ Prepare(j) \/ BeginAttempt(j) \/ Submit(j) \/ Respond(j)
  \/ LoseResponse(j) \/ RecordSubmission(j) \/ Poll(j) \/ LosePoll(j)
  \/ StoreArtifacts(j) \/ RecordFailure(j) \/ Complete(j) \/ Verify(j)

RetryStep(j) == RetryRead(j) \/ RetryWrite(j) \/ RetryFail(j)

UserStep ==
  \/ \E d \in DryRuns : Approve(d)
  \/ \E a \in Actors : \/ \E j \in Jobs : ReconcileReport(a, j)
                        \/ ReconcileRecord(a) \/ ReconcileFinish(a)
  \/ \E j \in Jobs, r \in Remotes : Bind(j, r)

SalesforceStep ==
  \/ \E j \in Jobs : Accept(j) \/ Refuse(j)
  \/ \E r \in Remotes : Settle(r)

ProcessStep ==
  \/ \E j \in Jobs : Recover(j)
  \/ RecoverFail \/ Boot \/ StopAccepting \/ Flushed \/ Close \/ Crash \/ Restart

Next ==
  \/ \E j \in Jobs : RequestStep(j) \/ WorkerStep(j) \/ RetryStep(j)
  \/ UserStep \/ SalesforceStep \/ ProcessStep

Spec == Init /\ [][Next]_vars

(* The event loop runs the task and the retry timer; the command timeout   *)
(* and the 60-minute deadline end the waits; a database that can be written*)
(* again and again is written in the end.  Users, Salesforce, crashes and  *)
(* shutdowns owe nothing.                                                  *)
Fairness ==
  \A j \in Jobs :
    /\ WF_vars(WorkerStep(j)) /\ WF_vars(LosePoll(j))
    /\ WF_vars(RetryStep(j)) /\ SF_vars(RetryWrite(j))

FairSpec == Spec /\ Fairness

-----------------------------------------------------------------------------
(* Properties.                                                             *)

Pcs == {"idle", "queued", "preparing", "intending", "submitting", "responding",
        "recording", "polling", "storing", "failing", "unknown", "completing", "verifying"}

Completions == [version : Nat, rid : Remotes \cup {None}]

(* The values the rows, the remote operations and the in-memory tables of  *)
(* the process can have.                                                   *)
TypeOK ==
  /\ job \in [Jobs -> [status : Statuses, prepared : BOOLEAN,
                       sfId : Remotes \cup {None}, dryRun : DryRuns \cup {None}]]
  /\ attempt \in [Jobs -> [state : {"NONE", "SUBMITTING", "SUBMITTED", "TERMINAL"},
                           op : {None, "VALIDATE", "DEPLOY"}, remoteId : Remotes \cup {None},
                           outcome : {"UNKNOWN", "SUBMITTED", "RUNNING", "SUCCEEDED", "FAILED"},
                           version : Nat]]
  /\ approval \in [DryRuns -> Deploys \cup {None}]
  /\ remote \in [Remotes -> [state : {"absent", "active"} \cup Done, owner : Jobs \cup {None}]]
  /\ call \in [Jobs -> {"none", "sent", "accepted", "refused"}]
  /\ phase \in {"up", "stopping", "settling", "closed", "down", "recovering"}
  /\ toRecover \subseteq Jobs
  /\ requests \in [Jobs -> 0 .. MaxCalls]
  /\ worker \in [Jobs -> [pc : Pcs, rid : Remotes \cup {None}, version : Nat]]
  /\ pending \in [Jobs -> Completions \cup {None}]
  /\ retrying \in [job : Jobs, completion : Completions] \cup {None}
  /\ rec \in [Actors -> [pc : {"idle", "reported", "recorded"}, job : Jobs \cup {None},
                         version : Nat, report : {"running"} \cup Done \cup {None}]]

OwnRemotes(j) == {r \in Remotes : remote[r].owner = j}

(* No job is ever submitted to Salesforce twice, whatever is lost, retried,*)
(* crashed or approved again in between ("an unclear execution is never    *)
(* resubmitted").                                                          *)
SubmittedAtMostOnce == \A j \in Jobs : Cardinality(OwnRemotes(j)) <= 1

(* One validated payload is deployed at most once, however many approvals  *)
(* of its dry run arrive and whichever of their jobs fail.                 *)
ApprovedAtMostOnce ==
  \A d \in DryRuns :
    Cardinality({r \in Remotes : remote[r].owner \in {j \in Deploys : job[j].dryRun = d}}) <= 1

(* A job is reported as successful only if everything it submitted to      *)
(* Salesforce has succeeded there.                                         *)
SuccessIsReal ==
  \A j \in Jobs : job[j].status \in {"APPROVAL_PENDING", "SUCCEEDED"} =>
    /\ call[j] # "sent"
    /\ \A r \in OwnRemotes(j) : remote[r].state = "succeeded"

(* A job is reported as failed, and so as safe to run again, only when     *)
(* nothing of it is still running in Salesforce or on its way there.       *)
FailureIsSettled ==
  \A j \in Jobs : job[j].status = "FAILED" =>
    /\ call[j] # "sent"
    /\ \A r \in OwnRemotes(j) : remote[r].state # "active"

(* A completed job keeps its status for ever: the completion retry, a      *)
(* second reconciler, a recovery and a repeated approval that read the row *)
(* earlier do not overwrite it.                                            *)
CompletedIsFinal ==
  [][\A j \in Jobs : job[j].status \in Completed => job'[j].status = job[j].status]_vars

(* A shutdown that closes the database leaves no job in a running status   *)
(* and throws no confirmed result away.                                    *)
ClosedIsSettled ==
  [][phase' = "closed" /\ phase # "closed" =>
       \A j \in Jobs : job[j].status \notin Running /\ pending[j] = None]_vars

(* The jobs implement SalesforceEffects: seen from outside, a crash, a lost *)
(* answer or a retry is a stuttering step.                                 *)
Stage(j) ==
  CASE job[j].status = "ABSENT" -> "none"
    [] job[j].status = "FAILED" -> "refused"
    [] job[j].status \in Completed \ {"FAILED"} -> "confirmed"
    [] OTHER -> "open"

Effect(j) ==
  CASE call[j] = "none"    -> "none"
    [] call[j] = "sent"    -> "underway"
    [] call[j] = "refused" -> "rejected"
    [] OTHER ->
         IF \E r \in OwnRemotes(j) : remote[r].state = "active" THEN "underway"
         ELSE IF \A r \in OwnRemotes(j) : remote[r].state = "succeeded" THEN "applied"
         ELSE "rejected"

Effects == INSTANCE SalesforceEffects WITH
             stage <- [j \in Jobs |-> Stage(j)], effect <- [j \in Jobs |-> Effect(j)]

ImplementsEffects == Effects!Spec

(* A failed job did not succeed in Salesforce.                             *)
FailureIsReal ==
  \A j \in Deploys : job[j].status = "FAILED" =>
    \A r \in OwnRemotes(j) : remote[r].state # "succeeded"

(* A queued task ends: neither a silent Salesforce nor a failing database  *)
(* keeps the only lane of the queue for ever.                              *)
QueuedTaskEnds == \A j \in Jobs : worker[j].pc = "queued" ~> worker[j].pc = "idle"

(* A confirmed result waiting to be stored is stored, or dropped as stale. *)
PendingIsResolved == \A j \in Jobs : pending[j] # None ~> pending[j] = None

(* The process settles what it started: every queued task ends, every      *)
(* confirmed result is stored or dropped, and a shutdown closes on neither *)
(* a running job nor a result that waits.                                  *)
WorkSettles == QueuedTaskEnds /\ PendingIsResolved /\ ClosedIsSettled
=============================================================================
