# Verification of sf-unlucky-deploy

TLA+ models, TLC runs and TLAPS proofs for this repository: a web application, and a command line, that compare
Salesforce metadata, validate it with a dry run and deploy it. Paths are relative to `src/` of the repository
(`deploy/...` is the directory `src/deploy`), those under `ui/` to `ui/src`.

`PROJECT.json` is the index: components, runs, theorems, findings, hazards, and for every definition that models
code the lines it models. This file says how to read it.

## 1. The system

One Node.js process (or several) on one SQLite database, child processes (`sf`, `git`), files, and a browser page.
JavaScript runs one callback at a time, so concurrency means what happens between two `await`s. Throughout, one
action is the code between two awaits, a database transaction is one step, and any database statement or file
operation may fail where the module has a budget for it or leaves it open.

| Part | State | Operations | What is hard | What makes it correct |
|---|---|---|---|---|
| Deployment jobs (`deploy/deployment-*`, `salesforce-deployment`) | rows of jobs, attempts, approvals; completions in memory | create, approve, run, submit, poll, complete, retry, reconcile, bind, recover | the effect on Salesforce cannot be undone or repeated; every write may fail; answers get lost; the process dies | nothing is submitted twice; a terminal status agrees with Salesforce and never changes |
| Dry runs (`deploy/dry-run-service`) | coalesced requests, admission, run directory | create, create direct, tasks | a request holds reservations across many awaits | one job per key; every slot is given back once |
| Job queue (`jobs/single-job-queue`) | running map, pending list, reservation count | reserve, enqueue, drain, stop, abort | slots promised before the job exists; abort against waiting entries | capacity and lanes are kept, nobody is forgotten |
| Execution lease, admission limits | rows in the database, counters | acquire, renew, release | expiry while the holder works; several processes | one working task in all processes |
| Comparisons (`compare/`) | rows, queue, pinned sources | admit, run, cancel, recover | shutdown between admission and run | sources stay while read; results of successes exist |
| Managed projects, Git imports, registrations, cache (`sources/`, `git/`) | directories and their users, import records, lanes, tails | import, select, cancel, time out, close, synchronise, evict | cancellation and shutdown at any await | a shown source is whole; nothing is left behind |
| Run storage (`app/runtime-run-storage`) | run directories | clean, protect | deleting what a new job needs | a needed directory stays |
| Accounts, sessions, logins (`auth/`, `web/server/auth-*`) | users, sessions, limits | login, bootstrap, change, OAuth | state checked, then used after an await | an administrator remains, sessions end with what they rest on |
| Access (`jobs/job-access-*`, routes) | grants, roles, org permissions | grant, approve, execute | the same | what is done, its user could do |
| Salesforce and Git connections (`salesforce/`, `git/`) | rows with tokens, caches | replace, rename, refuse, disconnect | late answers about an earlier token | a late answer changes nothing newer |
| Metadata (`metadata/`), rules (`deploy/test-*`) | none | compare, exclude, plan, gate | two algorithms for one question, corner cases | they agree with a definition of what they compute |
| Command line (`deploy/execute-deployment`, `web/server/ui-control`) | one run; records of servers | deploy, start, stop | another process alters the directory, a command leaves helpers | what was compared is sent |
| Home directory (`config/`) | two files and a lock | init, setup, load | a crash between two replacements | both files or none |
| Page (`ui/`) | jobs shown, drafts, pending submissions | submit, poll, restore | late, lost, reordered answers | what is shown is what is selected |

## 2. Modules

A component has a module of the same idea; the module's comment says what it is about, its variables name the code's
fields, its actions the code's functions. Where components share no state, an `MC` module puts several of them side by
side, and a behaviour is one of one of them while the others rest (`work`, `part`, `service`, `store`, `subject`).
This costs no interleavings, there being none to see, and lets one run check them. Components that do interact are
composed in one module: the jobs with completion, reconciliation and recovery; the requests with admission, queue and
database; the imports, and the comparisons, with the storage of projects they `EXTEND`.

### Deployments

**`DeploymentJobs`** composes the job, attempt and approval rows, the task, `DeploymentCompletion`, reconciliation,
Salesforce and the server process.

| Variable | Code |
|---|---|
| `job` | row of `deployment_jobs`: status, prepared, Salesforce id, the approved dry run |
| `attempt` | the active row of `deployment_attempts`: submission state, operation, remote id, outcome, version |
| `approval` | `deployment_approvals`: which deployment a dry run's approval created |
| `remote`, `call` | Salesforce (external): operations and their owners, start commands on their way |
| `phase`, `toRecover` | the process: up, stopping, settling (recovery in a shutdown), closed, down, recovering |
| `requests` | requests that have committed a job and not yet enqueued its task |
| `worker` | where a job's task is, from `preparing` over `submitting`, `recording`, `polling` to `completing` |
| `pending`, `retrying` | `DeploymentCompletion.pending` and the entry being written |
| `rec` | a reconciliation between its awaits |

`Create`, `Approve`, `Enqueue`, `Abandon` are requests; `Start` to `RecordFailure` the task; `Complete`, `Verify` and
the `Retry...` actions the completion; `ReconcileReport/Record/Finish` and `Bind` reconciliation; `Accept`, `Refuse`,
`Settle` are Salesforce; `Recover` to `Restart` the process. `Abandon` fails a request whose job is committed: the job is
`FAILED` when its selected manifest could not be written, and stays `QUEUED` until the next start when that write failed
too, or the job could not be read back. A failing write appears in the action that makes it, with the program's own
reaction. Payload, test plan and evidence are abstracted to choices to fail; quick and standard
deployment differ in arguments only. `VALIDATED_PENDING_EXECUTION` belongs to rows of earlier versions: no current path
reaches it, the transition table keeps it. The order of the tasks is left to `JobQueue`: any queued task may start while
no other runs.

**`SalesforceEffects`** is the promise seen from outside: the `stage` of a job (none, open, confirmed, refused) and the
`effect` of its operation (none, underway, applied, rejected). `DeploymentJobs` maps `job.status` to the one and
`call`/`remote` to the other; crashes, retries, lost answers and reconciliation are stuttering steps.

**`DeploymentRequests`** has the requests of several processes that share a database.

| Variable | Code |
|---|---|
| `of` | what a request asks: process, user, idempotency key, content hash |
| `req` | the frame of `DryRunService.create`: `pc`, whether it holds a reservation, an admission, pins, an answer |
| `inFlight` | the map of promises with which a process coalesces requests of one key |
| `active`, `row` | counters of `DeploymentAdmissionLimiter`; rows of the admission table, as ticks they have left |
| `job`, `task` | the job a request inserted; the tasks the queues hold |
| `process`, `exits` | open, closing or down |

`Arrive` joins or begins, `Step` takes a request through its awaits (each of which may fail), `SettleFails` and
`RunTask` are its ends, `Tick` lets admission rows expire.

**`DeploymentRules`** has the pure rules: the manifest of two sources, the Apex test plan, the coverage gate.
**`JobQueue`** is `SingleJobQueue`: `running`, `aborted`, `queue`, `reservation`, `reservedCount`, `drainScheduled`
(the microtask), `accepting`, `abortRequested`; every method is synchronous and so one action.

**`ExecutionLease`** has several processes with a lane each and the rows of `deployment_execution_leases` (`row`: ticks
until `expires_at`), the task (`pc`), its heartbeat (`timer`), the recoveries at start and stop (`listed`). Time is
relative, so no clock needs a bound. `punctual`, chosen at the start, says whether a due heartbeat, and the read-back of
a new row, come before the next tick, or a process may stall as long as it likes. A task submits once and ends; the
details are in `DeploymentJobs`.

**`CommandExecution`** is one `executeComparison` or `executeDeployment`: two snapshots at once, digest, validation,
confirmation, deployment, while somebody alters the directory. **`CliProcess`** is `runProcess`/`runIsolatedGit`: child,
helper in its process group, output limit, timeout, abort, SIGTERM and SIGKILL.

### Comparisons and sources

| Module | State ↔ code | Actions |
|---|---|---|
| `ManagedProjects` | `project` (directory, pins, timer per id), `storage` | begin, complete, pin, release, discard, expire, close; parts of the actions of the modules that extend it |
| `Comparisons` | `req` (a request's frame), `row` (status), `artifact`, `task`, `pinned`, `waiting` (queue), `phase` | `Reserve`, `Request`, `Execute` step by step; `RemoveSource`, `Stop`, `Abort`, `Recover`, `Close`, `Restart` |
| `GitImports` | `status` (row), `imp` (entry, work, abort flag), `queue`, `call` (cancel, remove), `closed` | `Create`, `Begin`, `Insert`, `Work`, `Select`, `CancelByUser`, `Timeout`, `CancelEnds`, `Deleted`, `Remove`, `Use`, `Expire`, `Close`, `Restart` |
| `KeyedTails` | the map of promise tails per key | join, leave |
| `GitCache` | `size`, `disk`, `active`, `user`, tails; `fitted` (history: the charges were within the limit once) | `Acquire`, `Proceed` (charge, list, evict, release), `Close`, `Unlock` |
| `GitRegistrations` | `status`, `call`, `admitted`, tails | `SyncOrPrepare`, `GoOn`, `Register`, `Remove`, `Shut`, `Recover` |
| `RunStorage` | `job`, `directory`, `aged`, `cleaner`, `admission`; `earlier` (jobs of an earlier version, which share a directory of selected manifests) | `Clean` through its awaits, each of which may fail (`CleanFails`); `Prepare`, `Approve`, `Ask`, `Age`, `JobGoesOn` |
| `MetadataComparison` | none: operators for `compareFile`, `compareXml`, `compareLargeXml`, `compareSnapshots`, package exclusion | evaluated by `MCParts` |

### Access, connections, settings

| Module | State ↔ code | Actions |
|---|---|---|
| `AccessControl` | roles, owners, grants, the org's policy; a request's route and where it is | each check and each effect of a route, and the worker's last check |
| `UserAccounts` | `users`, bootstrap token, sessions, callers | bootstrap, create, update, login, revoke, each check apart from its write |
| `LocalAccess` | stored digest, per server its configuration, sessions, logins | start, login, update of an old digest, stop |
| `LoginLimits` | reservations, failures, processor slots | arrive, verified, tick |
| `OAuthFlows` | attempts, starts of a session, cookies, completions | start, callback, complete through its awaits, end of a session |
| `SalesforceConnections` | rows with generations, requests with pins and homes, refused logins | register, replace, rename, remove; login, run, mark, finish |
| `OrgCache` | fingerprint and list, epoch, shared load | commit, drop, ask, proceed |
| `GitConnections` | rows with token versions, one registration, replaced connections whose imports are still to cancel, uses | validate, save, cancel, disconnect; list, import |
| `GitNetworkPolicy` | addresses stored and in memory, the executor's line; `stale` (history: the last refresh failed) | write, list, enable; each may fail |
| `HomeConfiguration` | config, secrets, lock, processes | init, setup, load, replace, restore, killed |
| `UiControl` | starts, closes, ports, records, a stop; `kept` (history: records that could not be removed) | start, run, crash, ask, remove stale, stop |

### The page

| Module | State ↔ code | Actions |
|---|---|---|
| `PendingSubmissions` | records in the browser's storage, tabs, POSTs on their way | start, send, process, settle, check, look up, reload |
| `DraftSaving` | selection, client draft, server draft with revision, PUTs | edit, revert, timer, receive, save, answer, reload, restore, resolve |
| `BranchPreparation` | branch, type, version counter, preparations | change, prepare, step, abort, choose |
| `BrowserSession` | session, status requests, home lists | log in, log out, ask, serve, lost, answered |
| `WorkflowUpdates` | selection, jobs shown, requests, events, polls, reconciliation; `missed` (history: a poll has failed) | change, effects, submit, answer, receive, poll, fail, reconcile |

## 3. Runs

A property of a run is often a bundle: the conjunction of the invariants (or of the action, or of the temporal
properties) of the components it looks at, each stated, with its comment, in the module of the component. The table
names the bundles and what they say.

| Run | Instance | Shows |
|---|---|---|
| `DeploymentSafety` | one dry run, one deployment (direct or approved), two ids, one actor, attempt version 2 | `SubmittedAtMostOnce`, `SuccessIsReal`, `FailureIsSettled`; `SalesforceEffects` is implemented |
| `DeploymentOutcomes` | two instances at once (`TwoInstances`): two approvals' worth of deployments and three ids with no actor at work, or one deployment and one id with two interchangeable actors and attempt version 4; two waiting requests | `ApprovedAtMostOnce`, `CompletedIsFinal` |
| `DeploymentLiveness` | two deployments, one id | `WorkSettles`: tasks leave the lane, completions are stored, a shutdown ends |
| `FailedAfterSuccess` | one deployment, one id | the disagreement of section 6 |
| `Jobs` | `JobQueue`: four jobs, three requests, two lanes, capacity two; `Comparisons`: two, one lane, an imported source and a registered branch, two faults, one restart; `CommandExecution`: any options, two alterations; `CliProcess` | `QueueSafety`, `NoIdleLane`; `ComparisonsAreSound`, `HistoryIsKept`; `RunsAreAccounted`, `SendsWhatWasCompared`; `EverythingEnds` |
| `Imports` | two imports on a lane; two of which one may be under way, with a crash; one with a failure and a crash | `SourcesAreTrue`, `WorkIsAccounted`, `ImportsEnd` |
| `Lease` | two processes, a job each, one row; lease 2 ticks, heartbeat 1 | `Exclusive` (punctual), `RowsWithinCapacity`, `LeaseServes` |
| `Requests` | three requests of one user, two processes, one of them mortal, keys equal or different, contents equal or different, limits 2 | `RequestsAreOnce`, `SlotsAreAccounted`, `RequestEnds` |
| `Parts` | every bounded input of the rules; the five modules of the page | `VerdictsAreRight`, `ExclusionHolds`, `DeploymentIsAsSelected`; `WorkIsKept`, `ShownIsCurrent` |
| `Services` | one request on two Salesforce connections and aliases; two readers of the org cache; three OAuth flows of two sessions; three logins of two addresses and accounts; two users; two servers with two local passwords | `ConnectionsAreOwn`, `SignInsHold`, `LateIsNothing` |
| `Stores` | cache of three repositories (limit 2 each, 4 in all, one found with 2 or 5 on the disk), two users and their evictions; two branches of two owners, four calls, two admitted per owner and three in all; three run directories and the shared one | `HoldersAreReal`, `NeedsAreKept`, `WaitingEnds` |
| `Access` | access control of two users, two requests and a dry run that is nobody's or the second one's (`Owners`); two Git connections; three changes of the addresses; two processes and three commands on the home directory; two servers and a stop | `DoneWhileEntitled`, `GitAccessIsCurrent`, `HomeIsWhole`, `NothingStaleIsDone` |

Why the bounds are enough. An attempt's version counts its writes: begin, submitted, one `running` report and the final
one need four, a reconciliation two more, so the deployment runs together reach every race of a stale version; two ids
per job would show a second submission, three a second deployment of an approved payload. `MaxCalls` bounds the repeated
approvals that wait to enqueue one job. `AdminMistakes` is FALSE where the property is about the program: whoever binds
an id names the job's own operation. The queue fills up with two places and two lanes and a shutdown finds jobs waiting.
Two jobs in two processes are all an exclusion of one needs, and lease and heartbeat matter only by their order; in
`Lease`, of punctual processes one at a time starts or stops and stalling ones all serve (`StallsOnly`): what stalls do
is a matter of the rows, what starts and stops do a matter of the recovery. Three requests are a first one, one that
joins it and one that finds its job in another process. Two of each kind elsewhere give a holder and a rival; the third
cached repository gives an eviction a choice, the third branch call somebody who waits behind somebody who waits, the fourth
one who finds the server's limit reached before the owner's, the third address change an order among answers. Budgets of faults, crashes and restarts are one or two: an invariant that a
single failure at the worst place cannot break is rarely broken by a third.

The rules are checked on documents of up to two elements with up to two children, snapshots of a parent with two members
and a component of its own, three packages in two orgs, payloads of up to three Apex members and reports of up to two
entries: the code looks at elements, members and entries one by one or in pairs.

CHECK_DEADLOCK is off where a system may stop: a run of the command line ends, a closed service stays closed, a budget of
user actions is used up. In the other runs TLC checks for deadlock.

`Stores` has an action constraint, `StartInOrder`: of the three calls that are interchangeable, the first that is out
starts, and the last of them starts only for the branch of the other owner: a bound, under which each limit still binds
alone (two calls of one owner, then a third; two of one, one of the other, then another of that). The remaining call,
`someone`, is the one `WaitingEnds` follows; no step of a call under way is cut.

Some properties except what the code lets happen, each at a failure the models have:
- `CacheWithinTotal` begins once the charges have fitted (`fitted`), because `GitCache.create` takes what is on the disk;
  and it is stated for less than two faults, because a directory that can be neither measured nor deleted keeps the full
  charge of a user who was refused for it. The run has one fault; the proof shows that one does not suffice to exceed.
- `RefusedForNeeds` is about refusals. A clean-up that fails (a query, a deletion, the check of the free space) ends above
  the quota with directories nobody needs; who joined it is answered with its error, not refused.
- `PolicyIsStored` excepts the time after a change that was committed and could not be read back
  (`git/git-allowed-ip-service.ts:27`): its caller gets an error, and the policy stays as it was until the next change is
  read. `RemovedIsRefused` is about removals that were answered without an error.
- `NothingLeftBehind` excepts the record of a server that tried to remove it and could not
  (`web/server/ui-control.ts:80`). The record of a server that crashed waits for the next stop.
- `StaleIsPolled` excepts a job a poll of which has failed (`ui/workflows/useWorkflowUpdates.ts:127`): the page shows the
  error and polls it no more, so with its events lost the job is shown running until something else shows it anew.
- `LatestIsKept` excepts requests that took effect in another order than they were sent, and the selection a user goes
  back to while a newer one is being saved: what was saved last is not saved again, and the newer one may be.
- `ExclusionIsExact` excepts, for packages told by their namespace, the members section 6 names.

## 4. Fairness

Nothing is assumed of users, Salesforce, crashes or shutdowns. The event loop runs what is ready: weak fairness of the
steps of a task, a request, a call or a clean-up. Commands have timeouts, requests to Salesforce a deadline of
60 minutes (`LosePoll`), so that every wait ends. The completion is retried for ever, so a database that works again and
again stores the result (strong fairness of `RetryWrite`). For the lease, time passes (strong fairness of `Tick`, which a
punctual process holds up until it has handled a due heartbeat); besides that either heartbeats run (a command may hang)
or the steps of a task are taken. A timer that ends an import, or a forced kill, fires because `setTimeout` does.

## 5. Proofs

Every theorem holds for all values of the constants that meet the named assumptions of the component's module. The
argument is the same everywhere: an inductive invariant, checked by TLC on the component's instance before it was proved,
with a lemma per action, or per group of actions that disturb the same parts.

| Module | Theorems | Assumptions |
|---|---|---|
| `DeploymentJobsProofs` | `DeploymentTypes`, `SingleSubmission`, `TruthfulSuccess`, `SettledFailure`, `CompletionIsFinal`, `SingleDeploymentOfADryRun`, `EffectsAreImplemented` | `ConstantsAssumption`: a job is a dry run or a deployment; `None` is no job, id or kind. `TruthfulSuccess`, `SettledFailure` and `EffectsAreImplemented` also `AdminMistakes = FALSE` |
| `JobsProofs` | `QueueKeepsItsPromises`, `NothingIsForgotten`, `RunsStayAccounted`, `OnlyTheComparedIsSent`, `ComparisonsStay`, `PastStays` | `QueueAssumption`: finitely many ids, a lane, a place; `ComparisonsAssumed`; `VersionsAssumption`: versions are numbers, there is output that is too much (`MaxOutput` above 0), `nothing` is no version |
| `LeaseProofs` | `LeaseTypes`, `LeaseCapacity`, `OneHolder` | the module's assumptions; for `OneHolder` the property itself asks for punctual processes |
| `RequestsProofs` | `RequestsOnce`, `SlotsAccounted` | `LimitsAssumption`, `NoneAssumption`, `LoadsAssumption` |
| `StoresProofs` | `SourcesStayTrue`, `WorkStaysAccounted`, `EndsForGood`; `HoldersStayReal`, `NeedsStayKept` | `ImportsAssumption`: a lane; the bounds of a behaviour are numbers. `StoresAssumption`: finitely many directories, users, branches and calls; `nobody` and `NoKey` are none of them; who evicts for a user is no user; limits are numbers; an execution and its dry run are runs that are tracked |
| `ComparisonsProofs` | `ComparisonsStaySound`, `HistoryStays` | `ComparisonsAssumption`: a lane; a registered source stands for the directory one comparison imports into; the other bounds are numbers |
| `AccessProofs` | `OnlyEntitledAct`, `GitAccessStaysCurrent`, `HomeStaysWhole`, `NothingStaleIsEverDone` | `AccessAssumption`: the worker is no request, the two jobs differ, accounts and changes are of their types; `GitAssumption`: tokens are numbers, `None` is no account; `HomeAssumption`: `None` is no process |
| `ServicesProofs` | `ConnectionsStayOwn`, `SignInsStay`, `NothingLateIsDone` | `NoneAssumption`: `None` is no row, pin or login of a connection and no session; `NumberAssumption`: limits, times and bounds are numbers |

**Deployment jobs.** The invariants build on each other:

| Invariant | Says | Why it is needed |
|---|---|---|
| `TypeInv` | types; a reconciler under way names a job and a report | every other step |
| `SubmissionInv` = `OwnersInv`, `RolesInv`, `NotSentInv` | an operation has one owner, whose start command was accepted; a working task means a running status, a kept completion a finished task, a reconciliation a job that is over; before its task submits nothing of a job is on its way | a second submission needs a second task, or a task of a job that was started before: the roles exclude both |
| `TruthInv` = `IdsInv`, `KnowledgeInv`, `StatusInv` | ids held for a job are its own; what a task, a kept completion or a reconciler takes for known is so; so is what a status says | a result travels through the worker, `pending` or a reconciler before it is written, so its truth is followed there |
| `NoValidationInv` | no deployment validates, so `VALIDATED_PENDING_EXECUTION` is not reached | it is the only completed status with a way out in the transition table |
| `ApprovalInv` | a deployment that refers to a dry run is the one its approval names | two deployments of one payload would be two values of one approval; `DryRunStep` says that the reference and the approval are written together, once |

`EffectsAreImplemented` is the refinement of `SalesforceEffects` as `PROPERTY ImplementsEffects` states it: the initial
states map to initial ones (`StageOf`), a step of the rows to a step of the stage or a stutter (`RowsImplement`), a step
of Salesforce to one of the effect (`WorldImplements`), with `SubmissionInv` and `TruthInv` as the facts a confirmation
or a refusal needs. A success relies on Salesforce's report being final and on an id answered by a start command being
the id of that command's operation, as the model of Salesforce has it.

**Job queue.** The inductive invariant is the conjunction of the invariants and the finiteness of the set of reservation
holders: the capacity needs the exact count, the lanes and the idle lane need distinct entries (`StartedCount`: the first
n entries are n jobs; `DrainFits`: what a drain does). The theorems are about the queue by itself, and `QueueAmongOthers`
takes them to `MCSpec`, the queue beside what the run `Jobs` has with it; the theorems below are about `MCSpec`.

**Runs of the command line and commands.** A step of one leaves the variables of the others alone, so each has an
invariant of its own, carried over the steps of the others (`RunInv`).

| Invariant | Says | Why it is needed |
|---|---|---|
| `CommandInv` = `CommandTypes`, `HashedFirst`, `PhasesInOrder` | versions only grow, so what was compared is between what was hashed and what is there now; a place between two exchanges is reached only with the answers and the coverage that the options ask for; nothing is sent after the deployment | somebody may alter the directory between any two steps, and the check before each exchange looks at three versions that were read at different times |
| `ProcessInv` | a child that never ran has no verdict against it and no helper; a child that failed has a verdict or an outcome; output at the limit is known to whoever settles the command; a Git command ends only when it is closed, and one that was ended without a helper that holds on | outcome, exit, output and the reasons to end a child come in any order |

`SendsWhatWasCompared` is an action property over `CommandInv`: only a step to the place before an exchange matters, and
there the check has found the digest, and with it the version, unchanged (`CommandSends`). `MaxOutput`
is above 0 because it stands for the output that is one piece too many.

`ComparisonsStay` and `PastStays` take the theorems of `ComparisonsProofs` to the comparisons of `MCSpec`. That module is
instantiated with the variables and constants of `MCJobs` (`CP`), its definitions are the ones that `MCJobs` has by
instantiating `Comparisons` (the lemmas `Same...`), and its initial states and steps are those of the comparisons.

**Lease.** The capacity needs the finiteness of the set of rows (`RowsCounted`): a transaction that adds a row has counted
what it keeps. `OneHolder` also needs that tasks belong to a living process (`TasksServed`), that a job has no row before
its task asks (`NoRowsYet`), and `RowsLast`: the row of a working task that is not aborted has at least
`LeaseTicks - BeatTicks` ticks more than its timer, so it has not expired and nobody has deleted it. With stalls a second
task may work until the first hears of its loss; that it hears is `LeaseServes`, model-checked.

**Requests.** `RequestInv` describes each request by where it is: `KnowsInv` (whether it has a job, what a joined or
finished request refers to, that an answer has the key and content of its question), `HoldsInv` (an admission slot exactly
while it prepares, a reservation and pins on the way to a task). To that come `FlightInv`, the promise a key maps to is
under way in that process, and `SlotInv`, the counter of a process and user is the number of its requests that hold a
slot. `OneJobPerKey` is inductive only with `KnowsInv`: two requests of a key may both have looked in vain, and the
`UNIQUE` of the database, in `CreateStep`, lets one of them insert.

**Imports.** `ImportInv` says of every import (`Sound`) how its entry, its place in the queue, its row, its directory and
its calls fit together:

| Part | Says | Why it is needed |
|---|---|---|
| `WorkSound` | work runs where the entry says so and then neither waits nor lets the user select; what waits and is not cancelled has an entry nobody cleans up | a lane, or a selection, would start the work a second time |
| `SourceSound` | a source, or an entry about to become one, has a row `READY` or a directory on its way out | `Get` and `Remove` may expire or delete a row before `Publish` looks at the abort signal |
| `CleanSound` | a clean-up means an entry without lease and a directory that goes; a finished one, no entry | an entry that goes takes its lease and its directory with it |
| `CallSound` | who waits in a cancellation has cancelled; who waits to write a removal has seen the directory go; nobody calls what is being admitted | the steps of cancellation and removal are apart, with anything between them |

To these come the storage (`ProjectSound`), the queue without duplicates (`Once`), the lanes (`LanesSound`) and the limit
of imports. Every action of an import ends in at most one drain, which may start the work of another: `DrainStep` says
once what that keeps, `EntryStep` that an action which keeps what holds of its own import keeps the invariant, and the
lemma of an action is what remains. `EndsForGood` is an action property over the same invariant; it is stated without
the liveness that `ImportsEnd` adds to it.

**Comparisons.** `ComparisonInv` follows each comparison over its request, its row, its task and its pins (`Sound`), and
the directories its request prepared (`DirectoriesSound`):

| Part | Says | Why it is needed |
|---|---|---|
| `RequestSound` | there is no row before the INSERT and there is one after it; what is held was prepared; the sources are pinned exactly from `create` to the end of the task | pins are given back by the request or by the task, never by both |
| `TaskSound` | a task has a row and its request has ended; it commits only what it wrote | the same sources would be read for two carriers |
| `Counted` | the pins of a source are its holders among the requests and the jobs | an unpinning is sound only if the pin was counted, and a removal if nobody is |
| `DirectoriesSound` | a prepared directory is ready, on its way out (one at a time, and only while its request waits for that) or left | a deletion in progress would let another request pin what goes |
| `QueueSound`, `LanesSound`, `Quiet` | what waits waits once, the lanes are counted, and nothing waits or runs once the jobs were recovered | recovery fails rows that a task could still finish |

`PinsStep` says once how the count changes with the pins of one comparison, `CallStep` and `PlainStep` what is left to show
for a step of a request. The theorems state the parts of `ComparisonsAreSound` and `HistoryIsKept`; `JobsProofs` states the
bundles as the run `Jobs` checks them. `JobEnds` stays with TLC.

**Access.** `AccessInv` follows a request, and the worker, over its checks. `Remembered` says that the history `could`
holds what its user can do now, as long as it is at it; `Checked` says, place by place, which rights a process has behind
it: a request that comes to `act` with the route `execute` has found access and the org's grant, the worker that took the
job its role as well. `DoneWhileEntitled` is about the last place only and is not inductive. What others do meanwhile is
`DataKept`: a step may take away rights, never a policy, and grants are audited as they are made. `told = grant`, and that
the lists show what can be opened, are parts of it.

**Git connections.** `GitInv` rests on versions: `ReadOf` and `AccountOf` say that what a registration or a use has read of
a row is what the row says while its version is the one read, so that a refusal, a save or a list whose version still
matches is about the token there is (`RowsKept`: no step writes a row under the same version). `RowHolds` ties a row that
asks for a token to its last token, refused or expired; `LeaveHolds` follows a disconnection: when it waits for the imports,
each that runs Git is aborted, when it is answered, none runs.

**Network policy.** Two statements of a change are two entries of the executor's line, so that the addresses one reads may
be old when it replaces the policy. `StaleIsRefreshed` says that behind whoever is about to store an old list, and while
the policy differs from the rows though no refresh of it has failed (`~stale`), somebody waits who reads or has read the
present one; `RemovalHolds` that nobody between a removal and its answer without an error can bring the address back. Both need `OnePerCall`: the line is a sequence of different calls,
each at its statement.

**Home directory.** `HomeInv` has the holder of the lock (`StageHolds`: who is at a stage that holds it is the one in the
file), what a new installation has made (`MakingHolds`), what a setup has read and replaced (`ReplacingHolds`), and
`TokenHolds`: a configuration that tells of a token has it in the secrets, unless it is being made, or its maker was killed,
in which case the lock that stays keeps everybody out. A load reads the files after it has given back the lock; `LoadHolds`
says why that is safe: nobody who holds the lock meanwhile may remove its secrets or its token (`MayRemove`).

**Servers.** `UiInv` gives for every place of a start and an end what there is of port, socket and record (`ServerHolds`),
and that whoever a stop takes for gone has ended for good (`StopHolds` over `Over`): a record is removed by its own server
or for one that is over. The record of a server that ended by itself is gone or in `kept`, its removal having failed.

`NothingStaleIsEverDone` is about steps: seven action properties of these components, each from the invariant of the state
before the step (`HandedAndShown`, `OnlySaved`, `BothOrNeitherStep`, `NoLostUpdateStep`, `TokenStaysStep`, `OnlyWanted`).
Two of the properties were too weak or too strong before they were proved, and are stated as proved since:
`BothOrNeither` allowed a failed setup to leave a file it had made, which the rollback never does; `RemovedIsRefused` said
of an address what is true of a removal: it stays refused until the address is added again by a call that came later.

**Services.** `ServicesInv` has an invariant for each of the six components of `MCServices`; a step of one leaves the
variables of the others alone, so each is shown inductive for itself (`ConnectionInvNext` to `PasswordInvNext`) and carried
over the steps of the others (`ConnectionInvRests` to `PasswordInvRests`).

| Invariant | Says | Why it is needed |
|---|---|---|
| `ConnectionInv` | a row is the latest issue of its id (`RowsInv`); the credentials in a request's HOME are those issued with its pins, what a request reports as refused was (`PinsFit`, `PlaceFits`), and a command for one org has one connection in its HOME (`SingleFits`) | a rotation or a refusal written back late is about the generation that was pinned, not about the row as it is by then |
| `OrgInv` | `Good`: what is cached, and what a load that may still be joined has found, is no older than any answered change and is current, or a change is under way whose end drops it | a list read before a change may be stored, or joined, after it: the epoch and `dropping` exclude both |
| `FlowInv` | a flow that is completed has one request that completes it, of its session (`CompletionFits`, `OneEach`); until then nothing was sent or stored (`Untouched`); a start within the window is remembered (`StartsRemembered`) | two requests ask to complete one flow, and a session ends between two look-ups; the starts a session may still make are counted from what is remembered |
| `LimitInv` | reserved is exactly what is verified (`ReservedAreRunning`), a failure is remembered at least to the end of its window (`FailuresRemembered`) | the logins of a key that began within a window inject into its failures and reservations that still count (`OpenLeavesRoom`), so an open key has room for one more |
| `AccountInv` | whoever is past the look-up of a request is a user; sessions not revoked were made since their user was last disabled | disabling, the last administrator and the first user are decided in transactions that follow an earlier look-up |
| `PasswordInv` | a digest read, or about to be stored, is of the password it was read or made for (`DigestFits`); the first, old digest is never stored again (`ServerFits`) | a server with another password starts while a login brings the digest up to date |

`LimitInv` and `FlowInv` count: `OneByOne` says that a set which goes into another one by one has no more members.
`NothingLateIsDone` has two action properties. That a request keeps its pins follows from `ConnectionInv`, which leaves
`Pin` nothing to replace; that a late completion stores nothing, from `FlowInv`, which has no late one about to store.

**Stores.** `StoresIInv` has an invariant for each of the three components, carried over the steps of the others.

| Invariant | Says | Why it is needed |
|---|---|---|
| `Lined` (`CacheLines`, `BranchLines`) | who stands under a key stands in one line that ends with the tail of the key; each waits for the one before, and ranks grow along the line | leaving hands the key on to one party: there is exactly one first, and whoever is last alone is first (`LastIsAlone`, where the ranks are needed to exclude a circle) |
| `CacheCore`, `CacheUse` | a user who holds, or evicts, is first under the key; a directory is charged in full until it was measured, and, up to the limit of a repository, never takes more than it is charged; a mark in `active` is that of a holder or of an eviction | an eviction and an acquisition of one directory are two parties in one line |
| `Within` | once they have fitted, and unless two operations failed, the directories together keep within the limit, those still being acquired or given back counted by what is on the disk | charges alone exceed the limit while an acquisition is being refused, so the plain sum is not inductive |
| `BranchCore` | the calls in line of an owner are as many as are admitted for the owner, and so in all | the limits read the counters, not the calls |
| `BranchRows` | who works finds the branch `SYNCING` or gone; what is `SYNCING` is worked on; after `Shut` nobody is left | a removal and a recovery write rows that a call reads after its wait |
| `LooksKept` in `RunIInv` | what the clean-up may delete rests: its job is over and no execution of it is prepared or runs; of the shared directory, all the jobs of an earlier version rest and so does whoever executes one (`SharedRests`); resting is for good (`RestsStay`) | the clean-up looks at the database once and deletes later, with jobs going on between |

The sums are proved about without an operator to pass to an induction theorem: `Sum` is a recursive function on the subsets
of the set, the community modules' `MapThenSumSet` is shown to be it (`CacheSum`, `BranchSum`), and what holds of every sum
(`SumPull`, `SumMonotone`) is shown at a smallest subset for which it would fail (`Smallest`).

Only model-checked: every temporal property (the prover has neither fairness nor ENABLED); the rules of
`MetadataComparison` and `DeploymentRules`, which compute over sequences and sets of any size, where a proof needs an
induction over what the algorithms read, as long as their input; and the bundles of the page, `WorkIsKept` and
`ShownIsCurrent`.

## 6. Disagreements between the code and its documents

1. `FailedAfterSuccess` (a run and a finding): a failing read after Salesforce's success marks the job `FAILED`, where
   `docs/web-ui.md:316` promises that the result is kept and reconciliation attempted.
2. A job interrupted before its attempt was written becomes `RECONCILE_REQUIRED`, and neither reconciliation nor binding
   accepts it; `docs/web-ui.md:337` says that the check of Salesforce resolves it.
3. The uniqueness of a remote id is checked by the binding only; an owner that records its id later ends with the same id
   as the job it was bound to by mistake (excluded from the theorems by `AdminMistakes = FALSE`).
4. The lease ends with the task, not with the execution in Salesforce (`deploy/deployment-coordinator.ts:132`): a task
   that gives up waiting makes room for a second execution, where `docs/web-ui.md:125` promises one in all. `Exclusive`
   is about tasks.
5. A starting process recovers the jobs of a living one too, and may fail as never started a job that was queued when it
   was listed and has been submitted meanwhile (`deploy/deployment-job-repository.ts:758`). `DeploymentJobs` has one
   process, where this cannot happen.
6. A clean-up that fails after a failed import leaves its entry for the life of the process
   (`git/git-import-service.ts:277`); `docs/git-integration.md:149` promises ten minutes.
7. Bytes that are no text, in a file of a text type, are decoded leniently up to 1 MiB, so that two such files may count
   as identical; above, strict decoding fails and they are compared as bytes. `FileSizeIsNoMatter` is about text.

8. Of a package that is told by its namespace, a member whose full name has several parts, and whose type has neither
   parents nor folders (a quick action of an object, say), is not left out (`metadata/package-exclusion.ts:118`, as
   `test/package-exclusion.test.ts` has it), where `docs/cli-usage.md:91` promises the components of the package. The
   exact keys of a package that was loaded leave them out. `ExclusionIsExact` says so (`NameTells`).

Of these only the first is a run: the others are noted as hazards, or here, with the way the model reaches them.

## 7. Not modelled

- The database: a transaction is one atomic step, as the executor and SQLite give it; migrations run before all else.
- Reports, contracts, core helpers, scripts and end-to-end tests: formatting, types and stateless functions.
- Parsing and rendering in the web server, the command line and the page; password hashing; the protocols of Git,
  Salesforce and the providers, of which the models keep what the program can see.
- The layout of a difference, the content of payloads, reports and evidence.

`PROJECT.json` says of each component whether it is modelled, partly or not, and what was left out.
