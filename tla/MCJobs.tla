------------------------------- MODULE MCJobs -------------------------------
(***************************************************************************)
(* The queue by itself, the comparisons, whose tasks it runs, a single run *)
(* of the command line, and an external command: a behaviour is one of one *)
(* of them, `work`, while the others rest.                                 *)
(***************************************************************************)
EXTENDS JobQueue

CONSTANTS Compared,             \* the comparisons ...
          SourcesOf(_),         \* ... the managed projects each reads ...
          Sources, Registered,  \* ... all of them, those it imports itself
          CompareLanes, ComparePlaces,
          MaxFaults, MaxRestarts, MaxVersion, MaxOutput,
          nothing

VARIABLES work,
          project, storage, req, row, artifact, task, pinned, waiting, phase, aborting, bounds,
          options, at, side, payload, digest, compared, sent, answer, covered, workspace, result,
          kind, child, helper, code, output, wanted, forceKill, big, checking, closed, outcome

Compare == INSTANCE Comparisons
  WITH Comparisons <- Compared, Projects <- Sources, Uses <- SourcesOf,
       Concurrency <- CompareLanes, MaximumQueued <- ComparePlaces

ASSUME ComparisonsAssumed == Compare!ComparisonsAssumption

(* What is nothing is no version; versions and outputs are counted.        *)
ASSUME VersionsAssumption == MaxVersion \in Nat /\ MaxOutput \in Nat \ {0} /\ nothing \notin 0 .. MaxVersion

Command == INSTANCE CommandExecution WITH Nothing <- nothing

Process == INSTANCE CliProcess

compareVars == <<project, storage, req, row, artifact, task, pinned, waiting, phase, aborting, bounds>>
commandVars == <<options, at, side, payload, digest, compared, sent, answer, covered, workspace, result>>
processVars == <<kind, child, helper, code, output, wanted, forceKill, big, checking, closed, outcome>>
allVars == <<work, vars, compareVars, commandVars, processVars>>

(* The inputs of the command vary only when it is the one looked at.       *)
MCInit ==
  /\ work \in {"queue", "comparisons", "command", "process"}
  /\ Init /\ Compare!Init /\ Command!CommandInit /\ Process!ProcessInit
  /\ work # "process" => kind = "sf"
  /\ work # "command" =>
       options = [kind |-> "compare", excluded |-> {}, generated |-> FALSE, own |-> TRUE]

Of(w) == work = w /\ UNCHANGED work
QueueStep(Act)   == Of("queue") /\ Act /\ UNCHANGED <<compareVars, commandVars, processVars>>
CompareStep(Act) == Of("comparisons") /\ Act /\ UNCHANGED <<vars, commandVars, processVars>>
CommandStep(Act) == Of("command") /\ Act /\ UNCHANGED <<vars, compareVars, processVars>>
ProcessStep(Act) == Of("process") /\ Act /\ UNCHANGED <<vars, compareVars, commandVars>>

MCNext ==
  \/ QueueStep(Next) \/ CompareStep(Compare!Next) \/ CommandStep(Command!CommandNext)
  \/ ProcessStep(Process!ProcessNext)

(* The fairness of each, while it is the one looked at.                    *)
MCSpec ==
  /\ MCInit /\ [][MCNext]_allVars
  /\ WF_allVars(QueueStep(Microtask))
  /\ \A id \in Ids : WF_allVars(QueueStep(TaskEnds(id)))
  /\ \A c \in Compared : /\ WF_allVars(CompareStep(Compare!Request(c)))
                         /\ WF_allVars(CompareStep(Compare!Execute(c)))
  /\ WF_allVars(CommandStep(Command!Proceed))
  /\ WF_allVars(ProcessStep(Process!ForceKill)) /\ WF_allVars(ProcessStep(Process!Close))
  /\ WF_allVars(ProcessStep(Process!Measured)) /\ WF_allVars(ProcessStep(Process!Settle))

(* A comparison reads files that are there and pinned as often as they are *)
(* held, is carried by a task while it is said to be under way, has its    *)
(* result when it succeeded, and leaves nothing held when it ended; there  *)
(* are no more tasks than lanes.                                           *)
ComparisonsAreSound ==
  /\ Compare!TypeOK /\ Compare!SourcesArePresent /\ Compare!PinsAreHeld
  /\ Compare!NothingIsLeft /\ Compare!JobIsCarried /\ Compare!SuccessHasResult
  /\ Compare!LanesWithinLimit

(* An ended comparison keeps its outcome, and a start leaves none under    *)
(* way.                                                                    *)
HistoryIsKept == Compare!FinalIsFinal /\ Compare!RestartEndsJobs

(* What is submitted is what was compared.                                 *)
SendsWhatWasCompared == Command!SendsWhatWasCompared

(* What a run reports is what happened: it deploys as it was asked to, no  *)
(* retrieval outlives it, a deployment is reported as one, a command said  *)
(* not to have started never ran, a success has all of its output, and no  *)
(* process of the group outlives a command that was ended.                 *)
RunsAreAccounted ==
  /\ Command!CommandTypeOK /\ Process!ProcessTypeOK
  /\ Command!DeployedAsAsked /\ Command!NothingOutlivesTheRun /\ Command!DeployedIsDone
  /\ Process!NotStartedIsTrue /\ Process!SuccessIsWhole /\ Process!GroupIsGone

(* Every waiting job starts, a closed queue empties, and every comparison, *)
(* run of the command line and command that is to end does.                *)
EverythingEnds ==
  /\ WaitingStarts /\ ClosedQueueEmpties /\ Compare!JobEnds
  /\ (work = "command" => Command!RunEnds) /\ Process!EndedSettles

(* The first of the comparisons also imports a registered branch.          *)
CONSTANTS first, imported, branch
MCSourcesOf(c) == IF c = first THEN {imported, branch} ELSE {imported}
=============================================================================
