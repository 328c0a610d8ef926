--------------------------- MODULE CommandExecution ---------------------------
(***************************************************************************)
(* executeComparison and executeDeployment: one run from its options to    *)
(* its outcome.  Both retrieve two snapshots at once and compare them; a   *)
(* deployment then validates and deploys the directory of the source       *)
(* snapshot, which other processes can write to in the meantime.  A digest *)
(* is taken with the snapshot and checked before each submission.          *)
(***************************************************************************)
EXTENDS Naturals, FiniteSets

CONSTANTS MaxVersion,        \* alterations of the payload; none is undone
          Nothing

VARIABLES options,   \* what the run was asked for; never changes
          at,        \* where it is
          side,      \* the two snapshots: target or left, source or right
          payload,   \* what the directory holds now
          digest,    \* what it held when the source snapshot was done
          compared,  \* what the comparison read
          sent,      \* the phases Salesforce was given a payload for
          answer,    \* what it answered, per phase
          covered,   \* the coverage gate was passed
          workspace, result

commandVars == <<options, at, side, payload, digest, compared, sent, answer, covered,
                 workspace, result>>

Phases == {"DRY_RUN", "DEPLOY"}
Sides == {"left", "right"}
Deploying == options.kind = "deploy"

Comparisons == [kind : {"compare"}, excluded : SUBSET {"all", "some"}, generated : BOOLEAN, own : {TRUE}]
Deployments == [kind : {"deploy"}, dryRun : BOOLEAN, execute : BOOLEAN, skipDryRun : BOOLEAN,
                minimum : BOOLEAN, generated : BOOLEAN, empty : BOOLEAN, own : BOOLEAN]

(* validateDeployOptions; only one way of leaving out packages.  Only a    *)
(* generated manifest tells that there is nothing to deploy.               *)
Valid(o) ==
  IF o.kind = "compare" THEN o.excluded # {"all", "some"}
  ELSE /\ ~(o.dryRun /\ o.execute)
       /\ o.skipDryRun => o.execute /\ ~o.minimum
       /\ o.empty => o.generated

Working == \E s \in Sides : side[s] = "working"
Before == [DRY_RUN |-> "before dry run", DEPLOY |-> "before deploy"]
Sent == [DRY_RUN |-> "dry run", DEPLOY |-> "deploy"]
Inner == {"packages", "context", "manifest", "compare", "report", "first check", "coverage", "last check"}
         \cup {Before[p] : p \in Phases}

CommandTypeOK ==
  /\ options \in Comparisons \cup Deployments
  /\ at \in Inner \cup {"start", "snapshots", "cleanup", "out"} \cup {Sent[p] : p \in Phases}
  /\ side \in [Sides -> {"idle", "working", "done", "failed"}]
  /\ payload \in 0 .. MaxVersion
  /\ {digest, compared} \subseteq 0 .. MaxVersion \cup {Nothing}
  /\ sent \subseteq Phases
  /\ answer \in [Phases -> {"none", "ok", "failed"}]
  /\ covered \in BOOLEAN
  /\ workspace \in {"none", "made", "removed", "left"}
  /\ result \in {"none", "done", "failed"}

CommandInit ==
  /\ options \in Comparisons \cup Deployments
  /\ at = "start" /\ side = [s \in Sides |-> "idle"]
  /\ payload = 0 /\ digest = Nothing /\ compared = Nothing
  /\ sent = {} /\ answer = [p \in Phases |-> "none"] /\ covered = FALSE
  /\ workspace = "none" /\ result = "none"

Keep(what) == UNCHANGED what
Payload == <<payload, digest, compared>>
Exchanged == <<sent, answer, covered>>
Ended(how) == result' = how /\ at' = "cleanup"

(* Anything awaited may fail, also by the signal of a cancellation.        *)
Fail ==
  /\ at \in Inner /\ Ended("failed")
  /\ Keep(<<options, side, Payload, Exchanged, workspace>>)

(* Options are checked before anything is made; withRequestWorkspace.      *)
Start ==
  /\ at = "start"
  /\ \/ /\ Valid(options) /\ UNCHANGED result
        /\ workspace' = IF options.own THEN "made" ELSE workspace
        /\ at' = IF Deploying \/ options.excluded = {} THEN "context" ELSE "packages"
     \/ /\ ~Valid(options) \/ options.own             \* refused, or no directory
        /\ at' = "out" /\ result' = "failed" /\ UNCHANGED workspace
  /\ Keep(<<options, side, Payload, Exchanged>>)

(* resolvePackageExclusion, createRunContext, generateDeployableManifest.  *)
Prepare ==
  /\ \/ at = "packages" /\ at' = "context" /\ UNCHANGED side
     \/ at = "context" /\ options.generated /\ at' = "manifest" /\ UNCHANGED side
     \/ /\ at = "manifest" \/ (at = "context" /\ ~options.generated)
        /\ at' = "snapshots" /\ side' = [s \in Sides |-> "working"]
  /\ Keep(<<options, Payload, Exchanged, workspace, result>>)

(* sha256DirectoryV2 takes in every path, length and content.              *)
Digest == payload

(* createSnapshot: retrieved, converted or empty; the digest comes last.   *)
Snapshot(s) ==
  /\ side[s] = "working"
  /\ \/ /\ side' = [side EXCEPT ![s] = "done"]
        /\ digest' = IF s = "right" THEN Digest ELSE digest
     \/ side' = [side EXCEPT ![s] = "failed"] /\ UNCHANGED digest
  /\ Keep(<<options, at, payload, compared, Exchanged, workspace, result>>)

(* Mutant: the first failure ends the run.                                 *)
SettledAtOnce ==
  /\ at = "snapshots" /\ \A s \in Sides : side[s] # "idle"
  /\ IF \E s \in Sides : side[s] = "failed" THEN Ended("failed")
     ELSE ~Working /\ at' = "compare" /\ UNCHANGED result
  /\ Keep(<<options, side, Payload, Exchanged, workspace>>)

(* Mutant: both have to succeed for the run to go on.                      *)
SettledByResults ==
  /\ at = "snapshots" /\ \A s \in Sides : side[s] = "done"
  /\ at' = "compare" /\ UNCHANGED result
  /\ Keep(<<options, side, Payload, Exchanged, workspace>>)

(* settledSnapshots: a failure is reported when both are over.             *)
Settled ==
  /\ at = "snapshots" /\ ~Working
  /\ IF \E s \in Sides : side[s] = "failed" THEN Ended("failed")
     ELSE at' = "compare" /\ UNCHANGED result
  /\ Keep(<<options, side, Payload, Exchanged, workspace>>)

(* compareSnapshots, selectApexTestPlan, writeComparisonReports.           *)
Compare ==
  /\ at = "compare" /\ at' = "report" /\ compared' = payload
  /\ Keep(<<options, side, payload, digest, Exchanged, workspace, result>>)

Report ==
  /\ at = "report"
  /\ IF Deploying THEN at' = "first check" /\ UNCHANGED result ELSE Ended("done")
  /\ Keep(<<options, side, Payload, Exchanged, workspace>>)

(* assertPayloadUnchanged hashes the directory again.                      *)
Unchanged == Digest = digest

Skipped(p) == answer' = [answer EXCEPT ![p] = "ok"] /\ UNCHANGED <<sent, covered>>

FirstCheck ==
  /\ at = "first check" /\ Unchanged
  /\ \/ options.skipDryRun /\ at' = "coverage" /\ Keep(Exchanged)
     \/ ~options.skipDryRun /\ options.empty /\ at' = "coverage" /\ Skipped("DRY_RUN")
     \/ ~options.skipDryRun /\ ~options.empty /\ at' = Before["DRY_RUN"] /\ Keep(Exchanged)
  /\ Keep(<<options, side, Payload, workspace, result>>)

(* beforeDeploymentSubmit is awaited before sf starts to read the payload. *)
Submit(p) ==
  /\ at = Before[p] /\ at' = Sent[p]
  /\ sent' = sent \cup {p}
  /\ Keep(<<options, side, Payload, answer, covered, workspace, result>>)

(* Mutant: what was deployed counts as failed when its file cannot be      *)
(* written.                                                                *)
AnsweredStrictly(p) ==
  /\ at = Sent[p]
  /\ \/ /\ answer' = [answer EXCEPT ![p] = "ok"]
        /\ IF p = "DRY_RUN" THEN at' = "coverage" /\ UNCHANGED result
           ELSE Ended("done") \/ Ended("failed")
     \/ answer' = [answer EXCEPT ![p] = "failed"] /\ Ended("failed")
  /\ Keep(<<options, side, Payload, sent, covered, workspace>>)

(* runDeploymentRequest ends, and its result is written to a file; when    *)
(* that fails it is a warning.                                             *)
Answered(p) ==
  /\ at = Sent[p]
  /\ \/ /\ answer' = [answer EXCEPT ![p] = "ok"]
        /\ IF p = "DRY_RUN" THEN at' = "coverage" /\ UNCHANGED result ELSE Ended("done")
     \/ answer' = [answer EXCEPT ![p] = "failed"] /\ Ended("failed")
  /\ Keep(<<options, side, Payload, sent, covered, workspace>>)

(* Mutant: a deployment that was validated is not held up by its coverage. *)
CoverageIgnored ==
  /\ at = "coverage" /\ UNCHANGED covered
  /\ IF options.execute THEN at' = "last check" /\ UNCHANGED result ELSE Ended("done")
  /\ Keep(<<options, side, Payload, sent, answer, workspace>>)

(* Failing it is one of the failures.                                      *)
Coverage ==
  /\ at = "coverage" /\ covered' = options.minimum
  /\ IF options.execute THEN at' = "last check" /\ UNCHANGED result ELSE Ended("done")
  /\ Keep(<<options, side, Payload, sent, answer, workspace>>)

(* Mutant: the payload was checked before, that will do.                   *)
NoLastCheck ==
  /\ at = "last check"
  /\ IF options.empty THEN Skipped("DEPLOY") /\ Ended("done")
     ELSE at' = Before["DEPLOY"] /\ Keep(<<Exchanged, result>>)
  /\ Keep(<<options, side, Payload, workspace>>)

LastCheck ==
  /\ at = "last check" /\ Unchanged
  /\ IF options.empty THEN Skipped("DEPLOY") /\ Ended("done")
     ELSE at' = Before["DEPLOY"] /\ Keep(<<Exchanged, result>>)
  /\ Keep(<<options, side, Payload, workspace>>)

(* The finally of withRequestWorkspace; failing to clean up changes        *)
(* nothing about the outcome.                                              *)
Cleanup ==
  /\ at = "cleanup" /\ at' = "out"
  /\ workspace' \in IF options.own THEN {"removed", "left"} ELSE {workspace}
  /\ Keep(<<options, side, Payload, Exchanged, result>>)

(* Another process writes to the directory.                                *)
Alter ==
  /\ at \in Inner \cup {"snapshots"} /\ payload < MaxVersion
  /\ payload' = payload + 1
  /\ Keep(<<options, at, side, digest, compared, Exchanged, workspace, result>>)

Proceed ==
  \/ Start \/ Prepare \/ Settled \/ Compare \/ Report \/ FirstCheck \/ Coverage \/ LastCheck
  \/ Cleanup \/ Fail
  \/ \E s \in Sides : Snapshot(s)
  \/ \E p \in Phases : Submit(p) \/ Answered(p)

CommandNext == Proceed \/ Alter

-----------------------------------------------------------------------------
(* assertPayloadUnchanged: what is validated and what is deployed is what  *)
(* was compared; only in the moment between the check and the reading of   *)
(* the directory by sf can an alteration still slip in.                    *)
SendsWhatWasCompared ==
  [][\A p \in Phases : at # Before[p] /\ at' = Before[p] => payload' = compared']_commandVars

(* A deployment is submitted only when it was asked for, validated unless  *)
(* the validation was to be skipped, and covered if a minimum was set.     *)
DeployedAsAsked ==
  "DEPLOY" \in sent =>
    /\ options.execute /\ ~options.dryRun
    /\ options.skipDryRun \/ answer["DRY_RUN"] = "ok"
    /\ options.minimum => covered

(* When a run has an outcome nothing of it goes on in its directories.     *)
NothingOutlivesTheRun == at \in {"cleanup", "out"} => ~Working

(* What was deployed is reported as deployed.                              *)
DeployedIsDone == answer["DEPLOY"] = "ok" => result # "failed"

(* Every run ends: commands have timeouts.                                 *)
RunEnds == <>(at = "out")
=============================================================================
