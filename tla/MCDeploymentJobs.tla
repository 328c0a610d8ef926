-------------------------- MODULE MCDeploymentJobs --------------------------
(***************************************************************************)
(* Small instances of DeploymentJobs for TLC.                              *)
(***************************************************************************)
EXTENDS DeploymentJobs, TLC

CONSTANTS dry, dep1, dep2, r1, r2, r3, u1, u2

Single == job[dep2].status = "ABSENT"
Unused(rs) == \A r \in rs : remote[r].state = "absent"
AtRest(as) == \A a \in as : rec[a].pc = "idle"
Versions(n) == \A j \in Jobs : attempt[j].version <= n

(* One run looks at two instances at once.  In one, deployments come from  *)
(* approvals only: a second deployment id is left to a second approval,    *)
(* which is where an extra deployment would show.  In the other there is   *)
(* one deployment and one id, but two actors and longer polling.           *)
ApprovedOnly ==
  /\ \A j \in Deploys : job[j].status # "ABSENT" => job[j].dryRun # None
  /\ AtRest({u1, u2}) /\ Versions(2)
TwoActors == Single /\ Unused({r2, r3})
TwoInstances == ApprovedOnly \/ TwoActors

(* The actors differ in nothing.                                           *)
ActorSymmetry == Permutations(Actors)
=============================================================================
