------------------------- MODULE SalesforceEffects --------------------------
(***************************************************************************)
(* What the deployment service promises about its effects on Salesforce,   *)
(* without workers, attempts, retries or crashes: a job launches at most   *)
(* one operation, it is reported confirmed only when that operation has    *)
(* succeeded, refused only when nothing of it is under way, and a report   *)
(* is final.                                                               *)
(***************************************************************************)
CONSTANT Jobs

VARIABLES stage,  \* what the service says of a job
          effect  \* what the job's operation has done to the org

Init ==
  /\ stage = [j \in Jobs |-> "none"]
  /\ effect = [j \in Jobs |-> "none"]

Open(j) ==
  /\ stage[j] = "none"
  /\ stage' = [stage EXCEPT ![j] = "open"]
  /\ UNCHANGED effect

Launch(j) ==
  /\ stage[j] = "open" /\ effect[j] = "none"
  /\ effect' = [effect EXCEPT ![j] = "underway"]
  /\ UNCHANGED stage

Resolve(j) ==
  /\ effect[j] = "underway"
  /\ \E outcome \in {"applied", "rejected"} : effect' = [effect EXCEPT ![j] = outcome]
  /\ UNCHANGED stage

Confirm(j) ==
  /\ stage[j] = "open" /\ effect[j] \in {"none", "applied"}
  /\ stage' = [stage EXCEPT ![j] = "confirmed"]
  /\ UNCHANGED effect

Refuse(j) ==
  /\ stage[j] = "open" /\ effect[j] # "underway"
  /\ stage' = [stage EXCEPT ![j] = "refused"]
  /\ UNCHANGED effect

Next == \E j \in Jobs : Open(j) \/ Launch(j) \/ Resolve(j) \/ Confirm(j) \/ Refuse(j)

Spec == Init /\ [][Next]_<<stage, effect>>
=============================================================================
