------------------------------- MODULE CliProcess -------------------------------
(***************************************************************************)
(* One run of an external command: the Salesforce CLI by runProcess and    *)
(* runJson, Git by runIsolatedGit.  The command may leave helpers behind   *)
(* in its process group, with its output or without.                       *)
(***************************************************************************)
EXTENDS Naturals

CONSTANTS MaxOutput      \* bound: pieces of output; the limit is one less

VARIABLES kind,       \* "sf" or "git"
          child,      \* "new", then "running", "failed" (to start) or "exited"
          helper,     \* of its group: "none", "holding" its output, or "quiet"
          code,       \* the exit code
          output,     \* outputBytes
          wanted,     \* requestedError, failure: why it is to end, or "none"
          forceKill,  \* the timer that sends SIGKILL is set
          big,        \* Git only: the working directory is over the quota
          checking,   \* Git only: a measurement of it is under way
          closed,     \* the child and its output are closed
          outcome

processVars ==
  <<kind, child, helper, code, output, wanted, forceKill, big, checking, closed, outcome>>

Reasons == {"none", "aborted", "timeout", "size", "quota", "spawn"}

ProcessTypeOK ==
  /\ kind \in {"sf", "git"} /\ child \in {"new", "running", "failed", "exited"}
  /\ helper \in {"none", "holding", "quiet"} /\ code \in {0, 1} /\ output \in 0 .. MaxOutput
  /\ wanted \in Reasons /\ {forceKill, big, checking, closed} \subseteq BOOLEAN
  /\ outcome \in {"pending", "success", "failed", "not_started"}

ProcessInit ==
  /\ kind \in {"sf", "git"} /\ child = "new" /\ helper = "none" /\ code = 0 /\ output = 0
  /\ wanted = "none" /\ forceKill = FALSE /\ big = FALSE /\ checking = FALSE
  /\ closed = FALSE /\ outcome = "pending"

System == <<child, helper, code>>      \* what the operating system does
Disk == <<big, checking>>

-----------------------------------------------------------------------------
(* Mutant: the group is sent SIGTERM only.                                 *)
AskedToEnd(reason) == wanted' = (IF wanted = "none" THEN reason ELSE wanted) /\ UNCHANGED forceKill

(* requestTermination, terminate: the first reason counts; the group is    *)
(* sent SIGTERM, which it may ignore, and SIGKILL after a time.            *)
Terminate(reason) ==
  /\ wanted' = IF wanted = "none" /\ outcome = "pending" THEN reason ELSE wanted
  /\ forceKill' = (forceKill \/ (wanted = "none" /\ outcome = "pending" /\ ~closed))

(* Aborted before the start, the command is never run; the executable may  *)
(* not be there: runProcess says so at once, runIsolatedGit when closed.   *)
Start ==
  /\ child = "new" /\ outcome = "pending"
  /\ \/ /\ outcome' = IF kind = "sf" THEN "not_started" ELSE "failed"
        /\ UNCHANGED <<child, wanted>>
     \/ child' = "running" /\ UNCHANGED <<outcome, wanted>>
     \/ /\ child' = "failed"
        /\ outcome' = IF kind = "sf" THEN "not_started" ELSE "pending"
        /\ wanted' = IF kind = "sf" THEN wanted ELSE "spawn"
  /\ UNCHANGED <<kind, helper, code, output, forceKill, Disk, closed>>

(* Mutant: any error of the child means that it did not start.             *)
NothingStarted == outcome' = "not_started"

(* Node reports a signal it could not deliver as an error of the child.    *)
Misreported == outcome' = "failed"
LateError ==
  /\ kind = "sf" /\ child # "new" /\ outcome = "pending" /\ wanted # "none"
  /\ Misreported /\ forceKill' = FALSE
  /\ UNCHANGED <<kind, System, output, wanted, Disk, closed>>

Abort ==
  /\ child # "new" /\ outcome = "pending" /\ ~closed /\ Terminate("aborted")
  /\ UNCHANGED <<kind, System, output, Disk, closed, outcome>>

TimeOut ==
  /\ child # "new" /\ outcome = "pending" /\ ~closed /\ Terminate("timeout")
  /\ UNCHANGED <<kind, System, output, Disk, closed, outcome>>

(* Output beyond the limit ends the command.                               *)
Output ==
  /\ child = "running" \/ helper = "holding"
  /\ ~closed /\ output < MaxOutput /\ output' = output + 1
  /\ IF output' = MaxOutput THEN Terminate("size") ELSE UNCHANGED <<wanted, forceKill>>
  /\ UNCHANGED <<kind, System, Disk, closed, outcome>>

-----------------------------------------------------------------------------
(* The command forks, ends, with or without being told to; so does what it *)
(* has forked; its files grow.                                             *)
Fork ==
  /\ child = "running" /\ helper = "none" /\ helper' \in {"holding", "quiet"}
  /\ UNCHANGED <<kind, child, code, output, wanted, forceKill, Disk, closed, outcome>>
ChildExit ==
  /\ child = "running" /\ child' = "exited"
  /\ \E c \in {0, 1} : code' = c
  /\ UNCHANGED <<kind, helper, output, wanted, forceKill, Disk, closed, outcome>>
HelperExit ==
  /\ helper # "none" /\ helper' = "none"
  /\ UNCHANGED <<kind, child, code, output, wanted, forceKill, Disk, closed, outcome>>
Grow ==
  /\ kind = "git" /\ child = "running" /\ ~big /\ big' = TRUE
  /\ UNCHANGED <<kind, System, output, wanted, forceKill, checking, closed, outcome>>

(* killProcessTree, kill: nobody in the group ignores SIGKILL.             *)
GroupKilled ==
  /\ child' = IF child = "running" THEN "exited" ELSE child
  /\ code' = IF child = "running" THEN 1 ELSE code
  /\ helper' = "none"
ForceKill ==
  /\ forceKill /\ ~closed /\ outcome = "pending" /\ forceKill' = FALSE /\ GroupKilled
  /\ UNCHANGED <<kind, output, wanted, Disk, closed, outcome>>

-----------------------------------------------------------------------------
(* Mutants: an exit code of 0 is a success; Git's group is left alone.     *)
CodeDecides == IF code = 0 THEN "success" ELSE "failed"
GroupLeft == UNCHANGED System

(* The outcome runProcess and runJson give: a command that was to end has  *)
(* failed, whatever it returned; a result must also say so itself.         *)
Verdict == IF wanted # "none" \/ code # 0 THEN "failed" ELSE "success"
Swept == IF wanted # "none" THEN GroupKilled ELSE UNCHANGED System

Close ==
  /\ child \in {"failed", "exited"} /\ helper # "holding" /\ ~closed /\ outcome = "pending"
  /\ closed' = TRUE /\ forceKill' = FALSE
  /\ \/ /\ kind = "sf" /\ outcome' \in {Verdict, "failed"} /\ UNCHANGED System
     \/ /\ kind = "git" /\ Swept /\ UNCHANGED outcome
  /\ UNCHANGED <<kind, output, wanted, Disk>>

(* The monitor measures the directory while Git runs; the last measurement *)
(* follows the end.                                                        *)
Measure ==
  /\ kind = "git" /\ child # "new" /\ ~checking /\ ~closed /\ checking' = TRUE
  /\ UNCHANGED <<kind, System, output, wanted, forceKill, big, closed, outcome>>
Measured ==
  /\ checking /\ checking' = FALSE
  /\ IF big THEN Terminate("quota") ELSE UNCHANGED <<wanted, forceKill>>
  /\ UNCHANGED <<kind, System, output, big, closed, outcome>>

MeasuredVerdict == IF big THEN "failed" ELSE Verdict
Settle ==
  /\ kind = "git" /\ closed /\ ~checking /\ outcome = "pending" /\ outcome' = MeasuredVerdict
  /\ UNCHANGED <<kind, System, output, wanted, forceKill, Disk, closed>>

Ending == ForceKill \/ Close \/ Measured \/ Settle
ProcessNext ==
  \/ Start \/ LateError \/ Abort \/ TimeOut \/ Output
  \/ Fork \/ ChildExit \/ HelperExit \/ Grow \/ Measure \/ Ending

-----------------------------------------------------------------------------
(* A command said not to have been started was never run: what a           *)
(* deployment that could not be sent is told apart by.                     *)
NotStartedIsTrue == outcome = "not_started" => child \in {"new", "failed"}

(* A success is of a command nobody ended, with all of its output and,     *)
(* with Git, a working directory within the quota.                         *)
SuccessIsWhole ==
  outcome = "success" =>
    child = "exited" /\ code = 0 /\ wanted = "none" /\ output < MaxOutput /\ ~big

(* When a Git command that was cancelled, took too long or said too much   *)
(* has failed, nothing of its group runs on in the directory that is       *)
(* removed next.  (One found over the quota after its end, and the         *)
(* Salesforce CLI, may leave a helper that is quiet.)                      *)
GroupIsGone ==
  kind = "git" /\ outcome = "failed" /\ wanted \in {"aborted", "timeout", "size"} =>
    child # "running" /\ helper = "none"

(* A command that is to end does.                                          *)
EndedSettles == (wanted # "none") ~> (outcome # "pending")
=============================================================================
