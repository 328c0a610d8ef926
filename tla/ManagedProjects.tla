--------------------------- MODULE ManagedProjects --------------------------
(***************************************************************************)
(* The storage of prepared projects: a directory is begun, completed,      *)
(* pinned by the jobs that read it, and discarded by hand or when its time *)
(* to live is over. The actions are those of the storage alone; a module   *)
(* that uses it extends this one and takes them as parts of its own.       *)
(***************************************************************************)
EXTENDS Naturals, FiniteSets

CONSTANT Projects   \* directory ids

VARIABLES project,  \* per id: where its directory is in its life, how many
                    \* pins it has, whether its timer is set
          storage   \* "open" or "closed"

storageVars == <<project, storage>>

Directory == {"none", "pending", "ready", "deleting", "undeleted", "gone"}

StorageTypeOK ==
  /\ project \in [Projects -> [state : Directory, pins : Nat, timer : BOOLEAN]]
  /\ storage \in {"open", "closed"}

StorageInit ==
  /\ project = [i \in Projects |-> [state |-> "none", pins |-> 0, timer |-> FALSE]]
  /\ storage = "open"

(* requirePending: what is being deleted is not pending any more.          *)
Pending(i) == storage = "open" /\ project[i].state = "pending"

BeginProject(i) ==
  /\ project[i].state = "none" /\ storage = "open"
  /\ project' = [project EXCEPT ![i].state = "pending"]

CompleteProject(i) ==
  /\ Pending(i)
  /\ project' = [project EXCEPT ![i].state = "ready", ![i].timer = TRUE]

(* Mutant: a pinned project is deleted all the same.                       *)
DiscardableAny(i) == project[i].state \in {"pending", "ready", "undeleted"}

(* discard refuses a project in use; one whose deletion is under way is    *)
(* shared with the caller. The directory stays charged until it is gone.   *)
Discardable(i) == project[i].state \in {"pending", "ready", "undeleted"} /\ project[i].pins = 0

Discarded(i) == [project EXCEPT ![i].state = "deleting", ![i].timer = FALSE]

DeletionEnds(i, ok) ==
  /\ project[i].state = "deleting"
  /\ project' = [project EXCEPT ![i].state = IF ok THEN "gone" ELSE "undeleted"]

(* pin stops the timer, the last release starts it anew.                   *)
PinProject(i) ==
  /\ project[i].state = "ready"
  /\ project' = [project EXCEPT ![i].pins = @ + 1, ![i].timer = FALSE]

(* Mutants: the last release leaves the timer off; a release counts twice. *)
UnpinForgotten(i) == project' = [project EXCEPT ![i].pins = @ - 1]

UnpinTwice(i) == project' = [project EXCEPT ![i].pins = @ - 2]

UnpinProject(i) ==
  project' = [project EXCEPT ![i].pins = @ - 1,
                             ![i].timer = @ \/ (project[i].pins = 1 /\ project[i].state = "ready")]

(* expire and the timer callback                                           *)
ExpireProject(i) ==
  /\ project[i].timer /\ Discardable(i)
  /\ project' = Discarded(i)

CloseStorage ==
  /\ \A i \in Projects : project[i].pins = 0
  /\ storage' = "closed"
  /\ project' = [i \in Projects |-> [state |-> IF project[i].state = "none" THEN "none" ELSE "gone",
                                     pins |-> 0, timer |-> FALSE]]

-----------------------------------------------------------------------------
(* The files of a project somebody has pinned are there, whoever discards  *)
(* it, lets it expire or closes the storage.                               *)
PinnedIsReady == \A i \in Projects : project[i].pins > 0 => project[i].state = "ready"

(* A finished project nobody has pinned is on its way out: its timer runs. *)
ReadyEndsByItself ==
  \A i \in Projects : project[i].state = "ready" => project[i].pins > 0 \/ project[i].timer
=============================================================================
