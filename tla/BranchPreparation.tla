--------------------------- MODULE BranchPreparation ---------------------------
(***************************************************************************)
(* A branch of a connected repository as one side of a comparison: the     *)
(* comparison asks for it to be imported and waits, while the user may     *)
(* turn to another branch, another type or another target.                 *)
(***************************************************************************)
EXTENDS Naturals

CONSTANTS Branches, Types, None,
          MaxChanges, MaxPreparations   \* bounds

VARIABLES branch, type,   \* selectedBranch, metadataType
          changes,
          version,        \* version.current
          preparing,      \* the flag that holds the input and a second preparation
          imported,       \* the preparation whose import is shown
          selecting,      \* selectingProject
          choosing,       \* the versions a choice of a project is on its way for
          preparation     \* per number: a call of prepare

branchVars == <<branch, type, changes, version, preparing, imported, selecting, choosing, preparation>>

Preparations == 1 .. MaxPreparations
NoPreparation == [step |-> "none", version |-> 0, branch |-> None, type |-> None,
                  aborted |-> FALSE, root |-> FALSE]
Running == {"resolve", "create", "wait"}

BranchTypeOK ==
  /\ branch \in Branches /\ type \in Types /\ changes \in 0 .. MaxChanges
  /\ version \in Nat /\ preparing \in BOOLEAN
  /\ imported \in Preparations \cup {None} /\ selecting \in BOOLEAN /\ choosing \subseteq Nat
  /\ preparation \in [Preparations ->
       [step : Running \cup {"none", "used", "over"}, version : Nat, branch : Branches \cup {None},
        type : Types \cup {None}, aborted : BOOLEAN, root : BOOLEAN]]

BranchInit ==
  /\ branch \in Branches /\ type \in Types /\ changes = 0 /\ version = 0 /\ preparing = FALSE
  /\ imported = None /\ selecting = FALSE /\ choosing = {}
  /\ preparation = [p \in Preparations |-> NoPreparation]

-----------------------------------------------------------------------------
AbortAll ==
  [p \in Preparations |-> IF preparation[p].step \in Running
                          THEN [preparation[p] EXCEPT !.aborted = TRUE] ELSE preparation[p]]

(* Another branch: only while none is being prepared.                      *)
ChangeBranch ==
  /\ ~preparing /\ changes < MaxChanges /\ changes' = changes + 1
  /\ \E b \in Branches \ {branch} : branch' = b
  /\ version' = version + 1 /\ imported' = None
  /\ UNCHANGED <<type, preparing, selecting, choosing, preparation>>

(* Mutant: a new type does not put an end to what was begun.               *)
KeepsVersion == UNCHANGED version

NewVersion == version' = version + 1

(* Another type, at any time: nothing begun for the last one counts.       *)
ChangeType ==
  /\ changes < MaxChanges /\ changes' = changes + 1
  /\ \E t \in Types \ {type} : type' = t
  /\ NewVersion /\ imported' = None /\ preparing' = FALSE /\ selecting' = FALSE
  /\ UNCHANGED <<branch, choosing, preparation>>

(* The page gives the comparison up, for whatever has changed.             *)
Abort ==
  /\ preparation' = AbortAll /\ preparation' # preparation
  /\ UNCHANGED <<branch, type, changes, version, preparing, imported, selecting, choosing>>

Prepare(p) ==
  /\ ~preparing /\ preparation[p] = NoPreparation
  /\ \A q \in 1 .. p - 1 : preparation[q] # NoPreparation
  /\ version' = version + 1 /\ preparing' = TRUE /\ imported' = None
  /\ preparation' = [preparation EXCEPT ![p] =
       [NoPreparation EXCEPT !.step = "resolve", !.version = version', !.branch = branch, !.type = type]]
  /\ UNCHANGED <<branch, type, changes, selecting, choosing>>

-----------------------------------------------------------------------------
Current(p) == preparation[p].version = version
Move(p, to) == preparation' = [preparation EXCEPT ![p].step = to]

(* Mutant: whoever ends, the page waits no longer.                         *)
AlwaysEnds(p, to) ==
  Move(p, to) /\ preparing' = FALSE /\ UNCHANGED imported

(* finally: only the call of the current version frees the page.           *)
Ends(p, to) ==
  /\ Move(p, to)
  /\ IF Current(p)
     THEN preparing' = FALSE /\ imported' = IF preparation[p].aborted THEN None ELSE imported
     ELSE UNCHANGED <<preparing, imported>>

(* assertCurrent, after every wait.                                        *)
Goes(p) == ~preparation[p].aborted /\ Current(p)

Step(p) ==
  /\ preparation[p].step \in Running
  /\ \/ ~Goes(p) /\ Ends(p, "over")
     \/ Goes(p) /\ preparation[p].step = "resolve" /\ Move(p, "create") /\ UNCHANGED <<preparing, imported>>
     \/ Goes(p) /\ preparation[p].step \in {"create", "wait"}
        /\ Move(p, "wait") /\ imported' = p /\ UNCHANGED preparing
     \/ Goes(p) /\ preparation[p].step = "wait" /\ preparation[p].root /\ Ends(p, "used")
     \/ Ends(p, "over")    \* refused, not to be had, or ten minutes over
  /\ UNCHANGED <<branch, type, changes, version, selecting, choosing>>

(* chooseProject: the import shown asks for one of its projects; once      *)
(* another version is current the flag is not for this choice to lower.    *)
Choose ==
  /\ imported # None /\ preparation[imported].step = "wait" /\ ~preparation[imported].root
  /\ ~selecting /\ selecting' = TRUE /\ choosing' = choosing \cup {version}
  /\ UNCHANGED <<branch, type, changes, version, preparing, imported, preparation>>

Chosen(v) ==
  /\ v \in choosing /\ choosing' = choosing \ {v}
  /\ selecting' = (selecting /\ v # version)
  /\ \/ preparation' = [p \in Preparations |-> IF preparation[p].version = v /\ preparation[p].step = "wait"
                                                THEN [preparation[p] EXCEPT !.root = TRUE] ELSE preparation[p]]
     \/ UNCHANGED preparation
  /\ UNCHANGED <<branch, type, changes, version, preparing, imported>>

BranchNext ==
  \/ ChangeBranch \/ ChangeType \/ Abort \/ Choose
  \/ \E v \in choosing : Chosen(v)
  \/ \E p \in Preparations : Prepare(p) \/ Step(p)

-----------------------------------------------------------------------------
(* The import shown, which asks for a project, is of the branch and the    *)
(* type selected now.                                                      *)
ImportedIsSelected ==
  imported # None => preparation[imported].branch = branch /\ preparation[imported].type = type

(* The input is held exactly while a preparation runs that still counts.   *)
HeldWhilePreparing ==
  preparing <=> \E p \in Preparations : preparation[p].step \in Running /\ Current(p)
=============================================================================
