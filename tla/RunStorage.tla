----------------------------- MODULE RunStorage -----------------------------
(***************************************************************************)
(* RuntimeRunStorage and prepareRunStorage: the periodic clean-up of run   *)
(* directories, which the admission of a dry run joins. It lists the       *)
(* directories, asks the database which jobs need theirs, protects what    *)
(* the database does not know, and deletes what is too old and then the    *)
(* oldest until the rest fits. Jobs go on while it does. One directory is  *)
(* shared: an earlier version wrote the selected manifests of its jobs     *)
(* there.                                                                  *)
(***************************************************************************)
EXTENDS Naturals, FiniteSets, FiniteSetsExt

CONSTANTS Runs,        \* run directories, named like the job they belong to
          Untracked,   \* those of a command line run, which has no row
          Execution,   \* the dry run an execution refers to, by execution
          Shared,      \* the directory of the selected manifests of an earlier version
          MaxBytes     \* quota, every directory taking one unit

VARIABLES earlier,     \* the runs of an earlier version with a selected manifest
          job,         \* per run: its job
          directory,   \* the directories that are there
          aged,        \* those older than the retention
          cleaner,     \* the clean-up under way
          admission    \* of a new run

runVars == <<earlier, job, directory, aged, cleaner, admission>>

Jobs == {"none", "prepared", "active", "approvable", "expired", "approved", "final", "cli"}
Steps == {"idle", "before", "scan", "query", "protect", "retention", "quota"}
Answers == {"accepted", "refused", "failed"}
Directories == Runs \cup {Shared}
IdleCleaner == [pc |-> "idle", candidates |-> {}, known |-> {}, protected |-> {}, joined |-> FALSE]

RunTypeOK ==
  /\ earlier \subseteq Runs /\ job \in [Runs -> Jobs]
  /\ directory \subseteq Directories /\ aged \subseteq Directories
  /\ cleaner \in [pc : Steps, candidates : SUBSET Directories, known : SUBSET Directories,
                  protected : SUBSET Directories, joined : BOOLEAN]
  /\ admission \in {"none", "asks"} \cup Answers

(* The shared directory may be there with nobody left who refers to it.    *)
RunInit ==
  /\ earlier \in SUBSET (Runs \ (Untracked \cup DOMAIN Execution))
  /\ job = [r \in Runs |-> CASE r \in Untracked -> "cli" [] r \in earlier -> "active" [] OTHER -> "none"]
  /\ directory \in {Untracked \cup earlier \cup {Shared}, Untracked} /\ aged = {}
  /\ earlier # {} => Shared \in directory
  /\ cleaner = IdleCleaner /\ admission = "none"

-----------------------------------------------------------------------------
(* The jobs: the directory comes before the row, an execution uses that of *)
(* its dry run, a dry run can be approved for half an hour.                *)
Become(r, from, to) == job[r] = from /\ job' = [job EXCEPT ![r] = to]

Prepare(r) ==
  /\ r \notin DOMAIN Execution /\ Become(r, "none", "prepared")
  /\ directory' = directory \cup {r}
  /\ UNCHANGED <<earlier, aged, cleaner, admission>>

JobGoesOn(r) ==
  /\ \/ Become(r, "prepared", "active")
     \/ \E to \in {"approvable", "final"} : Become(r, "active", to)
     \/ Become(r, "approvable", "expired")
  /\ UNCHANGED <<earlier, directory, aged, cleaner, admission>>

Approve(e) ==
  /\ job[e] = "none" /\ job[Execution[e]] = "approvable"
  /\ job' = [job EXCEPT ![e] = "active", ![Execution[e]] = "approved"]
  /\ directory' = directory \cup {e}
  /\ UNCHANGED <<earlier, aged, cleaner, admission>>

Age(r) ==
  /\ r \in directory \ aged /\ aged' = aged \cup {r}
  /\ UNCHANGED <<earlier, job, directory, cleaner, admission>>

(* Who needs its directory: what runs, can be approved, or is executed.    *)
Executed == {Execution[e] : e \in {x \in DOMAIN Execution : job[x] = "active"}}

(* Mutant: the dry run of an execution is forgotten.                       *)
NeedsOwn(r) == job[r] \in {"active", "approvable"}

Needs(r) == job[r] \in {"active", "approvable"} \/ r \in Executed

(* An execution names the manifest of its dry run.                         *)
Refers(r) == r \in earlier \/ (r \in DOMAIN Execution /\ Execution[r] \in earlier)

(* The directories of some runs, the shared one if one of them refers to it*)
DirectoriesOf(runs) == runs \cup (IF \E r \in runs : Refers(r) THEN {Shared} ELSE {})

InUse == DirectoriesOf({r \in Runs : job[r] \in {"prepared", "active", "approvable", "cli"} \/ r \in Executed})

-----------------------------------------------------------------------------
(* clean: one at a time, shared by the timer and the admissions.           *)
Tick ==
  /\ cleaner.pc = "idle" /\ cleaner' = [IdleCleaner EXCEPT !.pc = "before"]
  /\ UNCHANGED <<earlier, job, directory, aged, admission>>

Ask ==
  /\ admission = "none" /\ admission' = "asks"
  /\ cleaner' = IF cleaner.pc = "idle" THEN [IdleCleaner EXCEPT !.pc = "before", !.joined = TRUE]
                ELSE [cleaner EXCEPT !.joined = TRUE]
  /\ UNCHANGED <<earlier, job, directory, aged>>

Before ==
  /\ cleaner.pc = "before"
  /\ cleaner' = [cleaner EXCEPT !.pc = "scan"]
  /\ UNCHANGED <<earlier, job, directory, aged, admission>>

Scan ==
  /\ cleaner.pc = "scan"
  /\ cleaner' = [cleaner EXCEPT !.pc = "query", !.candidates = directory]
  /\ UNCHANGED <<earlier, job, directory, aged, admission>>

Query ==
  /\ cleaner.pc = "query"
  /\ cleaner' = [cleaner EXCEPT !.pc = "protect",
                                !.known = DirectoriesOf({r \in Runs : job[r] \notin {"none", "prepared", "cli"}}),
                                !.protected = DirectoriesOf({r \in Runs : Needs(r)})]
  /\ UNCHANGED <<earlier, job, directory, aged, admission>>

(* What has no row is left alone, the shared directory excepted.           *)
ProtectUnknown ==
  /\ cleaner.pc = "protect"
  /\ cleaner' = [cleaner EXCEPT !.pc = "retention",
                                !.protected = @ \cup (directory \ (cleaner.known \cup {Shared}))]
  /\ UNCHANGED <<earlier, job, directory, aged, admission>>

Delete(r) == directory' = directory \ {r} /\ aged' = aged \ {r}

Expired == {r \in cleaner.candidates \ cleaner.protected : r \in aged}

Retention ==
  /\ cleaner.pc = "retention"
  /\ IF Expired = {} THEN cleaner' = [cleaner EXCEPT !.pc = "quota"] /\ UNCHANGED <<directory, aged>>
     ELSE \E r \in Expired : Delete(r) /\ cleaner' = [cleaner EXCEPT !.candidates = @ \ {r}]
  /\ UNCHANGED <<earlier, job, admission>>

Spare == cleaner.candidates \ cleaner.protected

(* Mutant: the clean-up stops one directory too early.                     *)
OverQuotaByTwo == Cardinality(cleaner.candidates) > MaxBytes + 1

OverQuota == Cardinality(cleaner.candidates) > MaxBytes

(* The oldest go until the rest fits; the admissions that joined see what  *)
(* is left.                                                                *)
Quota ==
  /\ cleaner.pc = "quota"
  /\ IF OverQuota /\ Spare # {}
     THEN /\ \E r \in Spare : Delete(r) /\ cleaner' = [cleaner EXCEPT !.candidates = @ \ {r}]
          /\ UNCHANGED admission
     ELSE /\ cleaner' = IdleCleaner /\ UNCHANGED <<directory, aged>>
          /\ admission' = IF ~cleaner.joined THEN admission
                          ELSE IF Cardinality(cleaner.candidates) > MaxBytes THEN "refused" ELSE "accepted"
  /\ UNCHANGED <<earlier, job>>

(* Mutant: who joined a clean-up that fails is not told.                   *)
CleanFailsUntold ==
  /\ cleaner.pc # "idle" /\ cleaner' = IdleCleaner
  /\ UNCHANGED <<earlier, job, directory, aged, admission>>

(* beforeClean, a look at the disk, the query, a deletion or the check of  *)
(* the free space may fail: the clean-up ends there, above the quota or    *)
(* not, and with it the admissions that joined.                            *)
CleanFails ==
  /\ cleaner.pc # "idle" /\ cleaner' = IdleCleaner
  /\ admission' = IF cleaner.joined THEN "failed" ELSE admission
  /\ UNCHANGED <<earlier, job, directory, aged>>

Again ==
  /\ admission \in Answers /\ admission' = "none"
  /\ UNCHANGED <<earlier, job, directory, aged, cleaner>>

Clean == Before \/ Scan \/ Query \/ ProtectUnknown \/ Retention \/ Quota \/ CleanFails

RunNext ==
  \/ \E r \in Runs : Prepare(r) \/ JobGoesOn(r)
  \/ \E r \in Directories : Age(r)
  \/ \E e \in DOMAIN Execution : Approve(e)
  \/ Tick \/ Ask \/ Clean \/ Again

RunSpec == RunInit /\ [][RunNext]_runVars
RunFairness == WF_runVars(Clean)

-----------------------------------------------------------------------------
(* A directory is never deleted while its job prepares, runs, can still be *)
(* approved or is executed, nor when a command line run made it, nor the   *)
(* shared one while such a job refers to it, although jobs come and change *)
(* between the look at the database and the deletion.                      *)
NeedsAreKept == [][directory \ directory' \subseteq Directories \ InUse]_runVars

(* A new run is refused for want of room only when nothing is left that    *)
(* could be deleted. A clean-up that fails may leave more; it answers with *)
(* its error.                                                              *)
RefusedForNeeds ==
  [][admission = "asks" /\ admission' = "refused"
       => /\ Cardinality(cleaner.candidates) > MaxBytes
          /\ cleaner.candidates \subseteq cleaner.protected]_runVars
=============================================================================
