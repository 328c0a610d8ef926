-------------------------- MODULE HomeConfiguration --------------------------
(***************************************************************************)
(* The two files of the home directory: config.json and secrets.env. Every *)
(* command that starts a server or runs a job makes them if they are       *)
(* missing and reads them; `sfud config init` makes them; `sfud setup`     *)
(* reads them, asks, and replaces both. A lock file keeps the writers from *)
(* each other, readers take none.                                          *)
(***************************************************************************)
EXTENDS Integers

CONSTANTS Procs, None,
          MaxCommands, MaxFaults     \* Bounds

VARIABLES file,      \* config and secrets: Absent, or an inode and what is in it
          lock,      \* .setup.lock: None, or the process whose it is
          proc,      \* Of each command: what it is, where, and what it has read
          inodes, bounds
homeVars == <<file, lock, proc, inodes, bounds>>

Files == {"config", "secrets"}
Absent == [id |-> 0, whole |-> FALSE, token |-> FALSE]
Resting == [op |-> "none", at |-> "idle", config |-> Absent, secrets |-> Absent, wrote |-> {},
            before |-> [f \in Files |-> Absent], key |-> FALSE, result |-> "none"]

HomeInit ==
  /\ file = [f \in Files |-> Absent] /\ lock = None
  /\ proc = [p \in Procs |-> Resting]
  /\ inodes = 0 /\ bounds = [commands |-> 0, faults |-> 0]

Goes(p, at) == proc' = [proc EXCEPT ![p].at = at]
Made(whole, token) == [id |-> inodes + 1, whole |-> whole, token |-> token]

(* A command: `key` says that an initialization would generate a token,    *)
(* the environment having none.                                            *)
Command(p) ==
  /\ proc[p].at \in {"idle", "ended"} /\ bounds.commands < MaxCommands
  /\ \E op \in {"load", "init", "setup"}, key \in BOOLEAN :
       proc' = [proc EXCEPT ![p] = [Resting EXCEPT !.op = op, !.key = key,
                  !.at = IF op = "setup" THEN "read config" ELSE "lock"]]
  /\ bounds' = [bounds EXCEPT !.commands = @ + 1]
  /\ UNCHANGED <<file, lock, inodes>>

-----------------------------------------------------------------------------
(* Something fails: a disk, a permission, a file somebody has replaced.    *)
Fault == bounds.faults < MaxFaults
Faulty == bounds' = [bounds EXCEPT !.faults = @ + 1]

(* Mutant: a load reads what is there without it.                          *)
LockUnlessThere(p) ==
  /\ proc[p].at = "lock"
  /\ IF proc[p].op = "load" /\ file["config"].whole
     THEN Goes(p, "read config") /\ UNCHANGED lock
     ELSE /\ lock = None /\ lock' = p
          /\ proc' = [proc EXCEPT ![p].before = file,
                                  ![p].at = IF proc[p].op = "setup" THEN "prepare" ELSE "look"]
  /\ UNCHANGED <<file, inodes, bounds>>

(* The lock: an initializer waits 30 seconds for it, a setup does not.     *)
Lock(p) ==
  /\ proc[p].at = "lock" /\ lock = None
  /\ lock' = p
  /\ proc' = [proc EXCEPT ![p].before = file,
                          ![p].at = IF proc[p].op = "setup" THEN "prepare" ELSE "look"]
  /\ UNCHANGED <<file, inodes, bounds>>
NoLock(p) ==
  /\ proc[p].at = "lock" /\ lock # None
  /\ proc' = [proc EXCEPT ![p].at = "ended", ![p].result = "refused"]
  /\ UNCHANGED <<file, lock, inodes, bounds>>

(* The finally of a writer: a command that loads goes on to read.          *)
Release(p) ==
  /\ proc[p].at = "release"
  /\ lock' = IF lock = p THEN None ELSE lock
  /\ Goes(p, IF proc[p].op = "load" /\ proc[p].result = "none" THEN "read config" ELSE "ended")
  /\ UNCHANGED <<file, inodes, bounds>>
To(p, at, result) == proc' = [proc EXCEPT ![p].at = at, ![p].result = result]

(* initializeHomeConfiguration: the file that is there is left as it is.   *)
Look(p) ==
  /\ proc[p].at = "look"
  /\ IF file["config"] = Absent
     THEN /\ file' = [file EXCEPT !["config"] = Made(FALSE, proc[p].key /\ file["secrets"] = Absent)]
          /\ inodes' = inodes + 1 /\ Goes(p, "write config")
     ELSE /\ IF proc[p].op = "init" THEN To(p, "release", "refused") ELSE Goes(p, "template")
          /\ UNCHANGED <<file, inodes>>
  /\ UNCHANGED <<lock, bounds>>
WriteConfig(p) ==
  /\ proc[p].at = "write config"
  /\ \/ /\ file' = [file EXCEPT !["config"].whole = TRUE] /\ Goes(p, "new secrets") /\ UNCHANGED bounds
     \/ /\ Fault /\ Faulty
        /\ file' = [file EXCEPT !["config"] = Absent] /\ To(p, "release", "failed")
  /\ UNCHANGED <<lock, inodes>>

(* createSecretsTemplateIfMissing: of the initializer, with a token, and   *)
(* of who finds a configuration, without; a load once more without the lock*)
Locked(p) == proc[p].at \in {"template", "new secrets", "write template", "write secrets"}
Creates(p) == proc[p].at \in {"template", "new secrets", "template again"}
After(p) == IF Locked(p) THEN "release" ELSE "read secrets"
CreateSecrets(p) ==
  /\ Creates(p)
  /\ IF file["secrets"] # Absent THEN Goes(p, After(p)) /\ UNCHANGED <<file, inodes>>
     ELSE /\ file' = [file EXCEPT !["secrets"] = Made(FALSE, FALSE)] /\ inodes' = inodes + 1
          /\ Goes(p, CASE proc[p].at = "template" -> "write template"
                       [] proc[p].at = "new secrets" -> "write secrets"
                       [] OTHER -> "write template again")
  /\ UNCHANGED <<lock, bounds>>
WriteSecrets(p) ==
  /\ proc[p].at \in {"write template", "write secrets", "write template again"}
  /\ \/ /\ file' = [file EXCEPT !["secrets"].whole = TRUE,
                                !["secrets"].token = proc[p].at = "write secrets" /\ proc[p].key]
        /\ Goes(p, After(p)) /\ UNCHANGED bounds
     \/ /\ Fault /\ Faulty
        /\ file' = [file EXCEPT !["secrets"] = Absent,
                                !["config"] = IF proc[p].at = "write secrets" THEN Absent ELSE @]
        /\ To(p, IF Locked(p) THEN "release" ELSE "ended", "failed")
  /\ UNCHANGED <<lock, inodes>>

(* The reads, of a load and of a setup. Half a configuration is refused;   *)
(* half a secrets file cannot be told from one without secrets.            *)
ReadConfig(p) ==
  /\ proc[p].at = "read config"
  /\ proc' = [proc EXCEPT ![p].config = file["config"],
       ![p].at = IF file["config"].id # 0 /\ ~file["config"].whole THEN "ended"
                 ELSE IF proc[p].op = "load" THEN "template again" ELSE "read secrets",
       ![p].result = IF file["config"].id # 0 /\ ~file["config"].whole THEN "refused" ELSE @]
  /\ UNCHANGED <<file, lock, inodes, bounds>>
ReadSecrets(p) ==
  /\ proc[p].at = "read secrets"
  /\ proc' = [proc EXCEPT ![p].secrets = file["secrets"],
       ![p].at = IF proc[p].op = "load" THEN "ended" ELSE "asking",
       ![p].result = IF proc[p].op = "load" THEN "loaded" ELSE @]
  /\ UNCHANGED <<file, lock, inodes, bounds>>

-----------------------------------------------------------------------------
(* runSetup asks; the answer to the last question saves, or does not.      *)
Answer(p) ==
  /\ proc[p].at = "asking"
  /\ \/ Goes(p, "lock")
     \/ To(p, "ended", "cancelled")
  /\ UNCHANGED <<file, lock, inodes, bounds>>

(* saveHomeConfiguration: both files are what the setup has read, bytes and*)
(* inode, before they are staged and once more before they are replaced.   *)
Read(p, f) == IF f = "config" THEN proc[p].config ELSE proc[p].secrets
(* Mutant: nobody looks whether it has changed.                            *)
Unlooked(p, f) == TRUE

Original(p, f) == file[f] = Read(p, f)
Prepare(p) ==
  /\ proc[p].at = "prepare"
  /\ \/ /\ \A f \in Files : Original(p, f)
        /\ Goes(p, "secrets") /\ UNCHANGED bounds
     \/ /\ \E f \in Files : ~Original(p, f)
        /\ To(p, "release", "refused") /\ UNCHANGED bounds
     \/ /\ Fault /\ Faulty /\ To(p, "release", "failed")
  /\ UNCHANGED <<file, lock, inodes>>

(* Mutant: what is saved has no token but a new one.                       *)
NewToken(p, f) == f = "secrets" /\ proc[p].key

TokenOf(p, f) == f = "secrets" /\ (Read(p, f).token \/ proc[p].key)

(* One of them: a file that was missing is linked, and never replaces one. *)
Replace(p, f, next) ==
  /\ proc[p].at = f
  /\ IF Original(p, f)
     THEN /\ file' = [file EXCEPT ![f] = Made(TRUE, TokenOf(p, f))]
          /\ inodes' = inodes + 1
          /\ \/ /\ proc' = [proc EXCEPT ![p].wrote = @ \cup {f}, ![p].at = next,
                                        ![p].result = IF f = "config" THEN "saved" ELSE @]
                /\ UNCHANGED bounds
             \/ /\ Fault /\ Faulty
                /\ proc' = [proc EXCEPT ![p].wrote = @ \cup {f}, ![p].at = "restore"]
     ELSE Goes(p, "restore") /\ UNCHANGED <<file, inodes, bounds>>
  /\ UNCHANGED lock
ReplaceSecrets(p) == Replace(p, "secrets", "config")
ReplaceConfig(p) == Replace(p, "config", "release")

(* The rollback, the last written first; what cannot be restored is kept   *)
(* as a backup, and said.                                                  *)
Last(p) == IF "config" \in proc[p].wrote THEN "config" ELSE "secrets"

(* Mutant: the rollback leaves what was written.                           *)
RestoreNothing(p) ==
  /\ proc[p].at = "restore" /\ proc[p].wrote # {}
  /\ proc' = [proc EXCEPT ![p].wrote = {}]
  /\ UNCHANGED <<file, lock, inodes, bounds>>

Restore(p) ==
  /\ proc[p].at = "restore" /\ proc[p].wrote # {}
  /\ \/ /\ file' = [file EXCEPT ![Last(p)] = Read(p, Last(p))]
        /\ proc' = [proc EXCEPT ![p].wrote = @ \ {Last(p)}] /\ UNCHANGED bounds
     \/ /\ Fault /\ Faulty
        /\ proc' = [proc EXCEPT ![p].wrote = @ \ {Last(p)}, ![p].result = "not restored"]
        /\ UNCHANGED file
  /\ UNCHANGED <<lock, inodes>>
Restored(p) ==
  /\ proc[p].at = "restore" /\ proc[p].wrote = {}
  /\ To(p, "release", IF proc[p].result = "none" THEN "failed" ELSE proc[p].result)
  /\ UNCHANGED <<file, lock, inodes, bounds>>

(* A command is killed: its lock stays, and so does what it has written.   *)
Killed(p) ==
  /\ proc[p].at \notin {"idle", "ended"} /\ Fault /\ Faulty
  /\ proc' = [proc EXCEPT ![p] = [Resting EXCEPT !.at = "ended", !.result = "killed", !.op = proc[p].op]]
  /\ UNCHANGED <<file, lock, inodes>>

HomeNext ==
  \E p \in Procs :
    \/ Command(p) \/ Lock(p) \/ NoLock(p) \/ Release(p) \/ Look(p) \/ WriteConfig(p)
    \/ CreateSecrets(p) \/ WriteSecrets(p) \/ ReadConfig(p) \/ ReadSecrets(p) \/ Answer(p)
    \/ Prepare(p) \/ ReplaceSecrets(p) \/ ReplaceConfig(p) \/ Restore(p) \/ Restored(p) \/ Killed(p)

-----------------------------------------------------------------------------
HomeTypeOK ==
  /\ lock \in Procs \cup {None} /\ inodes \in Nat
  /\ \A f \in Files : file[f].id \in 0..inodes /\ (file[f].id = 0 => file[f] = Absent)
  /\ \A p, q \in Procs : proc[p].at = proc[q].at /\ proc[p].at \in {"look", "prepare", "config", "restore"} => p = q

(* A configuration that was made with a token is never read without it.    *)
LoadedIsWhole ==
  \A p \in Procs : proc[p].result = "loaded" /\ proc[p].config.token => proc[p].secrets.token

(* A setup that ends has replaced both files, or has left both as they     *)
(* were, or says that it could not restore them.                           *)
BothOrNeither ==
  [][\A p \in Procs : proc[p].op = "setup" /\ proc[p].at = "release" /\ proc'[p].at = "ended" =>
       CASE proc[p].result = "saved" -> \A f \in Files : file[f].id > proc[p].before[f].id
         [] proc[p].result = "not restored" -> TRUE
         [] OTHER -> \A f \in Files : file[f] = proc[p].before[f]]_homeVars

(* Nothing is replaced that the setup has not read: two setups, or a setup *)
(* and a first start, never overwrite each other.                          *)
NoLostUpdate ==
  [][\A f \in Files : file[f] # Absent /\ file'[f].id > file[f].id =>
       \E p \in Procs : proc[p].at = f /\ Read(p, f) = file[f]]_homeVars

(* The token of a finished installation stays: none of the writers takes   *)
(* away one it has not brought.                                            *)
TokenStays ==
  [][file["secrets"].token /\ file["secrets"].whole /\ ~file'["secrets"].token =>
       \E p \in Procs : proc[p].at = "restore" /\ "secrets" \in proc[p].wrote]_homeVars
=============================================================================
