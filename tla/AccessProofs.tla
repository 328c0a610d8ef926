---------------------------- MODULE AccessProofs -----------------------------
(***************************************************************************)
(* Proofs about the settings MCAccess puts beside each other: first the    *)
(* files of the home directory and the servers it records                  *)
(* (HomeConfiguration, UiControl), then access to jobs, the network policy *)
(* and the connections of Git (AccessControl, GitNetworkPolicy,            *)
(* GitConnections). A behaviour is one of one of them.                     *)
(***************************************************************************)
EXTENDS MCAccess, Sequences, TLAPS

-----------------------------------------------------------------------------
(* The files of the home directory. Who holds the lock is at one of these. *)
Making == {"write config", "new secrets", "write secrets"}
Replacing == {"secrets", "config", "restore"}
Held == Making \cup Replacing \cup {"look", "template", "write template", "prepare", "release"}
Stages == Held \cup {"idle", "ended", "lock", "read config", "template again", "read secrets", "asking"}

FileRecords == [id : Nat, whole : BOOLEAN, token : BOOLEAN]
Versions == {x \in FileRecords : x.id \in 0 .. inodes /\ (x.id = 0 => x = Home!Absent)}
CommandRecords == [op : {"none", "load", "init", "setup"}, at : Stages, config : Versions, secrets : Versions,
                   wrote : SUBSET Home!Files, before : [Home!Files -> Versions], key : BOOLEAN,
                   result : {"none", "refused", "failed", "loaded", "cancelled", "saved", "not restored", "killed"}]
HomeTypes ==
  /\ inodes \in Nat /\ lock \in Processes \cup {None}
  /\ file \in [Home!Files -> Versions] /\ proc \in [Processes -> CommandRecords]

(* What is at the stages of one command.                                   *)
StageHolds(p) ==
  /\ proc[p].at \in Held => lock = p
  /\ proc[p].at \in Replacing \cup {"prepare", "asking"} => proc[p].op = "setup"
  /\ proc[p].at \in Making \cup {"look", "template", "write template"} => proc[p].op # "setup"
  /\ proc[p].at \in {"read config", "read secrets"} => proc[p].op \in {"load", "setup"}
  /\ proc[p].at = "template again" => proc[p].op = "load"
  /\ proc[p].op # "setup" => proc[p].wrote = {}
  /\ proc[p].at \notin {"restore", "release", "idle", "ended"} => proc[p].result = "none"
  /\ proc[p].at \notin {"config", "restore", "release", "idle", "ended"} => proc[p].wrote = {}
  /\ proc[p].result = "loaded" => proc[p].at = "ended" /\ (proc[p].config.token => proc[p].secrets.token)

(* A new installation: a configuration tells of the token its command is   *)
(* to write, into a file that no one else has made.                        *)
MakingHolds(p) ==
  /\ proc[p].at = "write config" => file["config"].id # 0
  /\ proc[p].at \in {"write config", "new secrets"} /\ file["config"].token =>
       proc[p].key /\ file["secrets"] = Home!Absent
  /\ proc[p].at = "write secrets" /\ file["config"].token => proc[p].key
  /\ proc[p].at \in {"write template", "write secrets"} => file["secrets"].id # 0 /\ ~file["secrets"].token

(* A setup: the files are those it has read, or later ones of its own.     *)
ReplacingHolds(p) ==
  /\ proc[p].at \in {"prepare", "secrets"} => proc[p].before = file
  /\ proc[p].at = "config" => proc[p].wrote = {"secrets"}
  /\ proc[p].at = "restore" => proc[p].result \in {"none", "not restored"}
  /\ proc[p].at \in Replacing =>
       /\ proc[p].before["config"] = proc[p].config /\ proc[p].before["secrets"] = proc[p].secrets
       /\ file["config"].token \/ proc[p].config.token => proc[p].secrets.token
       /\ proc[p].secrets.token => file["secrets"].token
       /\ \A f \in proc[p].wrote : file[f].id > proc[p].before[f].id
       /\ \A f \in Home!Files \ proc[p].wrote : file[f] = proc[p].before[f] \/ proc[p].result = "not restored"
  /\ proc[p].at = "release" /\ proc[p].op = "setup" =>
       /\ proc[p].result = "saved" => \A f \in Home!Files : file[f].id > proc[p].before[f].id
       /\ proc[p].result \notin {"saved", "not restored"} => file = proc[p].before

(* A load that has given back the lock reads the files as long as it does: *)
(* no one may take away its secrets, or the token it has read of.          *)
Loads(p) == /\ proc[p].op = "load"
            /\ \/ proc[p].at \in {"read config", "template again", "read secrets"}
               \/ proc[p].at = "release" /\ proc[p].result = "none"
ReadOfToken(p) == \/ file["config"].token
                  \/ proc[p].at \in {"template again", "read secrets"} /\ proc[p].config.token
MayRemove(q) == \/ proc[q].at \in {"write template", "write secrets"}
                \/ proc[q].at \in {"config", "restore"} /\ "secrets" \in proc[q].wrote
                   /\ proc[q].secrets = Home!Absent
LoadHolds(p) ==
  Loads(p) => /\ file["secrets"] # Home!Absent
              /\ ReadOfToken(p) => file["secrets"].token
              /\ \A q \in Processes : ~MayRemove(q)
              /\ \A q \in Processes : proc[q].at \in Replacing /\ ReadOfToken(p) => proc[q].secrets.token

(* A configuration with a token has it in the secrets, unless it is being  *)
(* made, or who made it was killed, whose lock is there for ever.          *)
TokenHolds ==
  (lock = None \/ \E p \in Processes : proc[p].at \in Held \ Making) =>
    (file["config"].token => file["secrets"].token)

HomeInv ==
  /\ HomeTypes /\ TokenHolds
  /\ \A p \in Processes : StageHolds(p) /\ MakingHolds(p) /\ ReplacingHolds(p) /\ LoadHolds(p)

LEMMA HomeInvInit == ASSUME Home!HomeInit PROVE HomeInv
<1>1. /\ inodes = 0 /\ lock = None
      /\ \A f \in Home!Files : file[f] = Home!Absent
      /\ \A p \in Processes : proc[p] = Home!Resting
  BY DEF Home!HomeInit
<1>2. Home!Absent \in Versions
  BY <1>1 DEF Home!Absent, Versions, FileRecords
<1>3. Home!Resting \in CommandRecords
  <2>1. [f \in Home!Files |-> Home!Absent] \in [Home!Files -> Versions]
    BY <1>2
  <2> QED
    BY <1>2, <2>1 DEF Home!Resting, CommandRecords, Stages
<1>4. HomeTypes
  <2>1. file \in [Home!Files -> Versions]
    BY <1>1, <1>2 DEF Home!HomeInit
  <2>2. proc \in [Processes -> CommandRecords]
    BY <1>3 DEF Home!HomeInit
  <2> QED
    BY <1>1, <2>1, <2>2 DEF HomeTypes
<1>5. Home!Resting.at = "idle" /\ Home!Resting.result = "none" /\ Home!Resting.wrote = {}
  BY DEF Home!Resting
<1>6. TokenHolds
  BY <1>1 DEF TokenHolds, Home!Absent, Home!Files
<1>7. \A p \in Processes : StageHolds(p) /\ MakingHolds(p) /\ ReplacingHolds(p) /\ LoadHolds(p)
  BY <1>1, <1>5 DEF StageHolds, MakingHolds, ReplacingHolds, LoadHolds, Loads, Held, Making, Replacing
<1> QED
  BY <1>4, <1>6, <1>7 DEF HomeInv

LEMMA VersionsGrow ==
  ASSUME inodes \in Nat, inodes' \in {inodes, inodes + 1}
  PROVE  (\A x \in Versions : x \in Versions') /\ (\A x \in CommandRecords : x \in CommandRecords')
<1>1. \A x \in Versions : x \in Versions'
  BY DEF Versions, FileRecords
<1>2. \A x \in CommandRecords : x \in CommandRecords'
  BY <1>1 DEF CommandRecords
<1> QED
  BY <1>1, <1>2

LEMMA AbsentIsVersion == ASSUME inodes \in Nat PROVE Home!Absent \in Versions
BY DEF Home!Absent, Versions, FileRecords

LEMMA MadeIsVersion ==
  ASSUME inodes \in Nat, inodes' = inodes + 1, NEW whole \in BOOLEAN, NEW token \in BOOLEAN
  PROVE  LET x == Home!Made(whole, token) IN
         /\ x \in Versions' /\ x # Home!Absent /\ x.id = inodes + 1 /\ x.token = token
         /\ \A y \in Versions : x.id > y.id
BY DEF Home!Made, Home!Absent, Versions, FileRecords

LEMMA OneHolder ==
  ASSUME HomeInv, NEW p \in Processes, NEW q \in Processes, proc[p].at \in Held, proc[q].at \in Held
  PROVE  p = q /\ lock = p /\ lock # None
BY HomeAssumption DEF HomeInv, StageHolds

(* What is put together from the command that has made a step and the rest.*)
LEMMA Assembled ==
  ASSUME HomeInv, NEW p \in Processes, NEW x \in CommandRecords, proc' = [proc EXCEPT ![p] = x],
         inodes' \in {inodes, inodes + 1}, lock' \in Processes \cup {None}, file' \in [Home!Files -> Versions'],
         TokenHolds',
         \A q \in Processes : StageHolds(q)' /\ MakingHolds(q)' /\ ReplacingHolds(q)' /\ LoadHolds(q)'
  PROVE  HomeInv'
<1>1. x \in CommandRecords' /\ \A q \in Processes : proc[q] \in CommandRecords'
  BY VersionsGrow DEF HomeInv, HomeTypes
<1>2. proc' \in [Processes -> CommandRecords']
  BY <1>1 DEF HomeInv, HomeTypes
<1>3. HomeTypes'
  BY <1>2 DEF HomeInv, HomeTypes
<1> QED
  BY <1>3 DEF HomeInv

(* A step that leaves the files alone, and removes and replaces nothing.   *)
LEMMA RestsKept ==
  ASSUME HomeInv, NEW p \in Processes, NEW x \in CommandRecords, proc' = [proc EXCEPT ![p] = x],
         UNCHANGED <<file, inodes>>, lock' = lock \/ (lock = None /\ lock' = p),
         x.at \notin Replacing \cup {"write template", "write secrets"},
         x.at \in Held \ Making => lock = None \/ proc[p].at \in Held \ Making,
         StageHolds(p)', MakingHolds(p)', ReplacingHolds(p)', LoadHolds(p)'
  PROVE  HomeInv'
<1>1. HomeTypes /\ proc'[p] = x /\ \A q \in Processes \ {p} : proc'[q] = proc[q]
  BY DEF HomeInv, HomeTypes
<1>2. TokenHolds'
  <2>1. (lock' = None \/ \E q \in Processes : proc'[q].at \in Held \ Making)
          => (lock = None \/ \E q \in Processes : proc[q].at \in Held \ Making)
    BY <1>1, HomeAssumption
  <2> QED
    BY <2>1 DEF HomeInv, TokenHolds
<1>3. ASSUME NEW q \in Processes \ {p}
      PROVE  StageHolds(q)' /\ MakingHolds(q)' /\ ReplacingHolds(q)' /\ LoadHolds(q)'
  <2>1. proc'[q] = proc[q] /\ StageHolds(q) /\ MakingHolds(q) /\ ReplacingHolds(q) /\ LoadHolds(q)
    BY <1>1 DEF HomeInv
  <2>2. StageHolds(q)'
    BY <2>1, HomeAssumption DEF StageHolds
  <2>3. MakingHolds(q)' /\ ReplacingHolds(q)'
    <3>1. file' = file
      OBVIOUS
    <3>2. MakingHolds(q)'
      BY <2>1, <3>1 DEF MakingHolds
    <3>3. ReplacingHolds(q)'
      BY <2>1, <3>1 DEF ReplacingHolds
    <3> QED
      BY <3>2, <3>3
  <2>4. ~MayRemove(p)'
    BY <1>1 DEF MayRemove, Replacing
  <2>5. \A r \in Processes \ {p} : MayRemove(r)' = MayRemove(r)
    BY <1>1 DEF MayRemove
  <2>6. Loads(q)' = Loads(q) /\ ReadOfToken(q)' = ReadOfToken(q)
    BY <2>1 DEF Loads, ReadOfToken
  <2>7. LoadHolds(q)'
    BY <1>1, <2>1, <2>4, <2>5, <2>6 DEF LoadHolds
  <2> QED
    BY <2>2, <2>3, <2>7
<1>4. \A q \in Processes : StageHolds(q)' /\ MakingHolds(q)' /\ ReplacingHolds(q)' /\ LoadHolds(q)'
  BY <1>3
<1>5. inodes' \in {inodes, inodes + 1} /\ lock' \in Processes \cup {None} /\ file' \in [Home!Files -> Versions']
  <2>1. inodes' = inodes /\ file' = file
    OBVIOUS
  <2>2. Versions' = Versions
    BY <2>1 DEF Versions
  <2>4. file' \in [Home!Files -> Versions']
    BY <1>1, <2>1, <2>2 DEF HomeTypes
  <2>5. lock' \in Processes \cup {None}
    BY <1>1 DEF HomeTypes
  <2> QED
    BY <2>1, <2>4, <2>5
<1> QED
  BY <1>2, <1>4, <1>5, Assembled

(* A step of who holds the lock: it leaves to a load what it needs.        *)
Leaves(p, q) ==
  Loads(q) => /\ file'["secrets"] # Home!Absent
              /\ ReadOfToken(q)' => file'["secrets"].token
              /\ ~MayRemove(p)'
              /\ proc'[p].at \in Replacing /\ ReadOfToken(q)' => proc'[p].secrets.token
LEMMA HolderKept ==
  ASSUME HomeInv, NEW p \in Processes, NEW x \in CommandRecords, proc' = [proc EXCEPT ![p] = x],
         proc[p].at \in Held, lock' = lock \/ lock' = None,
         inodes' \in {inodes, inodes + 1}, file' \in [Home!Files -> Versions'],
         lock' = None \/ x.at \in Held \ Making => (file'["config"].token => file'["secrets"].token),
         StageHolds(p)', MakingHolds(p)', ReplacingHolds(p)', LoadHolds(p)',
         \A q \in Processes \ {p} : Leaves(p, q)
  PROVE  HomeInv'
<1>1. HomeTypes /\ proc'[p] = x /\ \A q \in Processes \ {p} : proc'[q] = proc[q] /\ proc[q].at \notin Held
  BY OneHolder DEF HomeInv, HomeTypes
<1>2. TokenHolds'
  BY <1>1 DEF TokenHolds
<1>3. ASSUME NEW q \in Processes \ {p}
      PROVE  StageHolds(q)' /\ MakingHolds(q)' /\ ReplacingHolds(q)' /\ LoadHolds(q)'
  <2>1. proc'[q] = proc[q] /\ StageHolds(q) /\ proc[q].at \notin Held
    BY <1>1 DEF HomeInv
  <2>2. StageHolds(q)'
    BY <2>1 DEF StageHolds
  <2>3. MakingHolds(q)' /\ ReplacingHolds(q)'
    BY <2>1 DEF MakingHolds, ReplacingHolds, Held, Making, Replacing
  <2>4. Loads(q)' = Loads(q) /\ Leaves(p, q)
    BY <2>1 DEF Loads
  <2>5. \A r \in Processes \ {p} : ~MayRemove(r)' /\ proc'[r].at \notin Replacing
    BY <1>1 DEF MayRemove, Held, Making, Replacing
  <2>6. LoadHolds(q)'
    BY <2>4, <2>5 DEF LoadHolds, Leaves
  <2> QED
    BY <2>2, <2>3, <2>6
<1>4. \A q \in Processes : StageHolds(q)' /\ MakingHolds(q)' /\ ReplacingHolds(q)' /\ LoadHolds(q)'
  BY <1>3
<1>5. lock' \in Processes \cup {None}
  BY <1>1 DEF HomeTypes
<1> QED
  BY <1>2, <1>4, <1>5, Assembled

LEMMA RestingIsCommand ==
  ASSUME HomeInv
  PROVE  /\ Home!Resting \in CommandRecords /\ Home!Resting.at = "idle" /\ Home!Resting.op = "none"
         /\ Home!Resting.result = "none" /\ Home!Resting.wrote = {}
<1>1. [f \in Home!Files |-> Home!Absent] \in [Home!Files -> Versions] /\ Home!Absent \in Versions
  BY AbsentIsVersion DEF HomeInv, HomeTypes
<1> QED
  BY <1>1 DEF Home!Resting, CommandRecords, Stages

LEMMA CommandKept == ASSUME HomeInv, NEW p \in Processes, Home!Command(p) PROVE HomeInv'
<1>1. PICK op \in {"load", "init", "setup"}, key \in BOOLEAN :
        proc' = [proc EXCEPT ![p] = [Home!Resting EXCEPT !.op = op, !.key = key,
                                       !.at = IF op = "setup" THEN "read config" ELSE "lock"]]
  BY DEF Home!Command
<1> DEFINE x == [Home!Resting EXCEPT !.op = op, !.key = key, !.at = IF op = "setup" THEN "read config" ELSE "lock"]
<1>2. x \in CommandRecords
  BY RestingIsCommand DEF CommandRecords, Stages
<1>3. /\ x.op = op /\ x.at = (IF op = "setup" THEN "read config" ELSE "lock")
      /\ x.result = "none" /\ x.wrote = {}
  BY RestingIsCommand DEF CommandRecords
<1>4. proc' = [proc EXCEPT ![p] = x]
  BY <1>1
<1> HIDE DEF x
<1>5. proc'[p] = x
  BY <1>4 DEF HomeInv, HomeTypes
<1>6. UNCHANGED <<file, lock, inodes>>
  BY DEF Home!Command
<1>7. StageHolds(p)'
  BY <1>3, <1>5 DEF StageHolds, Held, Making, Replacing
<1>8. MakingHolds(p)' /\ ReplacingHolds(p)' /\ LoadHolds(p)'
  BY <1>3, <1>5 DEF MakingHolds, ReplacingHolds, LoadHolds, Loads, Replacing
<1>9. x.at \notin Held \cup {"write template", "write secrets"}
  BY <1>3 DEF Held, Making, Replacing
<1> QED
  BY <1>2, <1>4, <1>6, <1>7, <1>8, <1>9, RestsKept DEF Held

LEMMA LockKept == ASSUME HomeInv, NEW p \in Processes, Home!Lock(p) PROVE HomeInv'
<1>1. HomeTypes /\ StageHolds(p) /\ proc[p] \in CommandRecords
  BY DEF HomeInv, HomeTypes
<1> DEFINE x == [proc[p] EXCEPT !.before = file, !.at = IF proc[p].op = "setup" THEN "prepare" ELSE "look"]
<1>2. proc' = [proc EXCEPT ![p] = x]
  BY <1>1 DEF Home!Lock, HomeTypes
<1>3. x \in CommandRecords
  BY <1>1 DEF CommandRecords, HomeTypes, Stages, Held
<1>4. /\ x.op = proc[p].op /\ x.at = (IF proc[p].op = "setup" THEN "prepare" ELSE "look")
      /\ x.result = proc[p].result /\ x.wrote = proc[p].wrote /\ x.before = file
  BY <1>1 DEF CommandRecords
<1> HIDE DEF x
<1>5. proc'[p] = x
  BY <1>1, <1>2 DEF HomeTypes
<1>6. UNCHANGED <<file, inodes>> /\ lock = None /\ lock' = p /\ proc[p].at = "lock"
  BY DEF Home!Lock
<1>7. StageHolds(p)'
  BY <1>1, <1>4, <1>5, <1>6 DEF StageHolds, Making, Replacing
<1>8. MakingHolds(p)' /\ ReplacingHolds(p)' /\ LoadHolds(p)'
  BY <1>4, <1>5, <1>6 DEF MakingHolds, ReplacingHolds, LoadHolds, Loads, Replacing
<1>9. x.at \notin Replacing \cup {"write template", "write secrets"}
  BY <1>4 DEF Replacing
<1> QED
  BY <1>2, <1>3, <1>6, <1>7, <1>8, <1>9, RestsKept

(* The steps that end a command, or ask.                                   *)
LEMMA EndKept ==
  ASSUME HomeInv, NEW p \in Processes, NEW x \in CommandRecords, proc' = [proc EXCEPT ![p] = x],
         UNCHANGED <<file, lock, inodes>>, x.at = "ended", x.op # "setup" => x.wrote = {},
         x.result = "loaded" => (x.config.token => x.secrets.token)
  PROVE  HomeInv'
<1>1. proc'[p] = x
  BY DEF HomeInv, HomeTypes
<1>2. StageHolds(p)'
  BY <1>1 DEF StageHolds, Held, Making, Replacing
<1>3. MakingHolds(p)' /\ ReplacingHolds(p)' /\ LoadHolds(p)'
  BY <1>1 DEF MakingHolds, ReplacingHolds, LoadHolds, Loads, Replacing
<1>4. x.at \notin Held \cup {"write template", "write secrets"}
  BY DEF Held, Making, Replacing
<1> QED
  BY <1>2, <1>3, <1>4, RestsKept DEF Held

LEMMA NoLockKept == ASSUME HomeInv, NEW p \in Processes, Home!NoLock(p) PROVE HomeInv'
<1>1. HomeTypes /\ StageHolds(p) /\ proc[p] \in CommandRecords
  BY DEF HomeInv, HomeTypes
<1> DEFINE x == [proc[p] EXCEPT !.at = "ended", !.result = "refused"]
<1>2. proc' = [proc EXCEPT ![p] = x]
  BY <1>1 DEF Home!NoLock, HomeTypes
<1>3. x \in CommandRecords
  BY <1>1 DEF CommandRecords, Stages
<1>4. x.at = "ended" /\ x.op = proc[p].op /\ x.wrote = proc[p].wrote /\ x.result = "refused"
  BY <1>1 DEF CommandRecords
<1>5. UNCHANGED <<file, lock, inodes>>
  BY DEF Home!NoLock
<1> HIDE DEF x
<1> QED
  BY <1>1, <1>2, <1>3, <1>4, <1>5, EndKept DEF StageHolds

LEMMA KilledKept == ASSUME HomeInv, NEW p \in Processes, Home!Killed(p) PROVE HomeInv'
<1>1. HomeTypes /\ proc[p] \in CommandRecords
  BY DEF HomeInv, HomeTypes
<1> DEFINE x == [Home!Resting EXCEPT !.at = "ended", !.result = "killed", !.op = proc[p].op]
<1>2. proc' = [proc EXCEPT ![p] = x]
  BY DEF Home!Killed
<1>3. x \in CommandRecords
  BY <1>1, RestingIsCommand DEF CommandRecords, Stages
<1>4. x.at = "ended" /\ x.wrote = {} /\ x.result = "killed"
  BY RestingIsCommand DEF CommandRecords
<1>5. UNCHANGED <<file, lock, inodes>>
  BY DEF Home!Killed
<1> HIDE DEF x
<1> QED
  BY <1>2, <1>3, <1>4, <1>5, EndKept

LEMMA ReadConfigKept == ASSUME HomeInv, NEW p \in Processes, Home!ReadConfig(p) PROVE HomeInv'
<1>1. HomeTypes /\ StageHolds(p) /\ LoadHolds(p) /\ proc[p] \in CommandRecords /\ proc[p].at = "read config"
  BY DEF HomeInv, HomeTypes, Home!ReadConfig
<1>2. UNCHANGED <<file, lock, inodes>> /\ file["config"] \in Versions
  BY <1>1 DEF Home!ReadConfig, HomeTypes, Home!Files
<1>3. CASE file["config"].id # 0 /\ ~file["config"].whole
  <2> DEFINE x == [proc[p] EXCEPT !.config = file["config"], !.at = "ended", !.result = "refused"]
  <2>1. proc' = [proc EXCEPT ![p] = x]
    BY <1>1, <1>3 DEF Home!ReadConfig, HomeTypes
  <2>2. x \in CommandRecords
    BY <1>1, <1>2 DEF CommandRecords, Stages
  <2>3. x.at = "ended" /\ x.op = proc[p].op /\ x.wrote = proc[p].wrote /\ x.result = "refused"
    BY <1>1 DEF CommandRecords
  <2> HIDE DEF x
  <2> QED
    BY <1>1, <1>2, <2>1, <2>2, <2>3, EndKept DEF StageHolds
<1>4. CASE ~(file["config"].id # 0 /\ ~file["config"].whole)
  <2> DEFINE x == [proc[p] EXCEPT !.config = file["config"],
                                  !.at = IF proc[p].op = "load" THEN "template again" ELSE "read secrets"]
  <2>1. proc' = [proc EXCEPT ![p] = x]
    BY <1>1, <1>4 DEF Home!ReadConfig, HomeTypes, CommandRecords
  <2>2. x \in CommandRecords
    BY <1>1, <1>2 DEF CommandRecords, Stages
  <2>3. /\ x.at = (IF proc[p].op = "load" THEN "template again" ELSE "read secrets") /\ x.op = proc[p].op
        /\ x.wrote = proc[p].wrote /\ x.result = proc[p].result /\ x.config = file["config"]
    BY <1>1 DEF CommandRecords
  <2> HIDE DEF x
  <2>4. proc'[p] = x
    BY <1>1, <2>1 DEF HomeTypes
  <2>5. StageHolds(p)'
    BY <1>1, <1>2, <2>3, <2>4 DEF StageHolds, Held, Making, Replacing
  <2>6. MakingHolds(p)' /\ ReplacingHolds(p)'
    BY <2>3, <2>4 DEF MakingHolds, ReplacingHolds, Replacing
  <2>7. LoadHolds(p)'
    <3> SUFFICES ASSUME Loads(p)' PROVE LoadHolds(p)'
      BY DEF LoadHolds
    <3>1. Loads(p) /\ file' = file
      BY <1>1, <1>2, <2>3, <2>4 DEF Loads
    <3>2. ReadOfToken(p)' = ReadOfToken(p)
      BY <1>1, <1>2, <2>3, <2>4, <3>1 DEF ReadOfToken
    <3>3. \A q \in Processes \ {p} : proc'[q] = proc[q]
      BY <1>1, <2>1 DEF HomeTypes
    <3>4. \A q \in Processes : ~MayRemove(q)' /\ (proc'[q].at \in Replacing /\ ReadOfToken(p) => proc'[q].secrets.token)
      BY <1>1, <2>3, <2>4, <3>1, <3>3 DEF LoadHolds, MayRemove, Replacing
    <3> QED
      BY <1>1, <3>1, <3>2, <3>4 DEF LoadHolds
  <2>8. x.at \notin Held \cup {"write template", "write secrets"}
    BY <2>3 DEF Held, Making, Replacing
  <2> QED
    BY <1>2, <2>1, <2>2, <2>5, <2>6, <2>7, <2>8, RestsKept DEF Held
<1> QED
  BY <1>3, <1>4

LEMMA ReadSecretsKept == ASSUME HomeInv, NEW p \in Processes, Home!ReadSecrets(p) PROVE HomeInv'
<1>1. HomeTypes /\ StageHolds(p) /\ LoadHolds(p) /\ proc[p] \in CommandRecords /\ proc[p].at = "read secrets"
  BY DEF HomeInv, HomeTypes, Home!ReadSecrets
<1>2. UNCHANGED <<file, lock, inodes>> /\ file["secrets"] \in Versions
  BY <1>1 DEF Home!ReadSecrets, HomeTypes, Home!Files
<1>3. CASE proc[p].op = "load"
  <2> DEFINE x == [proc[p] EXCEPT !.secrets = file["secrets"], !.at = "ended", !.result = "loaded"]
  <2>1. proc' = [proc EXCEPT ![p] = x]
    BY <1>1, <1>3 DEF Home!ReadSecrets, HomeTypes
  <2>2. x \in CommandRecords
    BY <1>1, <1>2 DEF CommandRecords, Stages
  <2>3. /\ x.at = "ended" /\ x.op = proc[p].op /\ x.wrote = proc[p].wrote
        /\ x.config = proc[p].config /\ x.secrets = file["secrets"]
    BY <1>1 DEF CommandRecords
  <2> HIDE DEF x
  <2>4. x.config.token => x.secrets.token
    BY <1>1, <1>3, <2>3 DEF LoadHolds, Loads, ReadOfToken
  <2> QED
    BY <1>1, <1>2, <2>1, <2>2, <2>3, <2>4, EndKept DEF StageHolds
<1>4. CASE proc[p].op # "load"
  <2> DEFINE x == [proc[p] EXCEPT !.secrets = file["secrets"], !.at = "asking"]
  <2>1. proc' = [proc EXCEPT ![p] = x]
    BY <1>1, <1>4 DEF Home!ReadSecrets, HomeTypes, CommandRecords
  <2>2. x \in CommandRecords
    BY <1>1, <1>2 DEF CommandRecords, Stages
  <2>3. /\ x.at = "asking" /\ x.op = proc[p].op /\ x.wrote = proc[p].wrote /\ x.result = proc[p].result
    BY <1>1 DEF CommandRecords
  <2> HIDE DEF x
  <2>4. proc'[p] = x
    BY <1>1, <2>1 DEF HomeTypes
  <2>5. StageHolds(p)'
    BY <1>1, <1>2, <1>4, <2>3, <2>4 DEF StageHolds, Held, Making, Replacing
  <2>6. MakingHolds(p)' /\ ReplacingHolds(p)' /\ LoadHolds(p)'
    BY <2>3, <2>4 DEF MakingHolds, ReplacingHolds, LoadHolds, Loads, Replacing
  <2>7. x.at \notin Held \cup {"write template", "write secrets"}
    BY <2>3 DEF Held, Making, Replacing
  <2> QED
    BY <1>2, <2>1, <2>2, <2>5, <2>6, <2>7, RestsKept DEF Held
<1> QED
  BY <1>3, <1>4

LEMMA AnswerKept == ASSUME HomeInv, NEW p \in Processes, Home!Answer(p) PROVE HomeInv'
<1>1. HomeTypes /\ StageHolds(p) /\ proc[p] \in CommandRecords /\ proc[p].at = "asking"
  BY DEF HomeInv, HomeTypes, Home!Answer
<1>2. UNCHANGED <<file, lock, inodes>>
  BY DEF Home!Answer
<1>3. CASE Home!Goes(p, "lock")
  <2> DEFINE x == [proc[p] EXCEPT !.at = "lock"]
  <2>1. proc' = [proc EXCEPT ![p] = x]
    BY <1>1, <1>3 DEF Home!Goes, HomeTypes
  <2>2. x \in CommandRecords
    BY <1>1, <1>2 DEF CommandRecords, Stages
  <2>3. /\ x.at = "lock" /\ x.op = proc[p].op /\ x.wrote = proc[p].wrote /\ x.result = proc[p].result
    BY <1>1 DEF CommandRecords
  <2> HIDE DEF x
  <2>4. proc'[p] = x
    BY <1>1, <2>1 DEF HomeTypes
  <2>5. StageHolds(p)'
    BY <1>1, <1>2, <2>3, <2>4 DEF StageHolds, Held, Making, Replacing
  <2>6. MakingHolds(p)' /\ ReplacingHolds(p)' /\ LoadHolds(p)'
    BY <2>3, <2>4 DEF MakingHolds, ReplacingHolds, LoadHolds, Loads, Replacing
  <2>7. x.at \notin Held \cup {"write template", "write secrets"}
    BY <2>3 DEF Held, Making, Replacing
  <2> QED
    BY <1>2, <2>1, <2>2, <2>5, <2>6, <2>7, RestsKept DEF Held
<1>4. CASE Home!To(p, "ended", "cancelled")
  <2> DEFINE x == [proc[p] EXCEPT !.at = "ended", !.result = "cancelled"]
  <2>1. proc' = [proc EXCEPT ![p] = x]
    BY <1>1, <1>4 DEF Home!To, HomeTypes
  <2>2. x \in CommandRecords
    BY <1>1 DEF CommandRecords, Stages
  <2>3. x.at = "ended" /\ x.op = proc[p].op /\ x.wrote = proc[p].wrote /\ x.result = "cancelled"
    BY <1>1 DEF CommandRecords
  <2> HIDE DEF x
  <2> QED
    BY <1>1, <1>2, <2>1, <2>2, <2>3, EndKept DEF StageHolds
<1> QED
  BY <1>3, <1>4 DEF Home!Answer

LEMMA FileChanged ==
  ASSUME HomeInv, NEW f \in Home!Files, inodes' \in {inodes, inodes + 1}, NEW v \in Versions',
         file' = [file EXCEPT ![f] = v]
  PROVE  /\ file' \in [Home!Files -> Versions'] /\ file'[f] = v
         /\ \A g \in Home!Files \ {f} : file'[g] = file[g]
<1>1. file \in [Home!Files -> Versions] /\ inodes \in Nat
  BY DEF HomeInv, HomeTypes
<1>2. \A x \in Versions : x \in Versions'
  BY <1>1, VersionsGrow
<1> QED
  BY <1>1, <1>2

LEMMA FileSame ==
  ASSUME HomeInv, UNCHANGED <<file, inodes>> PROVE file' \in [Home!Files -> Versions'] /\ file' = file
<1>1. Versions' = Versions
  BY DEF Versions
<1> QED
  BY <1>1 DEF HomeInv, HomeTypes

(* What a step of the holder of the lock starts from.                      *)
LEMMA HolderFacts ==
  ASSUME HomeInv, NEW p \in Processes, proc[p].at \in Held
  PROVE  /\ HomeTypes /\ proc[p] \in CommandRecords /\ lock = p /\ lock # None
         /\ StageHolds(p) /\ MakingHolds(p) /\ ReplacingHolds(p) /\ LoadHolds(p)
         /\ proc[p].at \notin Making => (file["config"].token => file["secrets"].token)
         /\ file["config"] \in Versions /\ file["secrets"] \in Versions
         /\ proc[p].config \in Versions /\ proc[p].secrets \in Versions
         /\ proc[p].before \in [Home!Files -> Versions]
         /\ \A q \in Processes \ {p} : proc[q].at \notin Held
<1>1. /\ HomeTypes /\ StageHolds(p) /\ MakingHolds(p) /\ ReplacingHolds(p) /\ LoadHolds(p)
      /\ lock = p /\ lock # None /\ \A q \in Processes \ {p} : proc[q].at \notin Held
  BY OneHolder DEF HomeInv
<1>2. proc[p] \in CommandRecords /\ file["config"] \in Versions /\ file["secrets"] \in Versions
  BY <1>1 DEF HomeTypes, Home!Files
<1>3. proc[p].config \in Versions /\ proc[p].secrets \in Versions /\ proc[p].before \in [Home!Files -> Versions]
  BY <1>2 DEF CommandRecords
<1>4. proc[p].at \notin Making => (file["config"].token => file["secrets"].token)
  BY DEF HomeInv, TokenHolds
<1> QED
  BY <1>1, <1>2, <1>3, <1>4

(* The holder goes on, the files stay.                                     *)
LEMMA HolderGoes ==
  ASSUME HomeInv, NEW p \in Processes, NEW x \in CommandRecords, proc' = [proc EXCEPT ![p] = x],
         proc[p].at \in Held, lock' = lock \/ lock' = None, UNCHANGED <<file, inodes>>,
         lock' = None \/ x.at \in Held \ Making => (file["config"].token => file["secrets"].token),
         StageHolds(p)', MakingHolds(p)', ReplacingHolds(p)',
         Loads(p)' => file["secrets"] # Home!Absent /\ (ReadOfToken(p)' => file["secrets"].token),
         x.at \notin {"write template", "write secrets", "config", "restore"},
         x.at = "secrets" => x.secrets = file["secrets"]
  PROVE  HomeInv'
<1>1. HomeTypes /\ proc'[p] = x /\ \A q \in Processes \ {p} : proc'[q] = proc[q] /\ proc[q].at \notin Held
  BY HolderFacts DEF HomeTypes
<1>2. file' = file /\ file' \in [Home!Files -> Versions']
  BY FileSame
<1>3. ~MayRemove(p)' /\ x.at \notin Replacing \ {"secrets"}
  BY <1>1 DEF MayRemove, Replacing
<1>4. LoadHolds(p)'
  <2> SUFFICES ASSUME Loads(p)' PROVE LoadHolds(p)'
    BY DEF LoadHolds
  <2>1. x.at \notin Replacing
    BY <1>1 DEF Loads, Replacing
  <2>2. \A q \in Processes : ~MayRemove(q)' /\ proc'[q].at \notin Replacing
    BY <1>1, <1>3, <2>1 DEF MayRemove, Held, Making, Replacing
  <2> QED
    BY <1>2, <2>2 DEF LoadHolds
<1>5. ASSUME NEW q \in Processes \ {p} PROVE Leaves(p, q)
  <2>1. LoadHolds(q) /\ proc'[q] = proc[q]
    BY <1>1 DEF HomeInv
  <2>2. ReadOfToken(q)' = ReadOfToken(q)
    BY <1>2, <2>1 DEF ReadOfToken
  <2> QED
    BY <1>1, <1>2, <1>3, <2>1, <2>2 DEF LoadHolds, Leaves
<1> QED
  BY <1>1, <1>2, <1>4, <1>5, HolderKept

LEMMA ReleaseKept == ASSUME HomeInv, NEW p \in Processes, Home!Release(p) PROVE HomeInv'
<1> DEFINE there == IF proc[p].op = "load" /\ proc[p].result = "none" THEN "read config" ELSE "ended"
           x == [proc[p] EXCEPT !.at = there]
<1>1. proc[p].at = "release" /\ proc[p].at \in Held \ Making /\ UNCHANGED <<file, inodes>> /\ Home!Goes(p, there)
  BY DEF Home!Release, Held, Making
<1>2. HomeTypes /\ StageHolds(p) /\ LoadHolds(p) /\ proc[p] \in CommandRecords /\ lock = p
  BY <1>1, HolderFacts
<1>3. proc' = [proc EXCEPT ![p] = x] /\ lock' = None
  BY <1>1, <1>2 DEF Home!Goes, Home!Release
<1>4. x \in CommandRecords
  BY <1>2 DEF CommandRecords, Stages
<1>5. x.at = there /\ x.op = proc[p].op /\ x.wrote = proc[p].wrote /\ x.result = proc[p].result
  BY <1>2 DEF CommandRecords
<1> HIDE DEF x
<1>6. proc'[p] = x
  BY <1>2, <1>3 DEF HomeTypes
<1>7. StageHolds(p)'
  BY <1>1, <1>2, <1>5, <1>6 DEF StageHolds, Held, Making, Replacing
<1>8. MakingHolds(p)' /\ ReplacingHolds(p)'
  BY <1>5, <1>6 DEF MakingHolds, ReplacingHolds, Replacing
<1>9. Loads(p)' => file["secrets"] # Home!Absent /\ (ReadOfToken(p)' => file["secrets"].token)
  BY <1>1, <1>2, <1>5, <1>6 DEF LoadHolds, Loads, ReadOfToken
<1>10. x.at \notin {"write template", "write secrets", "config", "restore", "secrets"}
  BY <1>5
<1>11. file["config"].token => file["secrets"].token
  BY <1>1, HolderFacts
<1> HIDE DEF there
<1> QED
  BY <1>1, <1>3, <1>4, <1>7, <1>8, <1>9, <1>10, <1>11, HolderGoes

LEMMA LookKept == ASSUME HomeInv, NEW p \in Processes, Home!Look(p) PROVE HomeInv'
<1>1. proc[p].at = "look" /\ proc[p].at \in Held \ Making /\ lock' = lock
  BY DEF Home!Look, Held, Making
<1>2. /\ HomeTypes /\ StageHolds(p) /\ proc[p] \in CommandRecords /\ lock # None /\ inodes \in Nat
      /\ file["config"].token => file["secrets"].token
  BY <1>1, HolderFacts DEF HomeTypes
<1>3. CASE file["config"] = Home!Absent
  <2> DEFINE x == [proc[p] EXCEPT !.at = "write config"]
             tells == proc[p].key /\ file["secrets"] = Home!Absent
             v == Home!Made(FALSE, tells)
  <2>1. proc' = [proc EXCEPT ![p] = x] /\ file' = [file EXCEPT !["config"] = v] /\ inodes' = inodes + 1
    BY <1>2, <1>3 DEF Home!Look, Home!Goes
  <2>2. x \in CommandRecords /\ tells \in BOOLEAN
    BY <1>2 DEF CommandRecords, Stages, Held, Making
  <2>3. x.at = "write config" /\ x.op = proc[p].op /\ x.wrote = proc[p].wrote /\ x.result = proc[p].result /\ x.key = proc[p].key
    BY <1>2 DEF CommandRecords
  <2>4. v \in Versions' /\ v.id = inodes + 1 /\ v.token = tells
    BY <1>2, <2>1, <2>2, MadeIsVersion
  <2> HIDE DEF x, v
  <2>5. /\ file' \in [Home!Files -> Versions'] /\ file'["config"] = v /\ file'["secrets"] = file["secrets"]
        /\ inodes' \in {inodes, inodes + 1}
    BY <2>1, <2>4, FileChanged DEF Home!Files
  <2>6. proc'[p] = x
    BY <1>2, <2>1 DEF HomeTypes
  <2>7. StageHolds(p)'
    BY <1>1, <1>2, <2>3, <2>6 DEF StageHolds, Held, Making, Replacing
  <2>8. MakingHolds(p)'
    <3>1. inodes + 1 # 0
      BY <1>2
    <3> QED
      BY <2>3, <2>4, <2>5, <2>6, <3>1 DEF MakingHolds
  <2>9. ReplacingHolds(p)' /\ LoadHolds(p)' /\ ~MayRemove(p)'
    BY <2>3, <2>6 DEF ReplacingHolds, LoadHolds, Loads, MayRemove, Replacing
  <2>10. ASSUME NEW q \in Processes \ {p} PROVE Leaves(p, q)
    <3> SUFFICES ASSUME Loads(q) PROVE Leaves(p, q)
      BY DEF Leaves
    <3>1. LoadHolds(q) /\ proc'[q] = proc[q]
      BY <1>2, <2>1 DEF HomeInv, HomeTypes
    <3>2. file["secrets"] # Home!Absent
      BY <3>1 DEF LoadHolds
    <3>3. ReadOfToken(q)' => ReadOfToken(q)
      BY <2>4, <2>5, <3>1, <3>2 DEF ReadOfToken
    <3> QED
      BY <2>3, <2>5, <2>6, <2>9, <3>1, <3>2, <3>3 DEF LoadHolds, Leaves, Replacing
  <2>11. ~(lock' = None \/ x.at \in Held \ Making)
    BY <1>1, <1>2, <2>3 DEF Making
  <2> QED
    BY <1>1, <2>1, <2>2, <2>5, <2>7, <2>8, <2>9, <2>10, <2>11, HolderKept
<1>4. CASE file["config"] # Home!Absent
  <2> DEFINE x == IF proc[p].op = "init" THEN [proc[p] EXCEPT !.at = "release", !.result = "refused"]
                                         ELSE [proc[p] EXCEPT !.at = "template"]
  <2>1. proc' = [proc EXCEPT ![p] = x] /\ UNCHANGED <<file, inodes>>
    BY <1>2, <1>4 DEF Home!Look, Home!Goes, Home!To
  <2>2. x \in CommandRecords
    BY <1>2 DEF CommandRecords, Stages, Held
  <2>3. /\ x.op = proc[p].op /\ x.wrote = proc[p].wrote /\ x.op # "setup"
        /\ \/ x.at = "release" /\ x.result = "refused"
           \/ x.at = "template" /\ x.result = proc[p].result
    BY <1>1, <1>2 DEF CommandRecords, StageHolds
  <2> HIDE DEF x
  <2>4. proc'[p] = x
    BY <1>2, <2>1 DEF HomeTypes
  <2>5. StageHolds(p)'
    BY <1>1, <1>2, <2>3, <2>4 DEF StageHolds, Held, Making, Replacing
  <2>6. MakingHolds(p)' /\ ReplacingHolds(p)' /\ ~Loads(p)'
    BY <2>3, <2>4 DEF MakingHolds, ReplacingHolds, Loads, Replacing
  <2>7. x.at \notin {"write template", "write secrets", "config", "restore", "secrets"}
    BY <2>3
  <2> QED
    BY <1>1, <1>2, <2>1, <2>2, <2>5, <2>6, <2>7, HolderGoes
<1> QED
  BY <1>3, <1>4

LEMMA WriteConfigKept == ASSUME HomeInv, NEW p \in Processes, Home!WriteConfig(p) PROVE HomeInv'
<1>1. proc[p].at = "write config" /\ proc[p].at \in Held /\ lock' = lock /\ inodes' = inodes
  BY DEF Home!WriteConfig, Held, Making
<1>2. /\ HomeTypes /\ StageHolds(p) /\ MakingHolds(p) /\ proc[p] \in CommandRecords /\ lock # None
      /\ inodes \in Nat /\ file["config"] \in Versions
  BY <1>1, HolderFacts DEF HomeTypes
<1>3. CASE file' = [file EXCEPT !["config"].whole = TRUE] /\ Home!Goes(p, "new secrets")
  <2> DEFINE x == [proc[p] EXCEPT !.at = "new secrets"]
             v == [file["config"] EXCEPT !.whole = TRUE]
  <2>1. proc' = [proc EXCEPT ![p] = x] /\ file' = [file EXCEPT !["config"] = v]
    BY <1>2, <1>3 DEF Home!Goes, HomeTypes, Home!Files
  <2>2. x \in CommandRecords
    BY <1>2 DEF CommandRecords, Stages, Held, Making
  <2>3. x.at = "new secrets" /\ x.op = proc[p].op /\ x.wrote = proc[p].wrote /\ x.result = proc[p].result /\ x.key = proc[p].key
    BY <1>2 DEF CommandRecords
  <2>4. v \in Versions /\ v.token = file["config"].token
    BY <1>1, <1>2 DEF Versions, FileRecords, MakingHolds
  <2>5. v \in Versions'
    BY <1>1, <1>2, <2>4, VersionsGrow
  <2> HIDE DEF x, v
  <2>6. file' \in [Home!Files -> Versions'] /\ file'["config"] = v /\ file'["secrets"] = file["secrets"]
    BY <1>1, <2>1, <2>5, FileChanged DEF Home!Files
  <2>7. proc'[p] = x
    BY <1>2, <2>1 DEF HomeTypes
  <2>8. StageHolds(p)'
    BY <1>1, <1>2, <2>3, <2>7 DEF StageHolds, Held, Making, Replacing
  <2>9. MakingHolds(p)'
    BY <1>1, <1>2, <2>3, <2>4, <2>6, <2>7 DEF MakingHolds
  <2>10. ReplacingHolds(p)' /\ LoadHolds(p)' /\ ~MayRemove(p)'
    BY <2>3, <2>7 DEF ReplacingHolds, LoadHolds, Loads, MayRemove, Replacing
  <2>11. ASSUME NEW q \in Processes \ {p} PROVE Leaves(p, q)
    <3>1. LoadHolds(q) /\ proc'[q] = proc[q]
      BY <1>2, <2>1 DEF HomeInv, HomeTypes
    <3>2. ReadOfToken(q)' => ReadOfToken(q)
      BY <2>4, <2>6, <3>1 DEF ReadOfToken
    <3> QED
      BY <2>3, <2>6, <2>7, <2>10, <3>1, <3>2 DEF LoadHolds, Leaves, Replacing
  <2>12. ~(lock' = None \/ x.at \in Held \ Making)
    BY <1>1, <1>2, <2>3 DEF Making
  <2> QED
    BY <1>1, <2>1, <2>2, <2>6, <2>8, <2>9, <2>10, <2>11, <2>12, HolderKept
<1>4. CASE file' = [file EXCEPT !["config"] = Home!Absent] /\ Home!To(p, "release", "failed")
  <2> DEFINE x == [proc[p] EXCEPT !.at = "release", !.result = "failed"]
  <2>1. proc' = [proc EXCEPT ![p] = x]
    BY <1>2, <1>4 DEF Home!To
  <2>2. x \in CommandRecords
    BY <1>2 DEF CommandRecords, Stages, Held
  <2>3. x.at = "release" /\ x.op = proc[p].op /\ x.wrote = proc[p].wrote /\ x.result = "failed" /\ x.op # "setup"
    BY <1>1, <1>2 DEF CommandRecords, StageHolds, Making
  <2>4. Home!Absent \in Versions' /\ Home!Absent.token = FALSE
    BY <1>1, <1>2, AbsentIsVersion, VersionsGrow DEF Home!Absent
  <2> HIDE DEF x
  <2>5. /\ file' \in [Home!Files -> Versions'] /\ file'["config"] = Home!Absent
        /\ file'["secrets"] = file["secrets"]
    BY <1>1, <1>4, <2>4, FileChanged DEF Home!Files
  <2>6. proc'[p] = x
    BY <1>2, <2>1 DEF HomeTypes
  <2>7. StageHolds(p)'
    BY <1>1, <1>2, <2>3, <2>6 DEF StageHolds, Held, Making, Replacing
  <2>8. MakingHolds(p)' /\ ReplacingHolds(p)' /\ LoadHolds(p)' /\ ~MayRemove(p)'
    BY <2>3, <2>6 DEF MakingHolds, ReplacingHolds, LoadHolds, Loads, MayRemove, Replacing
  <2>9. ASSUME NEW q \in Processes \ {p} PROVE Leaves(p, q)
    <3>1. LoadHolds(q) /\ proc'[q] = proc[q]
      BY <1>2, <2>1 DEF HomeInv, HomeTypes
    <3>2. ReadOfToken(q)' => ReadOfToken(q)
      BY <2>4, <2>5, <3>1 DEF ReadOfToken
    <3> QED
      BY <2>3, <2>5, <2>6, <2>8, <3>1, <3>2 DEF LoadHolds, Leaves, Replacing
  <2> QED
    BY <1>1, <2>1, <2>2, <2>4, <2>5, <2>7, <2>8, <2>9, HolderKept
<1> QED
  BY <1>3, <1>4 DEF Home!WriteConfig

(* A load that looks once more finds the secrets that are there.           *)
LEMMA CreateSecretsKept == ASSUME HomeInv, NEW p \in Processes, Home!CreateSecrets(p) PROVE HomeInv'
<1>1. /\ HomeTypes /\ StageHolds(p) /\ MakingHolds(p) /\ LoadHolds(p) /\ proc[p] \in CommandRecords /\ lock' = lock
      /\ inodes \in Nat
  BY DEF HomeInv, HomeTypes, Home!CreateSecrets
<1>2. CASE proc[p].at = "template again"
  <2> DEFINE x == [proc[p] EXCEPT !.at = "read secrets"]
  <2>1. Loads(p) /\ file["secrets"] # Home!Absent
    BY <1>1, <1>2 DEF StageHolds, Loads, LoadHolds
  <2>2. proc' = [proc EXCEPT ![p] = x] /\ UNCHANGED <<file, inodes>>
    BY <1>2, <2>1 DEF Home!CreateSecrets, Home!Goes, Home!After, Home!Locked
  <2>3. x \in CommandRecords
    BY <1>1 DEF CommandRecords, Stages
  <2>4. /\ x.at = "read secrets" /\ x.op = proc[p].op /\ x.wrote = proc[p].wrote /\ x.result = proc[p].result
        /\ x.config = proc[p].config
    BY <1>1 DEF CommandRecords
  <2> HIDE DEF x
  <2>5. proc'[p] = x /\ \A q \in Processes \ {p} : proc'[q] = proc[q]
    BY <1>1, <2>2 DEF HomeTypes
  <2>6. StageHolds(p)'
    BY <1>1, <1>2, <2>4, <2>5 DEF StageHolds, Held, Making, Replacing
  <2>7. MakingHolds(p)' /\ ReplacingHolds(p)'
    BY <2>4, <2>5 DEF MakingHolds, ReplacingHolds, Replacing
  <2>8. LoadHolds(p)'
    <3>1. file' = file
      BY <2>2
    <3>2. ReadOfToken(p)' => ReadOfToken(p)
      BY <1>2, <2>4, <2>5, <3>1 DEF ReadOfToken
    <3>3. \A q \in Processes : ~MayRemove(q)' /\ (proc'[q].at \in Replacing /\ ReadOfToken(p) => proc'[q].secrets.token)
      BY <1>1, <2>1, <2>4, <2>5 DEF LoadHolds, MayRemove, Replacing
    <3> QED
      BY <1>1, <2>1, <3>1, <3>2, <3>3 DEF LoadHolds
  <2>9. x.at \notin Held \cup {"write template", "write secrets"}
    BY <2>4 DEF Held, Making, Replacing
  <2> QED
    BY <1>1, <2>2, <2>3, <2>6, <2>7, <2>8, <2>9, RestsKept DEF Held
<1>3. CASE proc[p].at \in {"template", "new secrets"} /\ file["secrets"] # Home!Absent
  <2> DEFINE x == [proc[p] EXCEPT !.at = "release"]
  <2>1. proc[p].at \in Held /\ proc[p].op # "setup" /\ proc[p].result = "none"
    BY <1>1, <1>3 DEF Held, Making, StageHolds
  <2>2. proc' = [proc EXCEPT ![p] = x] /\ UNCHANGED <<file, inodes>>
    BY <1>3 DEF Home!CreateSecrets, Home!Goes, Home!After, Home!Locked
  <2>3. x \in CommandRecords
    BY <1>1 DEF CommandRecords, Stages, Held
  <2>4. x.at = "release" /\ x.op = proc[p].op /\ x.wrote = proc[p].wrote /\ x.result = proc[p].result
    BY <1>1 DEF CommandRecords
  <2> HIDE DEF x
  <2>5. proc'[p] = x
    BY <1>1, <2>2 DEF HomeTypes
  <2>6. file["config"].token => file["secrets"].token
    <3>1. CASE proc[p].at = "template"
      BY <2>1, <3>1, HolderFacts DEF Making
    <3>2. CASE proc[p].at = "new secrets"
      BY <1>1, <1>3, <3>2 DEF MakingHolds
    <3> QED
      BY <1>3, <3>1, <3>2
  <2>7. StageHolds(p)'
    BY <1>1, <1>3, <2>1, <2>4, <2>5 DEF StageHolds, Held, Making, Replacing
  <2>8. MakingHolds(p)' /\ ReplacingHolds(p)'
    BY <2>1, <2>4, <2>5 DEF MakingHolds, ReplacingHolds, Replacing
  <2>9. ReadOfToken(p)' => file["secrets"].token
    BY <2>2, <2>4, <2>5, <2>6 DEF ReadOfToken
  <2>10. x.at \notin {"write template", "write secrets", "config", "restore", "secrets"}
    BY <2>4
  <2> QED
    BY <1>1, <1>3, <2>1, <2>2, <2>3, <2>6, <2>7, <2>8, <2>9, <2>10, HolderGoes
<1>4. CASE proc[p].at \in {"template", "new secrets"} /\ file["secrets"] = Home!Absent
  <2> DEFINE there == IF proc[p].at = "template" THEN "write template" ELSE "write secrets"
             x == [proc[p] EXCEPT !.at = there]
             v == Home!Made(FALSE, FALSE)
  <2>1. proc[p].at \in Held /\ proc[p].op # "setup" /\ proc[p].result = "none"
    BY <1>1, <1>4 DEF Held, Making, StageHolds
  <2>2. proc' = [proc EXCEPT ![p] = x] /\ file' = [file EXCEPT !["secrets"] = v] /\ inodes' = inodes + 1
    BY <1>4 DEF Home!CreateSecrets, Home!Goes
  <2>3. x \in CommandRecords
    BY <1>1 DEF CommandRecords, Stages, Held, Making
  <2>4. x.at = there /\ x.op = proc[p].op /\ x.wrote = proc[p].wrote /\ x.result = proc[p].result /\ x.key = proc[p].key
    BY <1>1 DEF CommandRecords
  <2>5. v \in Versions' /\ v.id = inodes + 1 /\ v.token = FALSE
    BY <1>1, <2>2, MadeIsVersion
  <2> HIDE DEF x, v
  <2>6. /\ file' \in [Home!Files -> Versions'] /\ file'["secrets"] = v /\ file'["config"] = file["config"]
        /\ inodes' \in {inodes, inodes + 1}
    BY <2>2, <2>5, FileChanged DEF Home!Files
  <2>7. proc'[p] = x
    BY <1>1, <2>2 DEF HomeTypes
  <2>8. StageHolds(p)'
    BY <1>1, <1>4, <2>1, <2>4, <2>7 DEF StageHolds, Held, Making, Replacing
  <2>9. MakingHolds(p)'
    <3>1. inodes + 1 # 0
      BY <1>1
    <3>2. proc[p].at = "new secrets" /\ file["config"].token => proc[p].key
      BY <1>1 DEF MakingHolds
    <3> QED
      BY <1>4, <2>4, <2>5, <2>6, <2>7, <3>1, <3>2 DEF MakingHolds
  <2>10. ReplacingHolds(p)' /\ LoadHolds(p)'
    BY <2>4, <2>7 DEF ReplacingHolds, LoadHolds, Loads, Replacing
  <2>11. \A q \in Processes \ {p} : Leaves(p, q)
    BY <1>4 DEF HomeInv, Leaves, LoadHolds
  <2>12. x.at \in Held \ Making => (file'["config"].token => file'["secrets"].token)
    <3>1. CASE proc[p].at = "template"
      <4>1. proc[p].at \notin Making
        BY <3>1 DEF Making
      <4>2. file["config"].token => file["secrets"].token
        BY <2>1, <4>1, HolderFacts
      <4>3. ~Home!Absent.token
        BY DEF Home!Absent
      <4> QED
        BY <1>4, <2>6, <4>2, <4>3
    <3>2. CASE proc[p].at = "new secrets"
      BY <2>4, <3>2 DEF Making
    <3> QED
      BY <1>4, <3>1, <3>2
  <2>13. lock' # None
    BY <1>1, <2>1, HolderFacts
  <2> QED
    BY <1>1, <2>1, <2>2, <2>3, <2>6, <2>8, <2>9, <2>10, <2>11, <2>12, <2>13, HolderKept
<1> QED
  BY <1>2, <1>3, <1>4 DEF Home!CreateSecrets, Home!Creates

LEMMA WriteSecretsKept == ASSUME HomeInv, NEW p \in Processes, Home!WriteSecrets(p) PROVE HomeInv'
<1>1. lock' = lock /\ inodes' = inodes /\ HomeTypes /\ proc[p] \in CommandRecords
  BY DEF HomeInv, HomeTypes, Home!WriteSecrets
<1>2. proc[p].at \in {"write template", "write secrets"}
  BY <1>1 DEF Home!WriteSecrets, CommandRecords, Stages, Held, Making, Replacing
<1>3. /\ StageHolds(p) /\ MakingHolds(p) /\ lock # None /\ inodes \in Nat /\ file["secrets"] \in Versions
      /\ file["config"] \in Versions /\ proc[p].at \in Held /\ proc[p].op # "setup" /\ proc[p].result = "none"
      /\ Home!Locked(p) /\ \A q \in Processes \ {p} : ~Loads(q)
  <2>1. proc[p].at \in Held /\ Home!Locked(p) /\ MayRemove(p)
    BY <1>2 DEF Held, Making, Home!Locked, MayRemove
  <2>2. StageHolds(p) /\ MakingHolds(p) /\ lock # None /\ file["secrets"] \in Versions /\ file["config"] \in Versions
    BY <2>1, HolderFacts
  <2>3. proc[p].op # "setup" /\ proc[p].result = "none"
    BY <1>2, <2>2 DEF StageHolds, Making
  <2>4. \A q \in Processes \ {p} : ~Loads(q)
    BY <2>1 DEF HomeInv, LoadHolds
  <2> QED
    BY <1>1, <2>1, <2>2, <2>3, <2>4 DEF HomeTypes
<1>4. proc[p].at = "write template" => ~file["config"].token
  BY <1>3, HolderFacts DEF MakingHolds, Making
<1>5. \A q \in Processes \ {p} : Leaves(p, q)
  BY <1>3 DEF Leaves
<1>6. CASE /\ file' = [file EXCEPT !["secrets"].whole = TRUE,
                                   !["secrets"].token = proc[p].at = "write secrets" /\ proc[p].key]
           /\ Home!Goes(p, Home!After(p))
  <2> DEFINE x == [proc[p] EXCEPT !.at = "release"]
             tells == proc[p].at = "write secrets" /\ proc[p].key
             v == [file["secrets"] EXCEPT !.whole = TRUE, !.token = tells]
  <2>1. proc' = [proc EXCEPT ![p] = x] /\ file' = [file EXCEPT !["secrets"] = v]
    BY <1>1, <1>3, <1>6 DEF Home!Goes, Home!After, HomeTypes, Home!Files
  <2>2. x \in CommandRecords /\ tells \in BOOLEAN
    BY <1>1 DEF CommandRecords, Stages, Held
  <2>3. x.at = "release" /\ x.op = proc[p].op /\ x.wrote = proc[p].wrote /\ x.result = proc[p].result
    BY <1>1 DEF CommandRecords
  <2>4. v \in Versions /\ v.token = tells /\ v # Home!Absent
    BY <1>2, <1>3, <2>2 DEF Versions, FileRecords, MakingHolds, Home!Absent
  <2>5. v \in Versions'
    BY <1>1, <1>3, <2>4, VersionsGrow
  <2>6. file["config"].token => tells
    BY <1>2, <1>3, <1>4 DEF MakingHolds
  <2> HIDE DEF x, v, tells
  <2>7. file' \in [Home!Files -> Versions'] /\ file'["secrets"] = v /\ file'["config"] = file["config"]
    BY <1>1, <2>1, <2>5, FileChanged DEF Home!Files
  <2>8. proc'[p] = x /\ \A q \in Processes \ {p} : proc'[q] = proc[q] /\ proc[q].at \notin Held
    BY <1>1, <1>3, <2>1, HolderFacts DEF HomeTypes
  <2>9. StageHolds(p)'
    BY <1>1, <1>2, <1>3, <2>3, <2>8 DEF StageHolds, Held, Making, Replacing
  <2>10. MakingHolds(p)' /\ ReplacingHolds(p)'
    BY <1>3, <2>3, <2>8 DEF MakingHolds, ReplacingHolds, Replacing
  <2>11. LoadHolds(p)'
    <3>1. \A q \in Processes : ~MayRemove(q)' /\ proc'[q].at \notin Replacing
      BY <2>3, <2>8 DEF MayRemove, Held, Making, Replacing
    <3>2. ReadOfToken(p)' => file'["secrets"].token
      BY <2>3, <2>4, <2>6, <2>7, <2>8 DEF ReadOfToken
    <3> QED
      BY <2>4, <2>7, <3>1, <3>2 DEF LoadHolds
  <2> QED
    BY <1>1, <1>3, <1>5, <2>1, <2>2, <2>4, <2>6, <2>7, <2>9, <2>10, <2>11, HolderKept
<1>7. CASE /\ file' = [file EXCEPT !["secrets"] = Home!Absent,
                                   !["config"] = IF proc[p].at = "write secrets" THEN Home!Absent ELSE @]
           /\ Home!To(p, IF Home!Locked(p) THEN "release" ELSE "ended", "failed")
  <2> DEFINE x == [proc[p] EXCEPT !.at = "release", !.result = "failed"]
  <2>1. proc' = [proc EXCEPT ![p] = x]
    BY <1>3, <1>7 DEF Home!To
  <2>2. x \in CommandRecords
    BY <1>1 DEF CommandRecords, Stages, Held
  <2>3. x.at = "release" /\ x.op = proc[p].op /\ x.wrote = proc[p].wrote /\ x.result = "failed"
    BY <1>1 DEF CommandRecords
  <2>4. Home!Absent \in Versions' /\ Home!Absent.token = FALSE /\ file["config"] \in Versions'
    BY <1>1, <1>3, AbsentIsVersion, VersionsGrow DEF Home!Absent
  <2> HIDE DEF x
  <2>5. /\ file' \in [Home!Files -> Versions'] /\ file'["secrets"] = Home!Absent
        /\ file'["config"] = IF proc[p].at = "write secrets" THEN Home!Absent ELSE file["config"]
    BY <1>1, <1>7, <2>4 DEF Home!Files, HomeTypes
  <2>6. ~file'["config"].token
    BY <1>2, <1>4, <2>4, <2>5
  <2>7. proc'[p] = x
    BY <1>1, <2>1 DEF HomeTypes
  <2>8. StageHolds(p)'
    BY <1>1, <1>2, <1>3, <2>3, <2>7 DEF StageHolds, Held, Making, Replacing
  <2>9. MakingHolds(p)' /\ ReplacingHolds(p)' /\ LoadHolds(p)'
    BY <1>3, <2>3, <2>7 DEF MakingHolds, ReplacingHolds, LoadHolds, Loads, Replacing
  <2> QED
    BY <1>1, <1>3, <1>5, <2>1, <2>2, <2>5, <2>6, <2>8, <2>9, HolderKept
<1> QED
  BY <1>6, <1>7 DEF Home!WriteSecrets

LEMMA PrepareKept == ASSUME HomeInv, NEW p \in Processes, Home!Prepare(p) PROVE HomeInv'
<1>1. proc[p].at = "prepare" /\ proc[p].at \in Held \ Making /\ UNCHANGED <<file, lock, inodes>>
  BY DEF Home!Prepare, Held, Making
<1>2. /\ HomeTypes /\ StageHolds(p) /\ ReplacingHolds(p) /\ proc[p] \in CommandRecords /\ proc[p].op = "setup"
      /\ proc[p].result = "none" /\ proc[p].wrote = {} /\ proc[p].before = file
  <2>1. HomeTypes /\ StageHolds(p) /\ ReplacingHolds(p) /\ proc[p] \in CommandRecords
    BY <1>1, HolderFacts
  <2> QED
    BY <1>1, <2>1 DEF StageHolds, ReplacingHolds
<1>3. file["config"].token => file["secrets"].token
  BY <1>1, HolderFacts
<1>4. CASE Home!Goes(p, "secrets") /\ \A f \in Home!Files : Home!Original(p, f)
  <2> DEFINE x == [proc[p] EXCEPT !.at = "secrets"]
  <2>1. proc' = [proc EXCEPT ![p] = x]
    BY <1>4 DEF Home!Goes
  <2>2. x \in CommandRecords
    BY <1>2 DEF CommandRecords, Stages, Held, Replacing
  <2>3. /\ x.at = "secrets" /\ x.op = proc[p].op /\ x.wrote = {} /\ x.result = "none" /\ x.before = file
        /\ x.config = proc[p].config /\ x.secrets = proc[p].secrets
    BY <1>2 DEF CommandRecords
  <2> HIDE DEF x
  <2>4. proc'[p] = x /\ file' = file
    BY <1>1, <1>2, <2>1 DEF HomeTypes
  <2>5. file["config"] = x.config /\ file["secrets"] = x.secrets
    BY <1>4, <2>3 DEF Home!Original, Home!Read, Home!Files
  <2>6. StageHolds(p)'
    BY <1>1, <1>2, <2>3, <2>4 DEF StageHolds, Held, Making, Replacing
  <2>7. MakingHolds(p)' /\ ~Loads(p)'
    BY <2>3, <2>4 DEF MakingHolds, Loads
  <2>8. ReplacingHolds(p)'
    BY <1>3, <2>3, <2>4, <2>5 DEF ReplacingHolds
  <2>9. x.at \notin {"write template", "write secrets", "config", "restore"}
    BY <2>3
  <2> QED
    BY <1>1, <1>3, <2>1, <2>2, <2>5, <2>6, <2>7, <2>8, <2>9, HolderGoes
<1>5. ASSUME NEW result \in {"refused", "failed"}, Home!To(p, "release", result) PROVE HomeInv'
  <2> DEFINE x == [proc[p] EXCEPT !.at = "release", !.result = result]
  <2>1. proc' = [proc EXCEPT ![p] = x]
    BY <1>5 DEF Home!To
  <2>2. x \in CommandRecords
    BY <1>2 DEF CommandRecords, Stages, Held
  <2>3. x.at = "release" /\ x.op = "setup" /\ x.wrote = {} /\ x.result = result /\ x.before = file
    BY <1>2 DEF CommandRecords
  <2> HIDE DEF x
  <2>4. proc'[p] = x /\ file' = file
    BY <1>1, <1>2, <2>1 DEF HomeTypes
  <2>5. StageHolds(p)'
    BY <1>1, <1>2, <2>3, <2>4 DEF StageHolds, Held, Making, Replacing
  <2>6. MakingHolds(p)' /\ ~Loads(p)' /\ ReplacingHolds(p)'
    BY <1>5, <2>3, <2>4 DEF MakingHolds, Loads, ReplacingHolds, Replacing
  <2>7. x.at \notin {"write template", "write secrets", "config", "restore", "secrets"}
    BY <2>3
  <2> QED
    BY <1>1, <1>3, <2>1, <2>2, <2>5, <2>6, <2>7, HolderGoes
<1> QED
  BY <1>4, <1>5 DEF Home!Prepare

(* A setup replaces a file by its own: what it comes from, and leads to.   *)
LEMMA Replaced ==
  ASSUME HomeInv, NEW p \in Processes, NEW f \in Home!Files, NEW next, Home!Replace(p, f, next), f \in Replacing
  PROVE  LET v == Home!Made(TRUE, Home!TokenOf(p, f)) IN
         /\ Home!Original(p, f) /\ file' = [file EXCEPT ![f] = v] /\ inodes' = inodes + 1
         /\ v \in Versions' /\ v # Home!Absent /\ v.token = Home!TokenOf(p, f)
         /\ \A y \in Versions : v.id > y.id
         /\ \/ proc' = [proc EXCEPT ![p].wrote = @ \cup {f}, ![p].at = next,
                                    ![p].result = IF f = "config" THEN "saved" ELSE @]
            \/ proc' = [proc EXCEPT ![p].wrote = @ \cup {f}, ![p].at = "restore"]
<1>1. proc[p].at = f /\ proc[p].at \in Held
  BY DEF Home!Replace, Held
<1>2. /\ HomeTypes /\ StageHolds(p) /\ ReplacingHolds(p) /\ proc[p] \in CommandRecords /\ inodes \in Nat
      /\ proc[p].secrets \in Versions /\ proc[p].config \in Versions
  BY <1>1, HolderFacts DEF HomeTypes
<1>3. Home!Original(p, f)
  <2>1. CASE f = "secrets"
    BY <1>1, <1>2, <2>1 DEF ReplacingHolds, Replacing, Home!Original, Home!Read
  <2>2. CASE f = "config"
    <3>1. proc[p].wrote = {"secrets"} /\ proc[p].result = "none"
      BY <1>1, <1>2, <2>2 DEF ReplacingHolds, StageHolds
    <3>2. file["config"] = proc[p].before["config"] /\ proc[p].before["config"] = proc[p].config
      BY <1>1, <1>2, <2>2, <3>1 DEF ReplacingHolds, Replacing, Home!Files
    <3> QED
      BY <2>2, <3>2 DEF Home!Original, Home!Read
  <2> QED
    BY <2>1, <2>2 DEF Home!Files
<1>4. Home!TokenOf(p, f) \in BOOLEAN
  BY DEF Home!TokenOf
<1>5. inodes' = inodes + 1 /\ file' = [file EXCEPT ![f] = Home!Made(TRUE, Home!TokenOf(p, f))]
  BY <1>3 DEF Home!Replace
<1>6. \/ proc' = [proc EXCEPT ![p].wrote = @ \cup {f}, ![p].at = next,
                              ![p].result = IF f = "config" THEN "saved" ELSE @]
      \/ proc' = [proc EXCEPT ![p].wrote = @ \cup {f}, ![p].at = "restore"]
  BY <1>3 DEF Home!Replace
<1> QED
  BY <1>2, <1>3, <1>4, <1>5, <1>6, MadeIsVersion

LEMMA ReplaceSecretsKept == ASSUME HomeInv, NEW p \in Processes, Home!ReplaceSecrets(p) PROVE HomeInv'
<1>1. proc[p].at = "secrets" /\ proc[p].at \in Held \ Making /\ lock' = lock
  BY DEF Home!ReplaceSecrets, Home!Replace, Held, Making, Replacing
<1>2. /\ HomeTypes /\ StageHolds(p) /\ ReplacingHolds(p) /\ proc[p] \in CommandRecords
      /\ proc[p].op = "setup" /\ proc[p].result = "none" /\ proc[p].wrote = {} /\ proc[p].before = file
      /\ proc[p].before["config"] = proc[p].config /\ proc[p].before["secrets"] = proc[p].secrets
      /\ (file["config"].token \/ proc[p].config.token => proc[p].secrets.token)
      /\ file["secrets"] \in Versions /\ file["config"] \in Versions /\ lock # None
  <2>1. /\ HomeTypes /\ StageHolds(p) /\ ReplacingHolds(p) /\ proc[p] \in CommandRecords
        /\ file["secrets"] \in Versions /\ file["config"] \in Versions /\ lock # None
    BY <1>1, HolderFacts
  <2> QED
    BY <1>1, <2>1 DEF StageHolds, ReplacingHolds, Replacing
<1>3. PICK v \in Versions' :
        /\ file' = [file EXCEPT !["secrets"] = v] /\ inodes' = inodes + 1
        /\ v # Home!Absent /\ v.token = Home!TokenOf(p, "secrets") /\ \A y \in Versions : v.id > y.id
        /\ \/ proc' = [proc EXCEPT ![p].wrote = @ \cup {"secrets"}, ![p].at = "config",
                                   ![p].result = IF "secrets" = "config" THEN "saved" ELSE @]
           \/ proc' = [proc EXCEPT ![p].wrote = @ \cup {"secrets"}, ![p].at = "restore"]
  BY Replaced DEF Home!ReplaceSecrets, Home!Files, Replacing
<1>4. proc[p].secrets.token => v.token
  BY <1>3 DEF Home!TokenOf, Home!Read
<1>5. PICK there \in {"config", "restore"} :
        proc' = [proc EXCEPT ![p] = [proc[p] EXCEPT !.wrote = {"secrets"}, !.at = there, !.result = "none"]]
  <2>1. proc[p].wrote \cup {"secrets"} = {"secrets"} /\ "secrets" # "config"
    BY <1>2
  <2>2. CASE proc' = [proc EXCEPT ![p].wrote = @ \cup {"secrets"}, ![p].at = "restore"]
    <3>1. proc' = [proc EXCEPT ![p] = [proc[p] EXCEPT !.wrote = {"secrets"}, !.at = "restore", !.result = "none"]]
      BY <1>2, <2>1, <2>2 DEF HomeTypes, CommandRecords
    <3> QED
      BY <3>1
  <2>3. CASE proc' = [proc EXCEPT ![p].wrote = @ \cup {"secrets"}, ![p].at = "config",
                                  ![p].result = IF "secrets" = "config" THEN "saved" ELSE @]
    <3>1. proc' = [proc EXCEPT ![p] = [proc[p] EXCEPT !.wrote = {"secrets"}, !.at = "config", !.result = "none"]]
      BY <1>2, <2>1, <2>3 DEF HomeTypes
    <3> QED
      BY <3>1
  <2> QED
    BY <1>3, <2>2, <2>3
<1> DEFINE x == [proc[p] EXCEPT !.wrote = {"secrets"}, !.at = there, !.result = "none"]
<1>6. x \in CommandRecords
  BY <1>2 DEF CommandRecords, Stages, Held, Replacing, Home!Files
<1>7. /\ x.at = there /\ x.op = proc[p].op /\ x.wrote = {"secrets"} /\ x.result = "none" /\ x.before = file
      /\ x.config = proc[p].config /\ x.secrets = proc[p].secrets
  BY <1>2 DEF CommandRecords
<1>8. proc' = [proc EXCEPT ![p] = x]
  BY <1>5
<1> HIDE DEF x
<1>9. /\ file' \in [Home!Files -> Versions'] /\ file'["secrets"] = v /\ file'["config"] = file["config"]
      /\ inodes' \in {inodes, inodes + 1}
  BY <1>3, FileChanged DEF Home!Files
<1>10. proc'[p] = x
  BY <1>2, <1>8 DEF HomeTypes
<1>11. StageHolds(p)'
  BY <1>1, <1>2, <1>7, <1>10 DEF StageHolds, Held, Making, Replacing
<1>12. MakingHolds(p)' /\ ~Loads(p)' /\ LoadHolds(p)'
  BY <1>7, <1>10 DEF MakingHolds, Loads, LoadHolds
<1>13. ReplacingHolds(p)'
  <2>1. v.id > file["secrets"].id
    BY <1>2, <1>3
  <2> QED
    BY <1>2, <1>4, <1>7, <1>9, <1>10, <2>1 DEF ReplacingHolds, Home!Files
<1>14. ASSUME NEW q \in Processes \ {p} PROVE Leaves(p, q)
  <2> SUFFICES ASSUME Loads(q) PROVE Leaves(p, q)
    BY DEF Leaves
  <2>1. LoadHolds(q) /\ proc'[q] = proc[q]
    BY <1>2, <1>8 DEF HomeInv, HomeTypes
  <2>2. ReadOfToken(q)' = ReadOfToken(q)
    BY <1>9, <2>1 DEF ReadOfToken
  <2>3. ReadOfToken(q) => proc[p].secrets.token
    BY <1>1, <2>1 DEF LoadHolds, Replacing
  <2>4. x.secrets = file["secrets"] /\ file["secrets"] # Home!Absent
    BY <1>2, <1>7, <2>1 DEF LoadHolds
  <2>5. ~MayRemove(p)'
    BY <1>7, <1>10, <2>4 DEF MayRemove
  <2> QED
    BY <1>3, <1>4, <1>7, <1>9, <1>10, <2>2, <2>3, <2>5 DEF Leaves
<1>15. file'["config"].token => file'["secrets"].token
  BY <1>2, <1>4, <1>9
<1> QED
  BY <1>1, <1>6, <1>8, <1>9, <1>11, <1>12, <1>13, <1>14, <1>15, HolderKept

LEMMA ReplaceConfigKept == ASSUME HomeInv, NEW p \in Processes, Home!ReplaceConfig(p) PROVE HomeInv'
<1>1. proc[p].at = "config" /\ proc[p].at \in Held \ Making /\ lock' = lock
  BY DEF Home!ReplaceConfig, Home!Replace, Held, Making, Replacing
<1>2. /\ HomeTypes /\ StageHolds(p) /\ ReplacingHolds(p) /\ proc[p] \in CommandRecords
      /\ proc[p].op = "setup" /\ proc[p].result = "none" /\ proc[p].wrote = {"secrets"}
      /\ proc[p].before["config"] = proc[p].config /\ proc[p].before["secrets"] = proc[p].secrets
      /\ (file["config"].token \/ proc[p].config.token => proc[p].secrets.token)
      /\ (proc[p].secrets.token => file["secrets"].token)
      /\ file["secrets"].id > proc[p].before["secrets"].id
      /\ proc[p].before \in [Home!Files -> Versions] /\ lock # None
  <2>1. /\ HomeTypes /\ StageHolds(p) /\ ReplacingHolds(p) /\ proc[p] \in CommandRecords
        /\ proc[p].before \in [Home!Files -> Versions] /\ lock # None
    BY <1>1, HolderFacts
  <2> QED
    BY <1>1, <2>1 DEF StageHolds, ReplacingHolds, Replacing
<1>3. PICK v \in Versions' :
        /\ file' = [file EXCEPT !["config"] = v] /\ inodes' = inodes + 1
        /\ v.token = Home!TokenOf(p, "config") /\ \A y \in Versions : v.id > y.id
        /\ \/ proc' = [proc EXCEPT ![p].wrote = @ \cup {"config"}, ![p].at = "release",
                                   ![p].result = IF "config" = "config" THEN "saved" ELSE @]
           \/ proc' = [proc EXCEPT ![p].wrote = @ \cup {"config"}, ![p].at = "restore"]
  BY Replaced DEF Home!ReplaceConfig, Home!Files, Replacing
<1>4. ~v.token
  BY <1>3 DEF Home!TokenOf
<1>5. PICK there \in {"release", "restore"}, result \in {"saved", "none"} :
        /\ proc' = [proc EXCEPT ![p] = [proc[p] EXCEPT !.wrote = {"secrets", "config"}, !.at = there, !.result = result]]
        /\ there = "restore" => result = "none"
        /\ there = "release" => result = "saved"
  <2>1. proc[p].wrote \cup {"config"} = {"secrets", "config"}
    BY <1>2
  <2>2. CASE proc' = [proc EXCEPT ![p].wrote = @ \cup {"config"}, ![p].at = "restore"]
    <3>1. proc' = [proc EXCEPT ![p] = [proc[p] EXCEPT !.wrote = {"secrets", "config"}, !.at = "restore",
                                                      !.result = "none"]]
      BY <1>2, <2>1, <2>2 DEF HomeTypes, CommandRecords
    <3> QED
      BY <3>1
  <2>3. CASE proc' = [proc EXCEPT ![p].wrote = @ \cup {"config"}, ![p].at = "release",
                                  ![p].result = IF "config" = "config" THEN "saved" ELSE @]
    <3>1. proc' = [proc EXCEPT ![p] = [proc[p] EXCEPT !.wrote = {"secrets", "config"}, !.at = "release",
                                                      !.result = "saved"]]
      BY <1>2, <2>1, <2>3 DEF HomeTypes
    <3> QED
      BY <3>1
  <2> QED
    BY <1>3, <2>2, <2>3
<1> DEFINE x == [proc[p] EXCEPT !.wrote = {"secrets", "config"}, !.at = there, !.result = result]
<1>6. x \in CommandRecords
  BY <1>2 DEF CommandRecords, Stages, Held, Replacing, Home!Files
<1>7. /\ x.at = there /\ x.op = proc[p].op /\ x.wrote = {"secrets", "config"} /\ x.result = result
      /\ x.before = proc[p].before /\ x.config = proc[p].config /\ x.secrets = proc[p].secrets
  BY <1>2 DEF CommandRecords
<1>8. proc' = [proc EXCEPT ![p] = x]
  BY <1>5
<1> HIDE DEF x
<1>9. /\ file' \in [Home!Files -> Versions'] /\ file'["config"] = v /\ file'["secrets"] = file["secrets"]
      /\ inodes' \in {inodes, inodes + 1}
  BY <1>3, FileChanged DEF Home!Files
<1>10. proc'[p] = x
  BY <1>2, <1>8 DEF HomeTypes
<1>11. StageHolds(p)'
  BY <1>1, <1>2, <1>5, <1>7, <1>10 DEF StageHolds, Held, Making, Replacing
<1>12. MakingHolds(p)' /\ LoadHolds(p)'
  BY <1>2, <1>7, <1>10 DEF MakingHolds, Loads, LoadHolds
<1>13. ReplacingHolds(p)'
  <2>1. \A f \in Home!Files : file'[f].id > proc[p].before[f].id
    BY <1>2, <1>3, <1>9 DEF Home!Files
  <2>2. CASE there = "restore"
    <3>1. /\ proc'[p].at = "restore" /\ proc'[p].result = "none" /\ proc'[p].wrote = {"secrets", "config"}
          /\ proc'[p].before = proc[p].before /\ proc'[p].config = proc[p].config
          /\ proc'[p].secrets = proc[p].secrets
      BY <1>5, <1>7, <1>10, <2>2
    <3>2. /\ \A f \in proc'[p].wrote : file'[f].id > proc'[p].before[f].id
          /\ Home!Files \ proc'[p].wrote = {}
      BY <2>1, <3>1 DEF Home!Files
    <3>3. /\ file'["config"].token \/ proc'[p].config.token => proc'[p].secrets.token
          /\ proc'[p].secrets.token => file'["secrets"].token
      BY <1>2, <1>4, <1>9, <3>1
    <3> QED
      BY <1>2, <3>1, <3>2, <3>3 DEF ReplacingHolds
  <2>3. CASE there = "release"
    <3>1. proc'[p].at = "release" /\ proc'[p].result = "saved" /\ proc'[p].before = proc[p].before
      BY <1>5, <1>7, <1>10, <2>3
    <3>2. \A f \in Home!Files : file'[f].id > proc'[p].before[f].id
      BY <2>1, <3>1
    <3> QED
      BY <3>1, <3>2 DEF ReplacingHolds, Replacing
  <2> QED
    BY <2>2, <2>3
<1>14. ASSUME NEW q \in Processes \ {p} PROVE Leaves(p, q)
  <2> SUFFICES ASSUME Loads(q) PROVE Leaves(p, q)
    BY DEF Leaves
  <2>1. LoadHolds(q) /\ proc'[q] = proc[q]
    BY <1>2, <1>8 DEF HomeInv, HomeTypes
  <2>2. ReadOfToken(q)' => ReadOfToken(q)
    BY <1>4, <1>9, <2>1 DEF ReadOfToken
  <2>3. ReadOfToken(q) => proc[p].secrets.token
    BY <1>1, <2>1 DEF LoadHolds, Replacing
  <2>4. ~MayRemove(p)
    BY <2>1 DEF LoadHolds
  <2>5. ~MayRemove(p)'
    BY <1>1, <1>2, <1>7, <1>10, <2>4 DEF MayRemove
  <2> QED
    BY <1>2, <1>7, <1>9, <1>10, <2>1, <2>2, <2>3, <2>5 DEF Leaves, LoadHolds
<1> QED
  BY <1>1, <1>2, <1>4, <1>6, <1>8, <1>9, <1>11, <1>12, <1>13, <1>14, HolderKept

(* The rollback, of the configuration first.                               *)
LEMMA RestoreFacts ==
  ASSUME HomeInv, NEW p \in Processes, proc[p].at = "restore"
  PROVE  /\ HomeTypes /\ StageHolds(p) /\ proc[p] \in CommandRecords /\ proc[p].at \in Held \ Making
         /\ proc[p].op = "setup" /\ proc[p].result \in {"none", "not restored"}
         /\ proc[p].before["config"] = proc[p].config /\ proc[p].before["secrets"] = proc[p].secrets
         /\ (file["config"].token \/ proc[p].config.token => proc[p].secrets.token)
         /\ (proc[p].secrets.token => file["secrets"].token)
         /\ (\A f \in proc[p].wrote : file[f].id > proc[p].before[f].id)
         /\ (\A f \in Home!Files \ proc[p].wrote : file[f] = proc[p].before[f] \/ proc[p].result = "not restored")
         /\ proc[p].config \in Versions /\ proc[p].secrets \in Versions
         /\ proc[p].before \in [Home!Files -> Versions] /\ proc[p].wrote \subseteq Home!Files /\ lock # None
<1>1. proc[p].at \in Held \ Making
  BY DEF Held, Making, Replacing
<1>2. /\ HomeTypes /\ StageHolds(p) /\ ReplacingHolds(p) /\ proc[p] \in CommandRecords
      /\ proc[p].config \in Versions /\ proc[p].secrets \in Versions
      /\ proc[p].before \in [Home!Files -> Versions] /\ lock # None
  BY <1>1, HolderFacts
<1>3. proc[p].op = "setup" /\ proc[p].wrote \subseteq Home!Files
  BY <1>2 DEF StageHolds, Replacing, CommandRecords
<1> QED
  BY <1>1, <1>2, <1>3 DEF ReplacingHolds, Replacing

(* A file is no longer among those written: restored, or given up.         *)
LEMMA RolledBack ==
  ASSUME HomeInv, NEW p \in Processes, proc[p].at = "restore", NEW f \in proc[p].wrote, f = "secrets" => "config" \notin proc[p].wrote,
         NEW result \in {"none", "not restored"},
         proc' = [proc EXCEPT ![p] = [proc[p] EXCEPT !.wrote = proc[p].wrote \ {f}, !.result = result]],
         UNCHANGED <<lock, inodes>>,
         \/ file' = [file EXCEPT ![f] = Home!Read(p, f)] /\ result = proc[p].result
         \/ file' = file /\ result = "not restored"
  PROVE  HomeInv'
<1>1. /\ HomeTypes /\ StageHolds(p) /\ proc[p] \in CommandRecords /\ proc[p].at \in Held \ Making
      /\ proc[p].op = "setup" /\ proc[p].result \in {"none", "not restored"}
      /\ proc[p].before["config"] = proc[p].config /\ proc[p].before["secrets"] = proc[p].secrets
      /\ (file["config"].token \/ proc[p].config.token => proc[p].secrets.token)
      /\ (proc[p].secrets.token => file["secrets"].token)
      /\ (\A g \in proc[p].wrote : file[g].id > proc[p].before[g].id)
      /\ (\A g \in Home!Files \ proc[p].wrote : file[g] = proc[p].before[g] \/ proc[p].result = "not restored")
      /\ proc[p].config \in Versions /\ proc[p].secrets \in Versions /\ f \in Home!Files
  BY RestoreFacts
<1> DEFINE x == [proc[p] EXCEPT !.wrote = proc[p].wrote \ {f}, !.result = result]
<1>2. x \in CommandRecords
  BY <1>1 DEF CommandRecords
<1>3. /\ x.at = "restore" /\ x.op = "setup" /\ x.wrote = proc[p].wrote \ {f} /\ x.result = result
      /\ x.before = proc[p].before /\ x.config = proc[p].config /\ x.secrets = proc[p].secrets
  BY <1>1 DEF CommandRecords
<1>4. proc' = [proc EXCEPT ![p] = x]
  OBVIOUS
<1> HIDE DEF x
<1>5. proc'[p] = x
  BY <1>1, <1>4 DEF HomeTypes
<1>6. Home!Read(p, f) = proc[p].before[f] /\ Home!Read(p, f) \in Versions
  BY <1>1 DEF Home!Read, Home!Files
<1>7. /\ file' \in [Home!Files -> Versions']
      /\ \A g \in Home!Files \ {f} : file'[g] = file[g]
      /\ \/ file'[f] = proc[p].before[f] /\ result = proc[p].result
         \/ file'[f] = file[f] /\ result = "not restored"
  <2>1. CASE file' = [file EXCEPT ![f] = Home!Read(p, f)] /\ result = proc[p].result
    <3>1. Home!Read(p, f) \in Versions'
      BY <1>1, <1>6, VersionsGrow DEF HomeTypes
    <3>2. file' \in [Home!Files -> Versions'] /\ file'[f] = Home!Read(p, f) /\ \A g \in Home!Files \ {f} : file'[g] = file[g]
      BY <1>1, <2>1, <3>1, FileChanged
    <3> QED
      BY <1>6, <2>1, <3>2
  <2>2. CASE file' = file /\ result = "not restored"
    BY <2>2, FileSame
  <2> QED
    BY <2>1, <2>2
<1>8. file'["config"].token => proc[p].secrets.token
  <2>1. CASE f = "config"
    BY <1>1, <1>7, <2>1
  <2>2. CASE f = "secrets"
    BY <1>1, <1>7, <2>2 DEF Home!Files
  <2> QED
    BY <1>1, <2>1, <2>2 DEF Home!Files
<1>9. proc[p].secrets.token => file'["secrets"].token
  <2>1. CASE f = "secrets"
    BY <1>1, <1>7, <2>1
  <2>2. CASE f = "config"
    BY <1>1, <1>7, <2>2 DEF Home!Files
  <2> QED
    BY <1>1, <2>1, <2>2 DEF Home!Files
<1>10. StageHolds(p)'
  BY <1>1, <1>3, <1>5 DEF StageHolds, Held, Making, Replacing
<1>11. MakingHolds(p)' /\ LoadHolds(p)'
  BY <1>3, <1>5 DEF MakingHolds, Loads, LoadHolds
<1>12. ReplacingHolds(p)'
  <2>1. \A g \in x.wrote : file'[g].id > x.before[g].id
    BY <1>1, <1>3, <1>7, RestoreFacts
  <2>2. \A g \in Home!Files \ x.wrote : file'[g] = x.before[g] \/ result = "not restored"
    BY <1>1, <1>3, <1>7
  <2> QED
    BY <1>1, <1>3, <1>5, <1>8, <1>9, <2>1, <2>2 DEF ReplacingHolds
<1>13. ASSUME NEW q \in Processes \ {p} PROVE Leaves(p, q)
  <2> SUFFICES ASSUME Loads(q) PROVE Leaves(p, q)
    BY DEF Leaves
  <2>1. LoadHolds(q) /\ proc'[q] = proc[q]
    BY <1>1, <1>4 DEF HomeInv, HomeTypes
  <2>2. file["secrets"] # Home!Absent /\ ~MayRemove(p)
    BY <2>1 DEF LoadHolds
  <2>3. "secrets" \in proc[p].wrote => proc[p].secrets # Home!Absent
    BY <2>2 DEF MayRemove
  <2>4. ReadOfToken(q) => proc[p].secrets.token
    BY <1>1, <2>1 DEF LoadHolds, Replacing
  <2>5. ReadOfToken(q)' => proc[p].secrets.token
    BY <1>8, <2>1, <2>4 DEF ReadOfToken
  <2>6. ~MayRemove(p)'
    BY <1>3, <1>5, <2>3 DEF MayRemove
  <2>7. file'["secrets"] # Home!Absent
    <3>1. CASE f = "secrets"
      BY <1>1, <1>7, <2>2, <2>3, <3>1
    <3>2. CASE f = "config"
      BY <1>1, <1>7, <2>2, <3>2 DEF Home!Files
    <3> QED
      BY <1>1, <3>1, <3>2 DEF Home!Files
  <2> QED
    BY <1>3, <1>5, <1>9, <2>5, <2>6, <2>7 DEF Leaves
<1>14. file'["config"].token => file'["secrets"].token
  BY <1>8, <1>9
<1> QED
  BY <1>1, <1>2, <1>4, <1>7, <1>10, <1>11, <1>12, <1>13, <1>14, HolderKept

LEMMA RestoreKept == ASSUME HomeInv, NEW p \in Processes, Home!Restore(p) PROVE HomeInv'
<1>1. proc[p].at = "restore" /\ proc[p].wrote # {} /\ UNCHANGED <<lock, inodes>>
  BY DEF Home!Restore
<1>2. HomeTypes /\ proc[p] \in CommandRecords /\ proc[p].wrote \subseteq Home!Files /\ proc[p].result \in {"none", "not restored"}
  BY <1>1, RestoreFacts
<1> DEFINE f == Home!Last(p)
<1>3. f \in proc[p].wrote /\ (f = "secrets" => "config" \notin proc[p].wrote)
  BY <1>1, <1>2 DEF Home!Last, Home!Files
<1>4. CASE /\ file' = [file EXCEPT ![f] = Home!Read(p, f)]
           /\ proc' = [proc EXCEPT ![p].wrote = @ \ {f}]
  <2>1. proc' = [proc EXCEPT ![p] = [proc[p] EXCEPT !.wrote = proc[p].wrote \ {f}, !.result = proc[p].result]]
    BY <1>2, <1>4 DEF HomeTypes, CommandRecords
  <2>2. PICK result \in {"none", "not restored"} : result = proc[p].result
    BY <1>2
  <2>3. proc' = [proc EXCEPT ![p] = [proc[p] EXCEPT !.wrote = proc[p].wrote \ {f}, !.result = result]]
    BY <2>1, <2>2
  <2>4. file' = [file EXCEPT ![f] = Home!Read(p, f)] /\ result = proc[p].result
    BY <1>4, <2>2
  <2> HIDE DEF f
  <2> QED
    BY <1>1, <1>3, <2>3, <2>4, RolledBack
<1>5. CASE /\ file' = file
           /\ proc' = [proc EXCEPT ![p].wrote = @ \ {f}, ![p].result = "not restored"]
  <2>1. proc' = [proc EXCEPT ![p] = [proc[p] EXCEPT !.wrote = proc[p].wrote \ {f}, !.result = "not restored"]]
    BY <1>2, <1>5 DEF HomeTypes
  <2> HIDE DEF f
  <2> QED
    BY <1>1, <1>2, <1>3, <1>5, <2>1, RolledBack
<1> QED
  BY <1>4, <1>5 DEF Home!Restore

LEMMA RestoredKept == ASSUME HomeInv, NEW p \in Processes, Home!Restored(p) PROVE HomeInv'
<1>1. proc[p].at = "restore" /\ proc[p].wrote = {} /\ UNCHANGED <<file, lock, inodes>>
  BY DEF Home!Restored
<1>2. /\ HomeTypes /\ StageHolds(p) /\ proc[p] \in CommandRecords /\ proc[p].at \in Held \ Making
      /\ proc[p].op = "setup" /\ proc[p].result \in {"none", "not restored"}
      /\ \A f \in Home!Files : file[f] = proc[p].before[f] \/ proc[p].result = "not restored"
      /\ proc[p].before \in [Home!Files -> Versions]
  BY <1>1, RestoreFacts
<1> DEFINE result == IF proc[p].result = "none" THEN "failed" ELSE proc[p].result
           x == [proc[p] EXCEPT !.at = "release", !.result = result]
<1>3. proc' = [proc EXCEPT ![p] = x]
  BY DEF Home!Restored, Home!To
<1>4. x \in CommandRecords
  BY <1>2 DEF CommandRecords, Stages, Held
<1>5. x.at = "release" /\ x.op = "setup" /\ x.wrote = {} /\ x.result = result /\ x.before = proc[p].before
  BY <1>1, <1>2 DEF CommandRecords
<1>6. result = "not restored" \/ (result = "failed" /\ file = proc[p].before)
  <2>1. CASE proc[p].result = "not restored"
    BY <2>1
  <2>2. CASE proc[p].result = "none"
    <3>1. file \in [Home!Files -> Versions] /\ \A f \in Home!Files : file[f] = proc[p].before[f]
      BY <1>2, <2>2 DEF HomeTypes
    <3>2. proc[p].before \in [Home!Files -> Versions]
      BY <1>2
    <3>3. file = proc[p].before
      <4>1. file = [f \in Home!Files |-> file[f]] /\ proc[p].before = [f \in Home!Files |-> proc[p].before[f]]
        BY <3>1, <3>2
      <4>2. [f \in Home!Files |-> file[f]] = [f \in Home!Files |-> proc[p].before[f]]
        BY <3>1
      <4> QED
        BY <4>1, <4>2
    <3> QED
      BY <2>2, <3>3
  <2> QED
    BY <1>2, <2>1, <2>2
<1> HIDE DEF x, result
<1>7. proc'[p] = x /\ file' = file
  BY <1>1, <1>2, <1>3 DEF HomeTypes
<1>8. StageHolds(p)'
  BY <1>1, <1>2, <1>5, <1>6, <1>7 DEF StageHolds, Held, Making, Replacing
<1>9. MakingHolds(p)' /\ ~Loads(p)' /\ ReplacingHolds(p)'
  BY <1>5, <1>6, <1>7 DEF MakingHolds, Loads, ReplacingHolds, Replacing
<1>10. x.at \notin {"write template", "write secrets", "config", "restore", "secrets"}
  BY <1>5
<1>11. file["config"].token => file["secrets"].token
  BY <1>2, HolderFacts
<1> QED
  BY <1>1, <1>2, <1>3, <1>4, <1>8, <1>9, <1>10, <1>11, HolderGoes

LEMMA HomeInvStep == ASSUME HomeInv, Home!HomeNext PROVE HomeInv'
BY CommandKept, LockKept, NoLockKept, ReleaseKept, LookKept, WriteConfigKept, CreateSecretsKept, WriteSecretsKept,
   ReadConfigKept, ReadSecretsKept, AnswerKept, PrepareKept, ReplaceSecretsKept, ReplaceConfigKept, RestoreKept,
   RestoredKept, KilledKept DEF Home!HomeNext

LEMMA HomeInvUnchanged == ASSUME HomeInv, UNCHANGED Home!homeVars PROVE HomeInv'
<1>1. UNCHANGED <<file, lock, proc, inodes>>
  BY DEF Home!homeVars
<1>2. HomeTypes'
  BY <1>1 DEF HomeInv, HomeTypes, Versions, CommandRecords
<1>3. TokenHolds'
  BY <1>1 DEF HomeInv, TokenHolds
<1>4. ASSUME NEW p \in Processes PROVE StageHolds(p)' /\ MakingHolds(p)' /\ ReplacingHolds(p)' /\ LoadHolds(p)'
  <2>1. StageHolds(p) /\ MakingHolds(p) /\ ReplacingHolds(p) /\ LoadHolds(p)
    BY DEF HomeInv
  <2>2. StageHolds(p)'
    BY <1>1, <2>1 DEF StageHolds
  <2>3. MakingHolds(p)'
    BY <1>1, <2>1 DEF MakingHolds
  <2>4. ReplacingHolds(p)'
    BY <1>1, <2>1 DEF ReplacingHolds
  <2>5. LoadHolds(p)'
    BY <1>1, <2>1 DEF LoadHolds, Loads, ReadOfToken, MayRemove
  <2> QED
    BY <2>2, <2>3, <2>4, <2>5
<1> QED
  BY <1>2, <1>3, <1>4 DEF HomeInv

LEMMA HomeInvShows == ASSUME HomeInv PROVE Home!HomeTypeOK /\ Home!LoadedIsWhole
<1>1. \A f \in Home!Files : file[f].id \in 0 .. inodes /\ (file[f].id = 0 => file[f] = Home!Absent)
  BY DEF HomeInv, HomeTypes, Versions
<1>2. \A p, q \in Processes : proc[p].at = proc[q].at /\ proc[p].at \in {"look", "prepare", "config", "restore"} => p = q
  BY OneHolder DEF Held, Replacing
<1>3. Home!HomeTypeOK
  BY <1>1, <1>2 DEF HomeInv, HomeTypes, Home!HomeTypeOK
<1>4. Home!LoadedIsWhole
  BY DEF HomeInv, StageHolds, Home!LoadedIsWhole
<1> QED
  BY <1>3, <1>4

(* What a step does to a file that is there: a setup replaces what it has  *)
(* read, or puts back what it has replaced; or the file keeps its number,  *)
(* and its token if it has one.                                            *)
LEMMA FileSteps ==
  ASSUME HomeInv, Home!HomeNext, NEW f \in Home!Files, file'[f] # file[f]
  PROVE  \/ \E p \in Processes : Home!Replace(p, f, IF f = "secrets" THEN "config" ELSE "release")
         \/ \E p \in Processes : Home!Restore(p) /\ proc[p].at = "restore" /\ f \in proc[p].wrote
                             /\ file'[f] = proc[p].before[f]
         \/ file[f] = Home!Absent
         \/ file'[f].id \in {0, file[f].id} /\ (f = "secrets" => ~file[f].token)
<1>1. HomeTypes
  BY DEF HomeInv
<1>2. PICK p \in Processes :
        \/ Home!Look(p) \/ Home!WriteConfig(p) \/ Home!CreateSecrets(p) \/ Home!WriteSecrets(p)
        \/ Home!ReplaceSecrets(p) \/ Home!ReplaceConfig(p) \/ Home!Restore(p)
  BY DEF Home!HomeNext, Home!Command, Home!Lock, Home!NoLock, Home!Release, Home!ReadConfig, Home!ReadSecrets,
         Home!Answer, Home!Prepare, Home!Restored, Home!Killed
<1>3. CASE Home!Look(p)
  BY <1>1, <1>3 DEF Home!Look, HomeTypes, Home!Files
<1>4. CASE Home!WriteConfig(p)
  <2>1. CASE file' = [file EXCEPT !["config"].whole = TRUE]
    BY <1>1, <2>1 DEF HomeTypes, Versions, FileRecords, Home!Files
  <2>2. CASE file' = [file EXCEPT !["config"] = Home!Absent]
    BY <1>1, <2>2 DEF HomeTypes, Home!Files, Home!Absent
  <2> QED
    BY <1>4, <2>1, <2>2 DEF Home!WriteConfig
<1>5. CASE Home!CreateSecrets(p)
  BY <1>1, <1>5 DEF Home!CreateSecrets, HomeTypes, Home!Files
<1>6. CASE Home!WriteSecrets(p)
  <2>1. ~file["secrets"].token
    <3>1. proc[p].at \in {"write template", "write secrets"}
      BY <1>1, <1>6 DEF Home!WriteSecrets, HomeTypes, CommandRecords, Stages, Held, Making, Replacing
    <3> QED
      BY <3>1 DEF HomeInv, MakingHolds
  <2>2. CASE file' = [file EXCEPT !["secrets"].whole = TRUE,
                                  !["secrets"].token = proc[p].at = "write secrets" /\ proc[p].key]
    <3>1. file'["config"] = file["config"] /\ file'["secrets"].id = file["secrets"].id
      BY <1>1, <2>2 DEF HomeTypes, Versions, FileRecords, Home!Files
    <3> QED
      BY <2>1, <3>1 DEF Home!Files
  <2>3. CASE file' = [file EXCEPT !["secrets"] = Home!Absent,
                                  !["config"] = IF proc[p].at = "write secrets" THEN Home!Absent ELSE @]
    <3>1. file'[f] = Home!Absent
      BY <1>1, <2>3 DEF HomeTypes, Home!Files
    <3> QED
      BY <2>1, <3>1 DEF Home!Absent
  <2> QED
    BY <1>6, <2>2, <2>3 DEF Home!WriteSecrets
<1>7. CASE Home!ReplaceSecrets(p)
  <2>1. Home!Replace(p, "secrets", "config") /\ HomeTypes
    BY <1>1, <1>7 DEF Home!ReplaceSecrets
  <2>2. f = "secrets"
    BY <2>1 DEF Home!Replace, HomeTypes
  <2> QED
    BY <2>1, <2>2
<1>8. CASE Home!ReplaceConfig(p)
  <2>1. Home!Replace(p, "config", "release") /\ HomeTypes
    BY <1>1, <1>8 DEF Home!ReplaceConfig
  <2>2. f = "config"
    BY <2>1 DEF Home!Replace, HomeTypes
  <2> QED
    BY <2>1, <2>2
<1>9. CASE Home!Restore(p)
  <2>1. /\ proc[p].at = "restore" /\ proc[p].wrote \subseteq Home!Files /\ proc[p].wrote # {}
        /\ proc[p].before["config"] = proc[p].config /\ proc[p].before["secrets"] = proc[p].secrets
    BY <1>9, RestoreFacts DEF Home!Restore
  <2>2. Home!Last(p) \in proc[p].wrote
    BY <2>1 DEF Home!Last, Home!Files
  <2>3. file' = [file EXCEPT ![Home!Last(p)] = Home!Read(p, Home!Last(p))]
    BY <1>9 DEF Home!Restore
  <2>4. f = Home!Last(p) /\ file'[f] = Home!Read(p, f)
    BY <1>1, <2>1, <2>2, <2>3 DEF HomeTypes
  <2>5. file'[f] = proc[p].before[f]
    BY <2>1, <2>4 DEF Home!Read, Home!Files
  <2> QED
    BY <1>9, <2>1, <2>2, <2>4, <2>5
<1> QED
  BY <1>2, <1>3, <1>4, <1>5, <1>6, <1>7, <1>8, <1>9

LEMMA BothOrNeitherStep ==
  ASSUME HomeInv, NEW p \in Processes, proc[p].op = "setup", proc[p].at = "release"
  PROVE  CASE proc[p].result = "saved" -> \A f \in Home!Files : file[f].id > proc[p].before[f].id
           [] proc[p].result = "not restored" -> TRUE
           [] OTHER -> \A f \in Home!Files : file[f] = proc[p].before[f]
<1>1. ReplacingHolds(p)
  BY DEF HomeInv
<1>2. /\ proc[p].result = "saved" => \A f \in Home!Files : file[f].id > proc[p].before[f].id
      /\ proc[p].result \notin {"saved", "not restored"} => file = proc[p].before
  BY <1>1 DEF ReplacingHolds
<1> QED
  BY <1>2

LEMMA NoLostUpdateStep ==
  ASSUME HomeInv, Home!HomeNext, NEW f \in Home!Files, file[f] # Home!Absent, file'[f].id > file[f].id
  PROVE  \E p \in Processes : proc[p].at = f /\ Home!Read(p, f) = file[f]
<1>1. HomeTypes /\ file[f].id \in Nat
  BY DEF HomeInv, HomeTypes, Versions, FileRecords
<1>2. file'[f].id \notin {0, file[f].id}
  BY <1>1
<1>3. ASSUME NEW p \in Processes, Home!Replace(p, f, IF f = "secrets" THEN "config" ELSE "release") PROVE
        proc[p].at = f /\ Home!Read(p, f) = file[f]
  BY <1>3, Replaced DEF Home!Replace, Home!Original, Home!Files, Replacing
<1>4. ASSUME NEW p \in Processes, proc[p].at = "restore", f \in proc[p].wrote, file'[f] = proc[p].before[f] PROVE FALSE
  <2>1. file[f].id > proc[p].before[f].id /\ proc[p].before[f] \in Versions
    BY <1>4, RestoreFacts
  <2>2. proc[p].before[f].id \in Nat
    BY <2>1 DEF Versions, FileRecords
  <2> QED
    BY <1>1, <1>4, <2>1, <2>2
<1> QED
  BY <1>2, <1>3, <1>4, FileSteps

LEMMA TokenStaysStep ==
  ASSUME HomeInv, Home!HomeNext, file["secrets"].token, ~file'["secrets"].token
  PROVE  \E p \in Processes : proc[p].at = "restore" /\ "secrets" \in proc[p].wrote
<1>1. file["secrets"] # Home!Absent /\ file'["secrets"] # file["secrets"] /\ "secrets" \in Home!Files
  BY DEF Home!Absent, Home!Files
<1>2. ASSUME NEW p \in Processes, Home!Replace(p, "secrets", "config") PROVE FALSE
  <2> DEFINE v == Home!Made(TRUE, Home!TokenOf(p, "secrets"))
  <2>1. Home!Original(p, "secrets") /\ file' = [file EXCEPT !["secrets"] = v] /\ v.token = Home!TokenOf(p, "secrets")
    BY <1>1, <1>2, Replaced DEF Replacing
  <2>2. v.token
    BY <2>1 DEF Home!Original, Home!TokenOf
  <2> HIDE DEF v
  <2>3. file'["secrets"] = v
    BY <1>1, <2>1 DEF HomeInv, HomeTypes
  <2> QED
    BY <2>2, <2>3
<1> QED
  BY <1>1, <1>2, FileSteps

-----------------------------------------------------------------------------
(* The record of a server. Once it has made its record it is past that; it *)
(* is over when its control port is closed for good.                       *)
PastRecord == {"check", "up", "undo", "failed", "crashed"}
Over(s) == \/ start[s] \in {"undo", "failed", "crashed"}
           \/ start[s] = "up" /\ close[s] \in {"unlink", "closed"}

StopRecords == [at : {"idle", "asking", "stop", "waiting", "nothing", "ambiguous", "failed", "stopped"},
                wanted : SUBSET Servers, pending : SUBSET Servers, stale : SUBSET Servers,
                live : SUBSET Servers, chosen : Servers \cup {None}]
UiTypes ==
  /\ start \in [Servers -> PastRecord \cup {"none", "binding", "control", "record"}]
  /\ close \in [Servers -> {"none", "hook", "unlink", "closed"}]
  /\ closing \in [Servers -> BOOLEAN] /\ control \in [Servers -> BOOLEAN]
  /\ listening \in [Servers -> BOOLEAN] /\ record \in [Servers -> BOOLEAN]
  /\ port \in [Servers -> Ports \cup {0}] /\ stopper \in StopRecords

(* Of one server: what it has made where its start and its end are.        *)
ServerHolds(s) ==
  /\ closing[s] = (close[s] # "none")
  /\ start[s] = "none" => close[s] = "none"
  /\ start[s] \in {"none", "binding", "control", "record"} => ~record[s]
  /\ start[s] \in {"none", "binding", "control", "record", "check"} => ~control[s]
  /\ start[s] \in {"none", "binding", "control", "undo", "failed", "crashed"} => ~listening[s]
  /\ start[s] \in {"record", "check"} => listening[s]
  /\ start[s] = "check" => record[s]
  /\ start[s] = "failed" => ~record[s] \/ s \in kept
  /\ close[s] = "unlink" => control[s]
  /\ start[s] = "up" => control[s]
  /\ start[s] = "up" /\ close[s] \in {"none", "hook"} => record[s] /\ listening[s]
  /\ start[s] = "up" /\ close[s] \in {"unlink", "closed"} => ~listening[s]
  /\ start[s] = "up" /\ close[s] = "closed" => ~record[s] \/ s \in kept
PortsDiffer == \A s, t \in Servers : s # t /\ listening[s] /\ listening[t] => port[s] # port[t]

(* Of the stop: whoever it takes for gone has ended, and stays so.         *)
StopHolds ==
  /\ stopper.live \subseteq stopper.wanted
  /\ \A s \in stopper.pending : start[s] \in PastRecord
  /\ \A s \in stopper.stale : Over(s)
  /\ stopper.at \in {"stop", "waiting"} => stopper.chosen \in stopper.wanted
  /\ stopper.at = "stopped" => stopper.chosen \in Servers /\ close[stopper.chosen] = "closed"
UiInv == UiTypes /\ (\A s \in Servers : ServerHolds(s)) /\ PortsDiffer /\ StopHolds

LEMMA UiInvInit == ASSUME Ui!UiInit PROVE UiInv
<1>1. stopper \in StopRecords
  BY DEF Ui!UiInit, Ui!Idle, StopRecords
<1>2. UiTypes
  BY <1>1 DEF Ui!UiInit, UiTypes
<1>3. \A s \in Servers : ServerHolds(s)
  BY DEF Ui!UiInit, ServerHolds
<1>4. PortsDiffer
  BY DEF Ui!UiInit, PortsDiffer
<1>5. StopHolds
  BY DEF Ui!UiInit, Ui!Idle, StopHolds
<1> QED
  BY <1>2, <1>3, <1>4, <1>5 DEF UiInv

(* What the steps of a server never undo, and so what a stop knows.        *)
GoesOn == \A s \in Servers : /\ start[s] \in PastRecord => start'[s] \in PastRecord
                             /\ Over(s) => Over(s)'
                             /\ close[s] = "closed" => close'[s] = "closed"
LEMMA StopKept ==
  ASSUME UiInv, GoesOn, UNCHANGED stopper PROVE StopHolds'
BY DEF UiInv, UiTypes, StopRecords, StopHolds, GoesOn

(* The same, when the step is of one server and its port is the same.      *)
LEMMA ServerKept ==
  ASSUME UiInv, UiTypes', NEW s \in Servers, ServerHolds(s)',
         \A t \in Servers \ {s} : /\ start'[t] = start[t] /\ close'[t] = close[t] /\ closing'[t] = closing[t]
                                  /\ control'[t] = control[t] /\ listening'[t] = listening[t]
                                  /\ record'[t] = record[t],
         start[s] \in PastRecord => start'[s] \in PastRecord,
         Over(s) => Over(s)',
         close[s] = "closed" => close'[s] = "closed",
         kept \subseteq kept', port' = port, listening'[s] => listening[s], UNCHANGED stopper
  PROVE  UiInv'
<1>1. \A t \in Servers : ServerHolds(t)'
  <2> TAKE t \in Servers
  <2>1. CASE t = s
    BY <2>1
  <2>2. CASE t # s
    BY <2>2 DEF UiInv, ServerHolds
  <2> QED
    BY <2>1, <2>2
<1>2. GoesOn
  <2> SUFFICES ASSUME NEW t \in Servers
               PROVE  /\ start[t] \in PastRecord => start'[t] \in PastRecord
                      /\ Over(t) => Over(t)'
                      /\ close[t] = "closed" => close'[t] = "closed"
    BY DEF GoesOn
  <2>1. CASE t = s
    BY <2>1
  <2>2. CASE t # s
    BY <2>2 DEF Over
  <2> QED
    BY <2>1, <2>2
<1>3. PortsDiffer'
  BY DEF UiInv, PortsDiffer
<1> QED
  BY <1>1, <1>2, <1>3, StopKept DEF UiInv

LEMMA StartWebUiKept == ASSUME UiInv, NEW s \in Servers, Ui!StartWebUi(s) PROVE UiInv'
<1>1. UiTypes /\ ServerHolds(s)
  BY DEF UiInv
<1>2. UiTypes'
  BY <1>1 DEF UiTypes, PastRecord, Ui!StartWebUi, Ui!Starts, Ui!Shut, Ui!FailStart, Ui!Alive
<1>3. ServerHolds(s)'
  BY <1>1 DEF UiTypes, ServerHolds, PastRecord, Ui!StartWebUi, Ui!Starts, Ui!Shut, Ui!FailStart, Ui!Alive
<1>4. \A t \in Servers \ {s} : /\ start'[t] = start[t] /\ close'[t] = close[t] /\ closing'[t] = closing[t]
                               /\ control'[t] = control[t] /\ listening'[t] = listening[t]
                               /\ record'[t] = record[t]
  BY <1>1 DEF UiTypes, Ui!StartWebUi, Ui!Starts, Ui!Shut, Ui!FailStart, Ui!Alive
<1>5. /\ start[s] \in PastRecord => start'[s] \in PastRecord
      /\ Over(s) => Over(s)'
      /\ close[s] = "closed" => close'[s] = "closed"
  BY <1>1 DEF UiTypes, ServerHolds, PastRecord, Over, Ui!StartWebUi, Ui!Starts, Ui!Shut, Ui!FailStart, Ui!Alive
<1>6. kept \subseteq kept' /\ port' = port /\ (listening'[s] => listening[s]) /\ UNCHANGED stopper
  BY <1>1 DEF UiTypes, Ui!StartWebUi, Ui!Starts, Ui!Shut, Ui!FailStart, Ui!Alive
<1> QED
  BY <1>2, <1>3, <1>4, <1>5, <1>6, ServerKept

LEMMA BindKept == ASSUME UiInv, NEW s \in Servers, Ui!Bind(s) PROVE UiInv'
<1>1. UiTypes /\ ServerHolds(s)
  BY DEF UiInv
<1>2. UiTypes'
  BY <1>1 DEF UiTypes, PastRecord, Ui!Bind, Ui!Starts, Ui!Shut, Ui!FailStart, Ui!Alive
<1>3. ServerHolds(s)'
  BY <1>1 DEF UiTypes, ServerHolds, PastRecord, Ui!Bind, Ui!Starts, Ui!Shut, Ui!FailStart, Ui!Alive
<1>4. \A t \in Servers \ {s} : /\ start'[t] = start[t] /\ close'[t] = close[t] /\ closing'[t] = closing[t]
                               /\ control'[t] = control[t] /\ listening'[t] = listening[t]
                               /\ record'[t] = record[t]
  BY <1>1 DEF UiTypes, Ui!Bind, Ui!Starts, Ui!Shut, Ui!FailStart, Ui!Alive
<1>5. /\ start[s] \in PastRecord => start'[s] \in PastRecord
      /\ Over(s) => Over(s)'
      /\ close[s] = "closed" => close'[s] = "closed"
  BY <1>1 DEF UiTypes, ServerHolds, PastRecord, Over, Ui!Bind, Ui!Starts, Ui!Shut, Ui!FailStart, Ui!Alive
<1>6. kept \subseteq kept' /\ port' = port /\ (listening'[s] => listening[s]) /\ UNCHANGED stopper
  BY <1>1 DEF UiTypes, Ui!Bind, Ui!Starts, Ui!Shut, Ui!FailStart, Ui!Alive
<1> QED
  BY <1>2, <1>3, <1>4, <1>5, <1>6, ServerKept

LEMMA MakeRecordKept == ASSUME UiInv, NEW s \in Servers, Ui!MakeRecord(s) PROVE UiInv'
<1>1. UiTypes /\ ServerHolds(s)
  BY DEF UiInv
<1>2. UiTypes'
  BY <1>1 DEF UiTypes, PastRecord, Ui!MakeRecord, Ui!Starts, Ui!Shut, Ui!FailStart, Ui!Alive
<1>3. ServerHolds(s)'
  BY <1>1 DEF UiTypes, ServerHolds, PastRecord, Ui!MakeRecord, Ui!Starts, Ui!Shut, Ui!FailStart, Ui!Alive
<1>4. \A t \in Servers \ {s} : /\ start'[t] = start[t] /\ close'[t] = close[t] /\ closing'[t] = closing[t]
                               /\ control'[t] = control[t] /\ listening'[t] = listening[t]
                               /\ record'[t] = record[t]
  BY <1>1 DEF UiTypes, Ui!MakeRecord, Ui!Starts, Ui!Shut, Ui!FailStart, Ui!Alive
<1>5. /\ start[s] \in PastRecord => start'[s] \in PastRecord
      /\ Over(s) => Over(s)'
      /\ close[s] = "closed" => close'[s] = "closed"
  BY <1>1 DEF UiTypes, ServerHolds, PastRecord, Over, Ui!MakeRecord, Ui!Starts, Ui!Shut, Ui!FailStart, Ui!Alive
<1>6. kept \subseteq kept' /\ port' = port /\ (listening'[s] => listening[s]) /\ UNCHANGED stopper
  BY <1>1 DEF UiTypes, Ui!MakeRecord, Ui!Starts, Ui!Shut, Ui!FailStart, Ui!Alive
<1> QED
  BY <1>2, <1>3, <1>4, <1>5, <1>6, ServerKept

LEMMA StartedKept == ASSUME UiInv, NEW s \in Servers, Ui!Started(s) PROVE UiInv'
<1>1. UiTypes /\ ServerHolds(s)
  BY DEF UiInv
<1>2. UiTypes'
  BY <1>1 DEF UiTypes, PastRecord, Ui!Started, Ui!Starts, Ui!Shut, Ui!FailStart, Ui!Alive
<1>3. ServerHolds(s)'
  BY <1>1 DEF UiTypes, ServerHolds, PastRecord, Ui!Started, Ui!Starts, Ui!Shut, Ui!FailStart, Ui!Alive
<1>4. \A t \in Servers \ {s} : /\ start'[t] = start[t] /\ close'[t] = close[t] /\ closing'[t] = closing[t]
                               /\ control'[t] = control[t] /\ listening'[t] = listening[t]
                               /\ record'[t] = record[t]
  BY <1>1 DEF UiTypes, Ui!Started, Ui!Starts, Ui!Shut, Ui!FailStart, Ui!Alive
<1>5. /\ start[s] \in PastRecord => start'[s] \in PastRecord
      /\ Over(s) => Over(s)'
      /\ close[s] = "closed" => close'[s] = "closed"
  BY <1>1 DEF UiTypes, ServerHolds, PastRecord, Over, Ui!Started, Ui!Starts, Ui!Shut, Ui!FailStart, Ui!Alive
<1>6. kept \subseteq kept' /\ port' = port /\ (listening'[s] => listening[s]) /\ UNCHANGED stopper
  BY <1>1 DEF UiTypes, Ui!Started, Ui!Starts, Ui!Shut, Ui!FailStart, Ui!Alive
<1> QED
  BY <1>2, <1>3, <1>4, <1>5, <1>6, ServerKept

LEMMA UndoKept == ASSUME UiInv, NEW s \in Servers, Ui!Undo(s) PROVE UiInv'
<1>1. UiTypes /\ ServerHolds(s)
  BY DEF UiInv
<1>2. UiTypes'
  BY <1>1 DEF UiTypes, PastRecord, Ui!Undo, Ui!Remove, Ui!Starts, Ui!Shut, Ui!FailStart, Ui!Alive
<1>3. ServerHolds(s)'
  BY <1>1 DEF UiTypes, ServerHolds, PastRecord, Ui!Undo, Ui!Remove, Ui!Starts, Ui!Shut, Ui!FailStart, Ui!Alive
<1>4. \A t \in Servers \ {s} : /\ start'[t] = start[t] /\ close'[t] = close[t] /\ closing'[t] = closing[t]
                               /\ control'[t] = control[t] /\ listening'[t] = listening[t]
                               /\ record'[t] = record[t]
  BY <1>1 DEF UiTypes, Ui!Undo, Ui!Remove, Ui!Starts, Ui!Shut, Ui!FailStart, Ui!Alive
<1>5. /\ start[s] \in PastRecord => start'[s] \in PastRecord
      /\ Over(s) => Over(s)'
      /\ close[s] = "closed" => close'[s] = "closed"
  BY <1>1 DEF UiTypes, ServerHolds, PastRecord, Over, Ui!Undo, Ui!Remove, Ui!Starts, Ui!Shut, Ui!FailStart, Ui!Alive
<1>6. kept \subseteq kept' /\ port' = port /\ (listening'[s] => listening[s]) /\ UNCHANGED stopper
  BY <1>1 DEF UiTypes, Ui!Undo, Ui!Remove, Ui!Starts, Ui!Shut, Ui!FailStart, Ui!Alive
<1> QED
  BY <1>2, <1>3, <1>4, <1>5, <1>6, ServerKept

LEMMA SignalKept == ASSUME UiInv, NEW s \in Servers, Ui!Signal(s) PROVE UiInv'
<1>1. UiTypes /\ ServerHolds(s)
  BY DEF UiInv
<1>2. UiTypes'
  BY <1>1 DEF UiTypes, PastRecord, Ui!Signal, Ui!Starts, Ui!Shut, Ui!FailStart, Ui!Alive
<1>3. ServerHolds(s)'
  BY <1>1 DEF UiTypes, ServerHolds, PastRecord, Ui!Signal, Ui!Starts, Ui!Shut, Ui!FailStart, Ui!Alive
<1>4. \A t \in Servers \ {s} : /\ start'[t] = start[t] /\ close'[t] = close[t] /\ closing'[t] = closing[t]
                               /\ control'[t] = control[t] /\ listening'[t] = listening[t]
                               /\ record'[t] = record[t]
  BY <1>1 DEF UiTypes, Ui!Signal, Ui!Starts, Ui!Shut, Ui!FailStart, Ui!Alive
<1>5. /\ start[s] \in PastRecord => start'[s] \in PastRecord
      /\ Over(s) => Over(s)'
      /\ close[s] = "closed" => close'[s] = "closed"
  BY <1>1 DEF UiTypes, ServerHolds, PastRecord, Over, Ui!Signal, Ui!Starts, Ui!Shut, Ui!FailStart, Ui!Alive
<1>6. kept \subseteq kept' /\ port' = port /\ (listening'[s] => listening[s]) /\ UNCHANGED stopper
  BY <1>1 DEF UiTypes, Ui!Signal, Ui!Starts, Ui!Shut, Ui!FailStart, Ui!Alive
<1> QED
  BY <1>2, <1>3, <1>4, <1>5, <1>6, ServerKept

LEMMA CloseHookKept == ASSUME UiInv, NEW s \in Servers, Ui!CloseHook(s) PROVE UiInv'
<1>1. UiTypes /\ ServerHolds(s)
  BY DEF UiInv
<1>2. UiTypes'
  BY <1>1 DEF UiTypes, PastRecord, Ui!CloseHook, Ui!Starts, Ui!Shut, Ui!FailStart, Ui!Alive
<1>3. ServerHolds(s)'
  BY <1>1 DEF UiTypes, ServerHolds, PastRecord, Ui!CloseHook, Ui!Starts, Ui!Shut, Ui!FailStart, Ui!Alive
<1>4. \A t \in Servers \ {s} : /\ start'[t] = start[t] /\ close'[t] = close[t] /\ closing'[t] = closing[t]
                               /\ control'[t] = control[t] /\ listening'[t] = listening[t]
                               /\ record'[t] = record[t]
  BY <1>1 DEF UiTypes, Ui!CloseHook, Ui!Starts, Ui!Shut, Ui!FailStart, Ui!Alive
<1>5. /\ start[s] \in PastRecord => start'[s] \in PastRecord
      /\ Over(s) => Over(s)'
      /\ close[s] = "closed" => close'[s] = "closed"
  BY <1>1 DEF UiTypes, ServerHolds, PastRecord, Over, Ui!CloseHook, Ui!Starts, Ui!Shut, Ui!FailStart, Ui!Alive
<1>6. kept \subseteq kept' /\ port' = port /\ (listening'[s] => listening[s]) /\ UNCHANGED stopper
  BY <1>1 DEF UiTypes, Ui!CloseHook, Ui!Starts, Ui!Shut, Ui!FailStart, Ui!Alive
<1> QED
  BY <1>2, <1>3, <1>4, <1>5, <1>6, ServerKept

LEMMA UnlinkKept == ASSUME UiInv, NEW s \in Servers, Ui!Unlink(s) PROVE UiInv'
<1>1. UiTypes /\ ServerHolds(s)
  BY DEF UiInv
<1>2. UiTypes'
  BY <1>1 DEF UiTypes, PastRecord, Ui!Unlink, Ui!Remove, Ui!Starts, Ui!Shut, Ui!FailStart, Ui!Alive
<1>3. ServerHolds(s)'
  BY <1>1 DEF UiTypes, ServerHolds, PastRecord, Ui!Unlink, Ui!Remove, Ui!Starts, Ui!Shut, Ui!FailStart, Ui!Alive
<1>4. \A t \in Servers \ {s} : /\ start'[t] = start[t] /\ close'[t] = close[t] /\ closing'[t] = closing[t]
                               /\ control'[t] = control[t] /\ listening'[t] = listening[t]
                               /\ record'[t] = record[t]
  BY <1>1 DEF UiTypes, Ui!Unlink, Ui!Remove, Ui!Starts, Ui!Shut, Ui!FailStart, Ui!Alive
<1>5. /\ start[s] \in PastRecord => start'[s] \in PastRecord
      /\ Over(s) => Over(s)'
      /\ close[s] = "closed" => close'[s] = "closed"
  BY <1>1 DEF UiTypes, ServerHolds, PastRecord, Over, Ui!Unlink, Ui!Remove, Ui!Starts, Ui!Shut, Ui!FailStart, Ui!Alive
<1>6. kept \subseteq kept' /\ port' = port /\ (listening'[s] => listening[s]) /\ UNCHANGED stopper
  BY <1>1 DEF UiTypes, Ui!Unlink, Ui!Remove, Ui!Starts, Ui!Shut, Ui!FailStart, Ui!Alive
<1> QED
  BY <1>2, <1>3, <1>4, <1>5, <1>6, ServerKept

LEMMA CrashKept == ASSUME UiInv, NEW s \in Servers, Ui!Crash(s) PROVE UiInv'
<1>1. UiTypes /\ ServerHolds(s)
  BY DEF UiInv
<1>2. UiTypes'
  BY <1>1 DEF UiTypes, PastRecord, Ui!Crash, Ui!Starts, Ui!Shut, Ui!FailStart, Ui!Alive
<1>3. ServerHolds(s)'
  BY <1>1 DEF UiTypes, ServerHolds, PastRecord, Ui!Crash, Ui!Starts, Ui!Shut, Ui!FailStart, Ui!Alive
<1>4. \A t \in Servers \ {s} : /\ start'[t] = start[t] /\ close'[t] = close[t] /\ closing'[t] = closing[t]
                               /\ control'[t] = control[t] /\ listening'[t] = listening[t]
                               /\ record'[t] = record[t]
  BY <1>1 DEF UiTypes, Ui!Crash, Ui!Starts, Ui!Shut, Ui!FailStart, Ui!Alive
<1>5. /\ start[s] \in PastRecord => start'[s] \in PastRecord
      /\ Over(s) => Over(s)'
      /\ close[s] = "closed" => close'[s] = "closed"
  BY <1>1 DEF UiTypes, ServerHolds, PastRecord, Over, Ui!Crash, Ui!Starts, Ui!Shut, Ui!FailStart, Ui!Alive
<1>6. kept \subseteq kept' /\ port' = port /\ (listening'[s] => listening[s]) /\ UNCHANGED stopper
  BY <1>1 DEF UiTypes, Ui!Crash, Ui!Starts, Ui!Shut, Ui!FailStart, Ui!Alive
<1> QED
  BY <1>2, <1>3, <1>4, <1>5, <1>6, ServerKept

LEMMA ListenKept == ASSUME UiInv, NEW s \in Servers, Ui!Listen(s) PROVE UiInv'
<1>1. UiTypes /\ PortsDiffer /\ ServerHolds(s)
  BY DEF UiInv
<1>2. PICK p \in Ui!Free : port' = [port EXCEPT ![s] = p]
  BY DEF Ui!Listen
<1>3. p \in Ports /\ \A t \in Servers : listening[t] => port[t] # p
  BY <1>2 DEF Ui!Free
<1>4. UiTypes'
  BY <1>1, <1>2, <1>3 DEF UiTypes, Ui!Listen, Ui!Starts, PastRecord
<1>5. \A t \in Servers : ServerHolds(t)'
  BY <1>1 DEF UiInv, UiTypes, ServerHolds, Ui!Listen, Ui!Starts
<1>6. PortsDiffer'
  BY <1>1, <1>2, <1>3 DEF UiTypes, PortsDiffer, Ui!Listen
<1>7. GoesOn
  BY <1>1 DEF GoesOn, UiTypes, Over, PastRecord, Ui!Listen, Ui!Starts
<1>8. UNCHANGED stopper
  BY DEF Ui!Listen
<1> QED
  BY <1>4, <1>5, <1>6, <1>7, <1>8, StopKept DEF UiInv

(* The steps of the stop which leave the servers alone.                    *)
LEMMA StopStepKept ==
  ASSUME UiInv, UNCHANGED Ui!server, stopper' \in StopRecords, StopHolds' PROVE UiInv'
<1>1. UiTypes'
  BY DEF UiInv, UiTypes, Ui!server
<1>2. \A s \in Servers : ServerHolds(s)'
  BY DEF UiInv, ServerHolds, Ui!server
<1>3. PortsDiffer'
  BY DEF UiInv, PortsDiffer, Ui!server
<1> QED
  BY <1>1, <1>2, <1>3 DEF UiInv

LEMMA ReadRecordsKept == ASSUME UiInv, Ui!ReadRecords PROVE UiInv'
<1>1. \/ \E wanted \in {Servers} \cup {{s} : s \in Servers} :
           stopper' = [Ui!Idle EXCEPT !.at = "asking", !.wanted = wanted, !.pending = {s \in Servers : record[s]}]
      \/ stopper' = [Ui!Idle EXCEPT !.at = "failed"]
  BY DEF Ui!ReadRecords
<1>2. Ui!Idle \in StopRecords
  BY DEF Ui!Idle, StopRecords
<1>3. stopper' \in StopRecords
  <2>1. ASSUME NEW wanted \in {Servers} \cup {{s} : s \in Servers},
               stopper' = [Ui!Idle EXCEPT !.at = "asking", !.wanted = wanted, !.pending = {s \in Servers : record[s]}]
        PROVE  stopper' \in StopRecords
    BY <1>2, <2>1 DEF StopRecords
  <2>2. ASSUME stopper' = [Ui!Idle EXCEPT !.at = "failed"] PROVE stopper' \in StopRecords
    BY <1>2, <2>2 DEF StopRecords
  <2> QED
    BY <1>1, <2>1, <2>2
<1>4. /\ stopper'.at \in {"asking", "failed"} /\ stopper'.pending \subseteq {s \in Servers : record[s]}
      /\ stopper'.stale = {} /\ stopper'.live = {}
  BY <1>1 DEF Ui!Idle
<1>5. UNCHANGED Ui!server
  BY DEF Ui!ReadRecords
<1>6. \A s \in Servers : record[s] => start[s] \in PastRecord
  BY DEF UiInv, UiTypes, ServerHolds
<1>7. StopHolds'
  BY <1>4, <1>5, <1>6 DEF StopHolds, Ui!server
<1> QED
  BY <1>3, <1>5, <1>7, StopStepKept

LEMMA AskStatusKept == ASSUME UiInv, NEW s \in Servers, Ui!AskStatus(s) PROVE UiInv'
<1>1. UiTypes /\ ServerHolds(s) /\ StopHolds /\ stopper \in StopRecords
  BY DEF UiInv, UiTypes
<1>2. UNCHANGED Ui!server
  BY DEF Ui!AskStatus
<1>3. stopper' \in StopRecords
  BY <1>1 DEF StopRecords, Ui!AskStatus
<1>4. s \in stopper.pending /\ stopper'.at \in {"asking", "failed"} /\ stopper'.wanted = stopper.wanted
  BY <1>1 DEF StopRecords, Ui!AskStatus, Ui!Asking
<1>5. stopper'.pending \subseteq stopper.pending /\ stopper'.live \subseteq stopper'.wanted
  BY <1>1 DEF StopRecords, StopHolds, Ui!AskStatus
<1>6. \A t \in stopper'.stale : t \in stopper.stale \/ (t = s /\ Ui!Refused(s))
  BY <1>1 DEF StopRecords, Ui!AskStatus
<1>7. Ui!Refused(s) => ~listening[s]
  BY DEF Ui!Refused, Ui!Reached
<1>8. Ui!Refused(s) => Over(s)
  BY <1>1, <1>4, <1>7 DEF StopHolds, UiTypes, ServerHolds, Over, PastRecord
<1>9. StopHolds'
  BY <1>1, <1>2, <1>4, <1>5, <1>6, <1>8 DEF StopHolds, Over, Ui!server
<1> QED
  BY <1>2, <1>3, <1>9, StopStepKept

LEMMA NoAnswerKept == ASSUME UiInv, NEW s \in Servers, Ui!NoAnswer(s) PROVE UiInv'
<1>1. UNCHANGED Ui!server
  BY DEF Ui!NoAnswer
<1>2. stopper' \in StopRecords
  BY DEF UiInv, UiTypes, StopRecords, Ui!NoAnswer
<1>3. StopHolds'
  BY <1>1 DEF UiInv, UiTypes, StopRecords, StopHolds, Over, Ui!NoAnswer, Ui!server, Ui!Asking
<1> QED
  BY <1>1, <1>2, <1>3, StopStepKept

LEMMA RemoveStaleKept == ASSUME UiInv, NEW s \in Servers, Ui!RemoveStale(s) PROVE UiInv'
<1>1. UiTypes /\ StopHolds /\ stopper \in StopRecords
  BY DEF UiInv, UiTypes
<1>2. Over(s)
  BY <1>1 DEF StopHolds, Ui!RemoveStale
<1> DEFINE Goes(r) == /\ r \in StopRecords /\ r.stale \subseteq stopper.stale /\ r.at \in {"asking", "failed"}
                      /\ r.wanted = stopper.wanted /\ r.pending = stopper.pending /\ r.live = stopper.live
<1>7. Goes(stopper')
  <2>1. stopper.at \in {"asking", "failed"}
    BY DEF Ui!RemoveStale, Ui!Asking
  <2>2. CASE stopper' = [stopper EXCEPT !.stale = @ \ {s}]
    BY <1>1, <2>1, <2>2 DEF StopRecords
  <2>3. CASE stopper' = [stopper EXCEPT !.stale = @ \ {s}, !.at = "failed"]
    BY <1>1, <2>3 DEF StopRecords
  <2> QED
    BY <2>2, <2>3 DEF Ui!RemoveStale
<1>8. /\ start' = start /\ close' = close /\ closing' = closing /\ control' = control
      /\ port' = port /\ listening' = listening /\ record' \in {record, [record EXCEPT ![s] = FALSE]}
  BY DEF Ui!RemoveStale
<1>3. UiTypes'
  BY <1>1, <1>7, <1>8 DEF UiTypes
<1>4. \A t \in Servers : ServerHolds(t)'
  BY <1>1, <1>2 DEF UiInv, UiTypes, ServerHolds, Over, Ui!RemoveStale
<1>5. PortsDiffer'
  BY DEF UiInv, PortsDiffer, Ui!RemoveStale
<1>6. StopHolds'
  BY <1>1, <1>7, <1>8 DEF StopHolds, Over
<1> QED
  BY <1>3, <1>4, <1>5, <1>6 DEF UiInv

LEMMA ChooseKept == ASSUME UiInv, Ui!Choose PROVE UiInv'
<1>1. UiTypes /\ StopHolds /\ stopper \in StopRecords
  BY DEF UiInv, UiTypes
<1>2. UNCHANGED Ui!server
  BY DEF Ui!Choose
<1>3. \/ stopper' = [stopper EXCEPT !.at = "nothing"]
      \/ stopper' = [stopper EXCEPT !.at = "ambiguous"]
      \/ \E s \in stopper.live : stopper' = [stopper EXCEPT !.at = "stop", !.chosen = s]
  <2>1. CASE stopper.live = {}
    BY <2>1 DEF Ui!Choose
  <2>2. CASE stopper.live # {}
    <3>1. (CHOOSE s \in stopper.live : TRUE) \in stopper.live
      BY <2>2
    <3>2. \/ stopper' = [stopper EXCEPT !.at = "ambiguous"]
          \/ stopper' = [stopper EXCEPT !.at = "stop", !.chosen = CHOOSE s \in stopper.live : TRUE]
      BY <2>2 DEF Ui!Choose
    <3> QED
      BY <3>1, <3>2
  <2> QED
    BY <2>1, <2>2
<1>4. stopper' \in StopRecords
  BY <1>1, <1>3 DEF StopRecords
<1>5. StopHolds'
  BY <1>1, <1>2, <1>3 DEF StopHolds, StopRecords, Over, Ui!server
<1> QED
  BY <1>2, <1>4, <1>5, StopStepKept

(* Whom the request to stop reaches is the server that was chosen.         *)
LEMMA AskStopReaches ==
  ASSUME UiInv, Ui!AskStop
  PROVE  \/ /\ stopper' = [stopper EXCEPT !.at = "failed"] /\ UNCHANGED <<asked, close, closing>>
         \/ /\ stopper' = [stopper EXCEPT !.at = "waiting"] /\ asked' = asked \cup {stopper.chosen}
            /\ stopper.chosen \in Servers /\ stopper.chosen \in stopper.wanted /\ listening[stopper.chosen]
            /\ Ui!Shut(stopper.chosen)
<1> DEFINE reached == {t \in Ui!Reached(stopper.chosen) : Ui!Answers(stopper.chosen, t)}
<1>1. CASE reached = {}
  BY <1>1 DEF Ui!AskStop
<1>2. CASE reached # {}
  <2>1. reached = {stopper.chosen} /\ stopper.chosen \in Servers /\ listening[stopper.chosen]
    BY <1>2 DEF Ui!Reached, Ui!Answers
  <2>2. stopper.chosen \in stopper.wanted
    BY DEF UiInv, StopHolds, Ui!AskStop
  <2>3. /\ stopper' = [stopper EXCEPT !.at = "waiting"] /\ asked' = asked \cup reached
        /\ \E t \in reached : Ui!Shut(t)
    BY <1>2 DEF Ui!AskStop
  <2> QED
    BY <2>1, <2>2, <2>3
<1> QED
  BY <1>1, <1>2

LEMMA AskStopKept == ASSUME UiInv, Ui!AskStop PROVE UiInv'
<1>1. UiTypes /\ StopHolds /\ PortsDiffer /\ stopper \in StopRecords /\ stopper.at = "stop"
  BY DEF UiInv, UiTypes, Ui!AskStop
<1>2. UNCHANGED <<start, control, port, listening, record, kept>>
  BY DEF Ui!AskStop
<1>3. PortsDiffer'
  BY <1>1, <1>2 DEF PortsDiffer
<1>4. CASE stopper' = [stopper EXCEPT !.at = "failed"] /\ UNCHANGED <<asked, close, closing>>
  <2>1. UNCHANGED Ui!server
    BY <1>2, <1>4 DEF Ui!server
  <2>2. stopper' \in StopRecords
    BY <1>1, <1>4 DEF StopRecords
  <2>3. StopHolds'
    BY <1>1, <1>2, <1>4 DEF StopHolds, StopRecords, Over
  <2> QED
    BY <2>1, <2>2, <2>3, StopStepKept
<1>5. CASE /\ stopper' = [stopper EXCEPT !.at = "waiting"] /\ stopper.chosen \in Servers
           /\ listening[stopper.chosen] /\ Ui!Shut(stopper.chosen)
  <2> DEFINE s == stopper.chosen
  <2>1. s \in Servers /\ listening[s] /\ Ui!Shut(s)
    BY <1>5
  <2>2. stopper' \in StopRecords
    BY <1>1, <1>5 DEF StopRecords
  <2> HIDE DEF s
  <2>3. UiTypes'
    BY <1>1, <1>2, <2>1, <2>2 DEF UiTypes, Ui!Shut
  <2>4. \A t \in Servers : ServerHolds(t)'
    BY <1>1, <1>2, <2>1 DEF UiInv, UiTypes, ServerHolds, Ui!Shut
  <2>5. GoesOn
    BY <1>1, <1>2, <2>1 DEF GoesOn, UiTypes, Over, Ui!Shut
  <2>6. StopHolds'
    BY <1>1, <1>2, <1>5, <2>5 DEF StopHolds, StopRecords, GoesOn
  <2> QED
    BY <1>3, <2>3, <2>4, <2>6 DEF UiInv
<1> QED
  BY <1>4, <1>5, AskStopReaches

LEMMA ReplyKept == ASSUME UiInv, Ui!Reply \/ Ui!NoReply PROVE UiInv'
<1>1. StopHolds /\ stopper \in StopRecords
  BY DEF UiInv, UiTypes
<1>2. UNCHANGED Ui!server
  BY DEF Ui!Reply, Ui!NoReply
<1>3. stopper' \in StopRecords
  BY <1>1 DEF StopRecords, Ui!Reply, Ui!NoReply
<1>4. StopHolds'
  BY <1>1, <1>2 DEF StopHolds, StopRecords, Over, Ui!server, Ui!Reply, Ui!NoReply, Ui!Replies
<1> QED
  BY <1>2, <1>3, <1>4, StopStepKept

LEMMA UiInvStep == ASSUME UiInv, Ui!UiNext PROVE UiInv'
BY StartWebUiKept, BindKept, ListenKept, MakeRecordKept, StartedKept, UndoKept, SignalKept, CloseHookKept,
   UnlinkKept, CrashKept, ReadRecordsKept, AskStatusKept, NoAnswerKept, RemoveStaleKept, ChooseKept,
   AskStopKept, ReplyKept DEF Ui!UiNext, Ui!Run

LEMMA UiInvUnchanged == ASSUME UiInv, UNCHANGED Ui!uiVars PROVE UiInv'
<1>1. UNCHANGED Ui!server /\ UNCHANGED stopper
  BY DEF Ui!uiVars, Ui!server
<1>2. stopper' \in StopRecords
  BY <1>1 DEF UiInv, UiTypes
<1>3. StopHolds'
  BY <1>1 DEF UiInv, StopHolds, Over, Ui!server
<1> QED
  BY <1>1, <1>2, <1>3, StopStepKept

LEMMA UiInvShows ==
  ASSUME UiInv
  PROVE  Ui!UiTypeOK /\ Ui!RunningIsRecorded /\ Ui!StoppedIsClosed /\ Ui!NothingLeftBehind
<1>1. Ui!UiTypeOK
  <2>1. \A s \in Servers : port[s] \in Ports \cup {0} /\ (listening[s] => Ui!Alive(s))
    BY DEF UiInv, UiTypes, ServerHolds, Ui!Alive
  <2>2. stopper.pending \cup stopper.stale \cup stopper.live \subseteq Servers
    BY DEF UiInv, UiTypes, StopRecords
  <2> QED
    BY <2>1, <2>2 DEF UiInv, PortsDiffer, Ui!UiTypeOK
<1>2. Ui!RunningIsRecorded
  BY DEF UiInv, ServerHolds, Ui!RunningIsRecorded
<1>3. Ui!StoppedIsClosed
  BY DEF UiInv, StopHolds, Ui!StoppedIsClosed
<1>4. Ui!NothingLeftBehind
  BY DEF UiInv, UiTypes, ServerHolds, Ui!NothingLeftBehind, Ui!Ended
<1> QED
  BY <1>1, <1>2, <1>3, <1>4

(* Who is shut down by a stop was wanted.                                  *)
LEMMA OnlyWanted ==
  ASSUME UiInv, Ui!UiNext, NEW s \in asked' \ asked PROVE s \in stopper.wanted
<1>1. Ui!AskStop
  BY DEF Ui!UiNext, Ui!Run, Ui!StartWebUi, Ui!Bind, Ui!Listen, Ui!MakeRecord, Ui!Started, Ui!Undo, Ui!Signal,
         Ui!CloseHook, Ui!Unlink, Ui!Crash, Ui!ReadRecords, Ui!AskStatus, Ui!NoAnswer, Ui!RemoveStale,
         Ui!Choose, Ui!Reply, Ui!NoReply
<1> QED
  BY <1>1, AskStopReaches

-----------------------------------------------------------------------------
(* A step is one of the files, or of the servers, or of something else.    *)
LEMMA SettingsStep ==
  ASSUME HomeInv, UiInv, [Next]_vars PROVE HomeInv' /\ UiInv'
<1>1. CASE HomeStep(Home!HomeNext)
  <2>1. Home!HomeNext /\ UNCHANGED Ui!uiVars
    BY <1>1 DEF HomeStep, uiVars, Ui!uiVars
  <2> QED
    BY <2>1, HomeInvStep, UiInvUnchanged
<1>2. CASE UiStep(Ui!UiNext)
  <2>1. Ui!UiNext /\ UNCHANGED Home!homeVars
    BY <1>2 DEF UiStep, homeVars, Home!homeVars
  <2> QED
    BY <2>1, UiInvStep, HomeInvUnchanged
<1>3. CASE ~HomeStep(Home!HomeNext) /\ ~UiStep(Ui!UiNext)
  <2>1. UNCHANGED <<homeVars, uiVars>>
    BY <1>3 DEF Next, vars, AccessStep, GitStep, NetworkStep
  <2>2. UNCHANGED Home!homeVars /\ UNCHANGED Ui!uiVars
    BY <2>1 DEF homeVars, uiVars, Home!homeVars, Ui!uiVars
  <2> QED
    BY <2>2, HomeInvUnchanged, UiInvUnchanged
<1> QED
  BY <1>1, <1>2, <1>3

LEMMA SettingsInvariance == Spec => [](HomeInv /\ UiInv)
<1>1. Init => HomeInv /\ UiInv
  BY HomeInvInit, UiInvInit DEF Init
<1>2. HomeInv /\ UiInv /\ [Next]_vars => HomeInv' /\ UiInv'
  BY SettingsStep
<1> QED
  BY <1>1, <1>2, PTL DEF Spec

(* Whoever loads the configuration has the token it was made with; a server*)
(* that runs can be found and stopped; one that ended listens no more and  *)
(* leaves no record but one it could not remove.                           *)
THEOREM HomeStaysWhole == Spec => []HomeIsWhole
<1>1. HomeInv /\ UiInv => HomeIsWhole
  BY HomeInvShows, UiInvShows DEF HomeIsWhole
<1> QED
  BY <1>1, SettingsInvariance, PTL

-----------------------------------------------------------------------------
Places == {"idle", "listening", "session", "access", "role", "administrator", "user", "policy",
           "policy of an ADMIN", "grant", "act", "queued", "done"}
Executing == {"user", "policy", "policy of an ADMIN", "grant"}

(* What is known of a request, and of the worker, from where it is.        *)
AccessTypes ==
  /\ Access!AccessTypeOK
  /\ at \in [Access!Procs -> Places]
  /\ by \in [Access!Procs -> Users \cup {None}]
  /\ route \in [Access!Procs -> Access!Routes \cup {"none"}]
  /\ on \in [Access!Procs -> Access!Jobs \cup Users \cup {None}]

Routed(p) ==
  /\ at[p] # "idle" => by[p] \in Users
  /\ p = Worker => route[p] = "none" /\ at[p] \notin {"listening", "session", "administrator"}
  /\ p # Worker =>
       /\ at[p] # "queued"
       /\ at[p] \in {"listening", "session"} => route[p] = "event"
       /\ at[p] = "access" => route[p] \in {"read", "event", "execute", "reconcile"}
       /\ at[p] = "role" => route[p] = "reconcile"
       /\ at[p] = "administrator" => route[p] = "manual"
       /\ at[p] \in Executing => route[p] = "execute"
       /\ route[p] \in {"allow", "disallow"} => on[p] \in Users

(* What he could do is remembered while he is at it.                       *)
Remembered(p) ==
  at[p] \notin Access!Resting \cup {"done"} => Access!PowersOf(p) \subseteq could[p]

(* The checks a process has behind it.                                     *)
Checked(p) ==
  /\ at[p] = "act" /\ p # Worker =>
       /\ Access!Reads(route[p]) => "read" \in could[p]
       /\ route[p] = "execute" => {"access", "org"} \subseteq could[p]
       /\ route[p] = "reconcile" => {"access", "role"} \subseteq could[p]
       /\ route[p] = "manual" => "admin" \in could[p]
  /\ at[p] \in Executing \cup {"role"} => "access" \in could[p]
  /\ p = Worker /\ at[p] \in Executing => "role" \in could[p]
  /\ p = Worker /\ at[p] = "act" => {"access", "role", "org"} \subseteq could[p]
  /\ at[p] \in {"policy", "grant"} /\ by[p] \in allowed => "org" \in could[p]
  /\ at[p] = "policy of an ADMIN" => "org" \in could[p]
  /\ at[p] = "done" => Access!Needed(p) \subseteq could[p]
  /\ p = Worker /\ at[p] \in {"grant", "act", "done"} => policy

AccessInv ==
  /\ AccessTypes
  /\ told = grant
  /\ \A p \in Access!Procs : Routed(p) /\ Remembered(p) /\ Checked(p)

-----------------------------------------------------------------------------
LEMMA AccessInvInit == Access!AccessInit => AccessInv
<1> SUFFICES ASSUME Access!AccessInit PROVE AccessInv
  OBVIOUS
<1>1. AccessTypes /\ told = grant
  BY AccessAssumption DEF Access!AccessInit, AccessTypes, Access!AccessTypeOK, Access!Procs, Access!Permissions, Places
<1>2. \A p \in Access!Procs : Routed(p) /\ Remembered(p) /\ Checked(p)
  BY AccessAssumption
     DEF Access!AccessInit, Routed, Remembered, Checked, Executing, Access!Resting
<1> QED
  BY <1>1, <1>2 DEF AccessInv

LEMMA PowersAre ==
  ASSUME NEW u, NEW j
  PROVE  /\ "read" \in Access!Powers(u, j) <=> Access!CanAccess(j, u, "READ")
         /\ "access" \in Access!Powers(u, j) <=> Access!CanAccess(j, u, "EXECUTE")
         /\ "role" \in Access!Powers(u, j) <=> Access!Deployer(u)
         /\ "org" \in Access!Powers(u, j) <=> Access!Active(u) /\ (account[u].role = "ADMIN" \/ u \in allowed)
         /\ "admin" \in Access!Powers(u, j) <=> Access!Administrator(u)
  BY DEF Access!Powers

(* The step is remembered: of every process that is at something after it. *)
LEMMA StepRemembers ==
  ASSUME Access!Remember, AccessTypes, NEW p \in Access!Procs
  PROVE  /\ Remembered(p)'
         /\ at'[p] = "done" => could'[p] = could[p]
         /\ at'[p] \notin Access!Resting \cup {"done"} /\ at[p] \notin Access!Resting \cup {"done"} =>
              could[p] \subseteq could'[p]
         /\ at'[p] \notin Access!Resting \cup {"done"} => Access!PowersOf(p)' \subseteq could'[p]
<1>1. could'[p] = IF at'[p] \in Access!Resting THEN {}
                  ELSE IF at'[p] = "done" THEN could[p]
                  ELSE IF at[p] \in Access!Resting \cup {"done"} THEN Access!PowersOf(p)'
                  ELSE could[p] \cup Access!PowersOf(p)'
  BY DEF Access!Remember
<1>2. "done" \notin Access!Resting
  BY DEF Access!Resting
<1>3. Access!Resting' = Access!Resting
  BY DEF Access!Resting
<1> QED
  BY <1>1, <1>2, <1>3 DEF Remembered

(* A process that a step leaves where it is keeps what is known of it.     *)
LEMMA OthersKept ==
  ASSUME AccessInv, Access!Remember, NEW q \in Access!Procs,
         at'[q] = at[q], by'[q] = by[q], route'[q] = route[q], on'[q] = on[q],
         policy => policy',
         by[q] \in allowed' \ allowed => account'[by[q]].active
  PROVE  (Routed(q) /\ Remembered(q) /\ Checked(q))'
<1>1. Routed(q) /\ Checked(q) /\ AccessTypes /\ Remembered(q)
  BY DEF AccessInv
<1>2. Routed(q)'
  BY <1>1 DEF Routed
<1>3. /\ Remembered(q)'
      /\ at'[q] = "done" => could'[q] = could[q]
      /\ at'[q] \notin Access!Resting \cup {"done"} /\ at[q] \notin Access!Resting \cup {"done"} =>
           could[q] \subseteq could'[q]
      /\ at'[q] \notin Access!Resting \cup {"done"} => Access!PowersOf(q)' \subseteq could'[q]
  BY <1>1, StepRemembers
<1>4. at'[q] \notin Access!Resting => could[q] \subseteq could'[q]
  BY <1>3
<1>5. at[q] \in {"policy", "grant"} /\ by[q] \in allowed' => "org" \in could'[q]
  <2> SUFFICES ASSUME at[q] \in {"policy", "grant"}, by[q] \in allowed', by[q] \notin allowed PROVE "org" \in could'[q]
    BY <1>1, <1>4 DEF Checked, Access!Resting
  <2>1. by'[q] # None
    BY <1>1, AccessAssumption DEF Routed
  <2>2. Access!PowersOf(q)' = Access!Powers(by[q], Access!JobOf(q))'
    BY <2>1 DEF Access!PowersOf
  <2>3. ("org" \in Access!Powers(by[q], Access!JobOf(q)))'
    BY DEF Access!Powers, Access!Active
  <2> QED
    BY <1>3, <2>2, <2>3 DEF Access!Resting
<1>6. Access!Needed(q)' = Access!Needed(q)
  BY DEF Access!Needed, Access!Reads
<1>7. Checked(q)'
  BY <1>1, <1>3, <1>4, <1>5, <1>6 DEF Checked, Executing, Access!Resting, Access!Reads
<1> QED
  BY <1>2, <1>3, <1>7

-----------------------------------------------------------------------------
(* What a step may do to the roles, the grants and the org.                *)
DataKept ==
  /\ Access!AccessTypeOK'
  /\ told' = grant'
  /\ policy => policy'
  /\ \A u \in allowed' \ allowed : account'[u].active

LEMMA UnchangedKept ==
  ASSUME AccessInv, UNCHANGED Access!data, DOMAIN at' = Access!Procs
  PROVE  DataKept
  BY DEF AccessInv, AccessTypes, Access!AccessTypeOK, Access!data, DataKept, Access!Procs

LEMMA Moved ==
  ASSUME AccessInv, Access!Remember, DataKept, NEW p \in Access!Procs, NEW there \in Places,
         Access!To(p, there), (Routed(p) /\ Checked(p))'
  PROVE  AccessInv'
<1>1. /\ at' = [at EXCEPT ![p] = there] /\ by' = by /\ route' = route /\ on' = on
      /\ AccessTypes
  BY DEF Access!To, AccessInv
<1>2. AccessTypes'
  BY <1>1 DEF AccessTypes, DataKept, Access!Procs, Places, Access!Routes, Access!Jobs
<1>3. ASSUME NEW q \in Access!Procs PROVE (Routed(q) /\ Remembered(q) /\ Checked(q))'
  <2>1. CASE q = p
    BY <2>1, <1>1, StepRemembers
  <2>2. CASE q # p
    <3>1. at'[q] = at[q] /\ by'[q] = by[q] /\ route'[q] = route[q] /\ on'[q] = on[q]
      BY <1>1, <2>2 DEF AccessTypes
    <3>2. by[q] \in allowed' \ allowed => account'[by[q]].active
      BY DEF DataKept
    <3>3. policy => policy'
      BY DEF DataKept
    <3> QED
      BY <3>1, <3>2, <3>3, OthersKept
  <2> QED
    BY <2>1, <2>2
<1>4. \A q \in Access!Procs' : (Routed(q) /\ Remembered(q) /\ Checked(q))'
  BY <1>3 DEF Access!Procs
<1> QED
  BY <1>2, <1>4 DEF AccessInv, DataKept

LEMMA RefusedKept ==
  ASSUME AccessInv, Access!Remember, DataKept, NEW p \in Access!Procs, Access!Refused(p)
  PROVE  AccessInv'
<1>1. /\ at' = [at EXCEPT ![p] = "idle"] /\ by' = [by EXCEPT ![p] = None]
      /\ route' = [route EXCEPT ![p] = "none"] /\ on' = [on EXCEPT ![p] = None]
      /\ AccessTypes
  BY DEF Access!Refused, AccessInv
<1>2. AccessTypes'
  BY <1>1 DEF AccessTypes, DataKept, Access!Procs, Places, Access!Routes, Access!Jobs
<1>3. ASSUME NEW q \in Access!Procs PROVE (Routed(q) /\ Remembered(q) /\ Checked(q))'
  <2>1. CASE q = p
    <3>1. at'[q] = "idle" /\ route'[q] = "none"
      BY <1>1, <2>1 DEF AccessTypes
    <3>2. Routed(q)' /\ Checked(q)'
      BY <3>1 DEF Routed, Checked, Executing
    <3> QED
      BY <1>1, <3>2, StepRemembers
  <2>2. CASE q # p
    <3>1. at'[q] = at[q] /\ by'[q] = by[q] /\ route'[q] = route[q] /\ on'[q] = on[q]
      BY <1>1, <2>2 DEF AccessTypes
    <3>2. by[q] \in allowed' \ allowed => account'[by[q]].active
      BY DEF DataKept
    <3>3. policy => policy'
      BY DEF DataKept
    <3> QED
      BY <3>1, <3>2, <3>3, OthersKept
  <2> QED
    BY <2>1, <2>2
<1>4. \A q \in Access!Procs' : (Routed(q) /\ Remembered(q) /\ Checked(q))'
  BY <1>3 DEF Access!Procs
<1> QED
  BY <1>2, <1>4 DEF AccessInv, DataKept

(* A check: of one who passes it, what it has shown.                       *)
LEMMA CheckKept ==
  ASSUME AccessInv, Access!Remember, NEW p \in Access!Procs, NEW ok \in BOOLEAN, NEW there \in Places,
         Access!Check(p, ok, there),
         ok /\ Access!To(p, there) /\ UNCHANGED Access!data => (Routed(p) /\ Checked(p))'
  PROVE  AccessInv'
<1>1. DOMAIN at' = Access!Procs
  BY DEF Access!Check, Access!To, Access!Refused, AccessInv, AccessTypes
<1>2. UNCHANGED Access!data /\ DataKept
  BY <1>1, UnchangedKept DEF Access!Check
<1>3. CASE ok
  BY <1>2, <1>3, Moved DEF Access!Check
<1>4. CASE ~ok
  BY <1>2, <1>4, RefusedKept DEF Access!Check
<1> QED
  BY <1>3, <1>4

(* What a process gone on by a step of its own knows.                      *)
LEMMA GoneOn ==
  ASSUME AccessInv, Access!Remember, NEW p \in Access!Procs, NEW there \in Places, Access!To(p, there)
  PROVE  /\ at'[p] = there /\ by'[p] = by[p] /\ route'[p] = route[p] /\ on'[p] = on[p]
         /\ AccessTypes /\ Routed(p) /\ Remembered(p) /\ Checked(p)
         /\ there = "done" => could'[p] = could[p]
         /\ at[p] \notin Access!Resting \cup {"done"} =>
              /\ Access!Powers(by[p], Access!JobOf(p)) \subseteq could[p]
              /\ there \notin Access!Resting \cup {"done"} => could[p] \subseteq could'[p]
<1>1. /\ at'[p] = there /\ by'[p] = by[p] /\ route'[p] = route[p] /\ on'[p] = on[p]
      /\ AccessTypes /\ Routed(p) /\ Remembered(p) /\ Checked(p)
  BY DEF Access!To, AccessInv, AccessTypes
<1>2. at[p] \notin Access!Resting \cup {"done"} => by[p] # None
  BY <1>1, AccessAssumption DEF Routed, Access!Resting
<1> QED
  BY <1>1, <1>2, StepRemembers DEF Remembered, Access!PowersOf

LEMMA CheckSessionKept ==
  ASSUME AccessInv, Access!Remember, NEW p \in Access!Procs, Access!CheckSession(p)
  PROVE  AccessInv'
<1>1. at[p] = "session" /\ Access!Check(p, Access!Active(by[p]), "access")
  BY DEF Access!CheckSession
<1>2. Routed(p) /\ AccessTypes
  BY DEF AccessInv
<1>3. ASSUME Access!To(p, "access") PROVE (Routed(p) /\ Checked(p))'
  <2>1. at'[p] = "access" /\ by'[p] = by[p] /\ route'[p] = route[p] /\ on'[p] = on[p]
    BY <1>3, GoneOn DEF Places
  <2> QED
    BY <1>1, <1>2, <2>1 DEF Routed, Checked, Executing
<1>4. Access!Active(by[p]) \in BOOLEAN
  BY <1>1, <1>2 DEF Routed, AccessTypes, Access!AccessTypeOK, Access!Active
<1> QED
  BY <1>1, <1>3, <1>4, CheckKept DEF Places

LEMMA CheckAccessKept ==
  ASSUME AccessInv, Access!Remember, NEW p \in Access!Procs, Access!CheckAccess(p)
  PROVE  AccessInv'
<1> DEFINE wanted == IF Access!Reads(route[p]) THEN "READ" ELSE "EXECUTE"
           there == CASE Access!Reads(route[p]) -> "act"
                      [] route[p] = "execute" -> "user"
                      [] OTHER -> "role"
           ok == Access!CanAccess(Access!JobOf(p), by[p], wanted)
<1>1. at[p] = "access" /\ Access!Check(p, ok, there)
  BY DEF Access!CheckAccess
<1>2. Routed(p) /\ AccessTypes /\ there \in Places
  BY DEF AccessInv, Places, Access!Reads
<1>3. ASSUME ok, Access!To(p, there) PROVE (Routed(p) /\ Checked(p))'
  <2>1. /\ at'[p] = there /\ by'[p] = by[p] /\ route'[p] = route[p] /\ on'[p] = on[p]
        /\ Access!Powers(by[p], Access!JobOf(p)) \subseteq could'[p]
    BY <1>1, <1>2, <1>3, GoneOn DEF Access!Resting, Access!Reads
  <2>2. IF Access!Reads(route[p]) THEN "read" \in could'[p] ELSE "access" \in could'[p]
    BY <1>3, <2>1, PowersAre
  <2>3. /\ Access!Reads(route[p]) => there = "act"
        /\ route[p] = "execute" => there = "user"
        /\ ~Access!Reads(route[p]) /\ route[p] # "execute" => there = "role"
    BY DEF Access!Reads
  <2> HIDE DEF there
  <2> QED
    BY <1>1, <1>2, <2>1, <2>2, <2>3 DEF Routed, Checked, Executing, Access!Reads
<1>4. ok \in BOOLEAN
  BY DEF Access!CanAccess
<1> QED
  BY <1>1, <1>2, <1>3, <1>4, CheckKept

LEMMA CheckRoleKept ==
  ASSUME AccessInv, Access!Remember, NEW p \in Access!Procs, Access!CheckRole(p)
  PROVE  AccessInv'
<1> DEFINE there == IF p = Worker THEN "user" ELSE "act"
           ok == Access!Deployer(by[p])
<1>1. at[p] = "role" /\ Access!Check(p, ok, there) /\ there \in Places
  BY DEF Access!CheckRole, Places
<1>2. Routed(p) /\ Checked(p)
  BY DEF AccessInv
<1>3. ASSUME ok, Access!To(p, there) PROVE (Routed(p) /\ Checked(p))'
  <2>1. /\ at'[p] = there /\ by'[p] = by[p] /\ route'[p] = route[p] /\ on'[p] = on[p]
        /\ Access!Powers(by[p], Access!JobOf(p)) \subseteq could'[p] /\ could[p] \subseteq could'[p]
    BY <1>1, <1>3, GoneOn DEF Access!Resting
  <2>2. "role" \in could'[p]
    BY <1>3, <2>1, PowersAre
  <2> QED
    BY <1>1, <1>2, <2>1, <2>2 DEF Routed, Checked, Executing, Access!Reads
<1>4. ok \in BOOLEAN
  BY DEF Access!Deployer
<1> QED
  BY <1>1, <1>3, <1>4, CheckKept

LEMMA CheckAdministratorKept ==
  ASSUME AccessInv, Access!Remember, NEW p \in Access!Procs, Access!CheckAdministrator(p)
  PROVE  AccessInv'
<1>1. at[p] = "administrator" /\ Access!Check(p, Access!Administrator(by[p]), "act")
  BY DEF Access!CheckAdministrator
<1>2. Routed(p)
  BY DEF AccessInv
<1>3. ASSUME Access!Administrator(by[p]), Access!To(p, "act") PROVE (Routed(p) /\ Checked(p))'
  <2>1. /\ at'[p] = "act" /\ by'[p] = by[p] /\ route'[p] = route[p] /\ on'[p] = on[p]
        /\ Access!Powers(by[p], Access!JobOf(p)) \subseteq could'[p]
    BY <1>1, <1>3, GoneOn DEF Access!Resting, Places
  <2>2. "admin" \in could'[p]
    BY <1>3, <2>1, PowersAre
  <2> QED
    BY <1>1, <1>2, <2>1, <2>2 DEF Routed, Checked, Executing, Access!Reads
<1>4. Access!Administrator(by[p]) \in BOOLEAN
  BY <1>1, <1>2 DEF Access!Administrator, Access!Active, Routed, AccessInv, AccessTypes, Access!AccessTypeOK
<1> QED
  BY <1>1, <1>3, <1>4, CheckKept DEF Places

LEMMA ReadUserKept ==
  ASSUME AccessInv, Access!Remember, NEW p \in Access!Procs, Access!ReadUser(p)
  PROVE  AccessInv'
<1> DEFINE there == IF account[by[p]].role = "ADMIN" THEN "policy of an ADMIN" ELSE "policy"
           ok == Access!Active(by[p])
<1>1. at[p] = "user" /\ Access!Check(p, ok, there) /\ there \in Places
  BY DEF Access!ReadUser, Places
<1>2. Routed(p) /\ Checked(p) /\ AccessTypes
  BY DEF AccessInv
<1>3. ASSUME ok, Access!To(p, there), UNCHANGED Access!data PROVE (Routed(p) /\ Checked(p))'
  <2>1. /\ at'[p] = there /\ by'[p] = by[p] /\ route'[p] = route[p] /\ on'[p] = on[p]
        /\ Access!Powers(by[p], Access!JobOf(p)) \subseteq could'[p] /\ could[p] \subseteq could'[p]
    BY <1>1, <1>3, GoneOn DEF Access!Resting
  <2>2. account[by[p]].role = "ADMIN" \/ by[p] \in allowed => "org" \in could'[p]
    BY <1>3, <2>1, PowersAre
  <2>3. allowed' = allowed
    BY <1>3 DEF Access!data
  <2> QED
    BY <1>1, <1>2, <2>1, <2>2, <2>3 DEF Routed, Checked, Executing, Access!Reads
<1>4. ok \in BOOLEAN
  BY <1>1, <1>2 DEF Routed, AccessTypes, Access!AccessTypeOK, Access!Active
<1> QED
  BY <1>1, <1>3, <1>4, CheckKept

LEMMA ReadPolicyKept ==
  ASSUME AccessInv, Access!Remember, NEW p \in Access!Procs, Access!ReadPolicy(p)
  PROVE  AccessInv'
<1> DEFINE there == IF at[p] = "policy" THEN "grant" ELSE "act"
<1>1. at[p] \in {"policy", "policy of an ADMIN"} /\ Access!Check(p, policy, there) /\ there \in Places
  BY DEF Access!ReadPolicy, Places
<1>2. Routed(p) /\ Checked(p) /\ AccessTypes
  BY DEF AccessInv
<1>3. ASSUME policy, Access!To(p, there), UNCHANGED Access!data PROVE (Routed(p) /\ Checked(p))'
  <2>1. /\ at'[p] = there /\ by'[p] = by[p] /\ route'[p] = route[p] /\ on'[p] = on[p]
        /\ could[p] \subseteq could'[p]
    BY <1>1, <1>3, GoneOn DEF Access!Resting
  <2>2. allowed' = allowed /\ policy'
    BY <1>3 DEF Access!data
  <2> QED
    BY <1>1, <1>2, <2>1, <2>2 DEF Routed, Checked, Executing, Access!Reads
<1>4. policy \in BOOLEAN
  BY <1>2 DEF AccessTypes, Access!AccessTypeOK
<1> QED
  BY <1>1, <1>3, <1>4, CheckKept

LEMMA ReadGrantKept ==
  ASSUME AccessInv, Access!Remember, NEW p \in Access!Procs, Access!ReadGrant(p)
  PROVE  AccessInv'
<1>1. at[p] = "grant" /\ Access!Check(p, by[p] \in allowed, "act")
  BY DEF Access!ReadGrant
<1>2. Routed(p) /\ Checked(p)
  BY DEF AccessInv
<1>3. ASSUME by[p] \in allowed, Access!To(p, "act"), UNCHANGED Access!data PROVE (Routed(p) /\ Checked(p))'
  <2>1. /\ at'[p] = "act" /\ by'[p] = by[p] /\ route'[p] = route[p] /\ on'[p] = on[p]
        /\ could[p] \subseteq could'[p]
    BY <1>1, <1>3, GoneOn DEF Access!Resting, Places
  <2>2. policy => policy'
    BY <1>3 DEF Access!data
  <2> QED
    BY <1>1, <1>2, <1>3, <2>1, <2>2 DEF Routed, Checked, Executing, Access!Reads
<1>4. (by[p] \in allowed) \in BOOLEAN /\ "act" \in Places
  BY DEF Places
<1>5. p \in Access!Procs /\ Access!Check(p, by[p] \in allowed, "act")
  BY <1>1
<1> QED
  BY <1>3, <1>4, <1>5, CheckKept

(* The work of a request that has passed its checks.                       *)
LEMMA DoneKept ==
  ASSUME AccessInv, Access!Remember, DataKept, NEW p \in Access!Procs, Access!Done(p), at[p] = "act",
         Access!Needed(p) \subseteq could[p] \cup Access!Powers(by[p], Access!JobOf(p)), p # Worker
  PROVE  AccessInv'
<1>1. /\ at'[p] = "done" /\ by'[p] = by[p] /\ route'[p] = route[p] /\ on'[p] = on[p]
      /\ Routed(p) /\ could'[p] = could[p]
      /\ Access!Powers(by[p], Access!JobOf(p)) \subseteq could[p]
  BY GoneOn DEF Access!Resting, Places, Access!Done
<1>2. Access!Needed(p)' = Access!Needed(p)
  BY <1>1 DEF Access!Needed, Access!Reads
<1>3. (Routed(p) /\ Checked(p))'
  BY <1>1, <1>2 DEF Routed, Checked, Executing
<1> QED
  BY <1>3, Moved DEF Access!Done, Places

LEMMA RequestAnswerKept ==
  ASSUME AccessInv, Access!Remember, NEW p \in Requests, Access!Answer(p)
  PROVE  AccessInv'
<1>1. /\ at[p] = "act" /\ Access!Reads(route[p]) /\ p \in Access!Procs /\ p # Worker
      /\ Access!Check(p, owner[Access!JobOf(p)] # None, "done")
  BY AccessAssumption DEF Access!Answer, Access!Procs
<1>2. DataKept
  BY <1>1, UnchangedKept DEF Access!Check, Access!To, Access!Refused, AccessInv, AccessTypes
<1>3. Access!Needed(p) \subseteq could[p]
  BY <1>1 DEF AccessInv, Checked, Access!Needed, Access!Reads
<1>4. CASE owner[Access!JobOf(p)] # None
  BY <1>1, <1>2, <1>3, <1>4, DoneKept DEF Access!Check, Access!Done
<1>5. CASE owner[Access!JobOf(p)] = None
  BY <1>1, <1>2, <1>5, RefusedKept DEF Access!Check
<1> QED
  BY <1>4, <1>5

LEMMA ReconcileKept ==
  ASSUME AccessInv, Access!Remember, NEW p \in Requests, Access!Reconcile(p)
  PROVE  AccessInv'
<1>1. /\ at[p] = "act" /\ route[p] \in {"reconcile", "manual"} /\ p \in Access!Procs /\ p # Worker
      /\ Access!Check(p, owner[Access!JobOf(p)] # None, "done")
  BY AccessAssumption DEF Access!Reconcile, Access!Procs
<1>2. DataKept
  BY <1>1, UnchangedKept DEF Access!Check, Access!To, Access!Refused, AccessInv, AccessTypes
<1>3. Access!Needed(p) \subseteq could[p]
  BY <1>1 DEF AccessInv, Checked, Access!Needed, Access!Reads
<1>4. CASE owner[Access!JobOf(p)] # None
  BY <1>1, <1>2, <1>3, <1>4, DoneKept DEF Access!Check, Access!Done
<1>5. CASE owner[Access!JobOf(p)] = None
  BY <1>1, <1>2, <1>5, RefusedKept DEF Access!Check
<1> QED
  BY <1>4, <1>5

LEMMA AuthenticateKept ==
  ASSUME AccessInv, Access!Remember, NEW p \in Requests, Access!Authenticate(p)
  PROVE  AccessInv'
<1>1. PICK u \in Users, way \in Access!Routes, x \in Access!Jobs \cup Users :
        /\ x \in Access!Subjects(way)
        /\ by' = [by EXCEPT ![p] = u] /\ route' = [route EXCEPT ![p] = way] /\ on' = [on EXCEPT ![p] = x]
        /\ at' = [at EXCEPT ![p] = Access!First(way)]
  BY DEF Access!Authenticate
<1>2. AccessTypes /\ p \in Access!Procs /\ p # Worker /\ UNCHANGED Access!data
  BY AccessAssumption DEF AccessInv, Access!Authenticate, Access!Procs
<1>3. /\ Access!First(way) \in {"access", "listening", "administrator", "act"}
      /\ Access!First(way) = "access" => way \in {"read", "execute", "reconcile"}
      /\ Access!First(way) = "listening" => way = "event"
      /\ Access!First(way) = "administrator" => way = "manual"
      /\ Access!First(way) = "act" => way \notin {"read", "event", "execute", "reconcile", "manual"}
  BY DEF Access!First
<1>4. way \in {"allow", "disallow"} => x \in Users
  BY <1>1 DEF Access!Subjects
<1> HIDE DEF Access!First
<1>5. AccessTypes' /\ DataKept
  BY <1>1, <1>2, <1>3, UnchangedKept
     DEF AccessTypes, Access!AccessTypeOK, Access!data, Access!Procs, Places, Access!Routes, Access!Jobs
<1>6. ASSUME NEW q \in Access!Procs PROVE (Routed(q) /\ Remembered(q) /\ Checked(q))'
  <2>1. CASE q = p
    <3>1. at'[q] = Access!First(way) /\ by'[q] = u /\ route'[q] = way /\ on'[q] = x
      BY <1>1, <1>2, <2>1 DEF AccessTypes
    <3>2. Routed(q)' /\ Checked(q)'
      BY <1>2, <1>3, <1>4, <2>1, <3>1 DEF Routed, Checked, Executing, Access!Reads
    <3> QED
      BY <1>2, <3>2, StepRemembers
  <2>2. CASE q # p
    <3>1. at'[q] = at[q] /\ by'[q] = by[q] /\ route'[q] = route[q] /\ on'[q] = on[q]
      BY <1>1, <1>2, <2>2 DEF AccessTypes
    <3>2. by[q] \in allowed' \ allowed => account'[by[q]].active
      BY <1>5 DEF DataKept
    <3>3. policy => policy'
      BY <1>5 DEF DataKept
    <3> QED
      BY <3>1, <3>2, <3>3, OthersKept
  <2> QED
    BY <2>1, <2>2
<1>7. \A q \in Access!Procs' : (Routed(q) /\ Remembered(q) /\ Checked(q))'
  BY <1>6 DEF Access!Procs
<1> QED
  BY <1>5, <1>7 DEF AccessInv, DataKept

LEMMA PublishKept ==
  ASSUME AccessInv, Access!Remember, NEW p \in Requests, Access!Publish(p)
  PROVE  AccessInv'
<1>1. /\ route[p] = "event" /\ at[p] \in {"listening", "done"} /\ UNCHANGED Access!data
      /\ Access!To(p, "session") /\ p \in Access!Procs /\ p # Worker
  BY AccessAssumption DEF Access!Publish, Access!Procs
<1>2. DataKept
  BY <1>1, UnchangedKept DEF Access!To, AccessInv, AccessTypes
<1>3. at'[p] = "session" /\ by'[p] = by[p] /\ route'[p] = route[p] /\ on'[p] = on[p] /\ Routed(p)
  BY <1>1, GoneOn DEF Places
<1>4. (Routed(p) /\ Checked(p))'
  BY <1>1, <1>3 DEF Routed, Checked, Executing
<1> QED
  BY <1>1, <1>2, <1>4, Moved DEF Places

(* A request that makes the deployment: done, and the worker has it queued.*)
LEMMA QueueKept ==
  ASSUME AccessInv, Access!Remember, DataKept, NEW p \in Requests, Access!Queue(p), at[p] = "act",
         Access!Needed(p) \subseteq could[p] \cup Access!Powers(by[p], Access!JobOf(p))
  PROVE  AccessInv'
<1>1. /\ at' = [at EXCEPT ![p] = "done", ![Worker] = "queued"] /\ by' = [by EXCEPT ![Worker] = by[p]]
      /\ route' = route /\ on' = on
      /\ AccessTypes /\ p \in Access!Procs /\ p # Worker /\ Routed(p) /\ Remembered(p) /\ Routed(Worker)
  BY AccessAssumption DEF Access!Queue, AccessInv, Access!Procs
<1>2. /\ at'[p] = "done" /\ by'[p] = by[p] /\ route'[p] = route[p] /\ on'[p] = on[p]
      /\ at'[Worker] = "queued" /\ by'[Worker] = by[p] /\ by[p] \in Users /\ route'[Worker] = "none"
  BY <1>1 DEF AccessTypes, Routed, Access!Procs
<1>3. AccessTypes'
  BY <1>1, <1>2 DEF AccessTypes, DataKept, Access!Procs, Places, Access!Routes, Access!Jobs
<1>4. by[p] # None
  BY <1>2, AccessAssumption
<1>5. Access!Needed(p) \subseteq could[p]
  BY <1>1, <1>4 DEF Remembered, Access!PowersOf, Access!Resting
<1>6. Access!Needed(p)' = Access!Needed(p)
  BY <1>2 DEF Access!Needed, Access!Reads
<1>7. ASSUME NEW q \in Access!Procs PROVE (Routed(q) /\ Remembered(q) /\ Checked(q))'
  <2>1. Remembered(q)' /\ (at'[q] = "done" => could'[q] = could[q])
    BY <1>1, StepRemembers
  <2>2. CASE q = p
    BY <1>1, <1>2, <1>5, <1>6, <2>1, <2>2 DEF Routed, Checked, Executing
  <2>3. CASE q = Worker
    BY <1>2, <2>1, <2>3 DEF Routed, Checked, Executing
  <2>4. CASE q # p /\ q # Worker
    <3>1. at'[q] = at[q] /\ by'[q] = by[q] /\ route'[q] = route[q] /\ on'[q] = on[q]
      BY <1>1, <2>4 DEF AccessTypes
    <3>2. by[q] \in allowed' \ allowed => account'[by[q]].active
      BY DEF DataKept
    <3>3. policy => policy'
      BY DEF DataKept
    <3> QED
      BY <3>1, <3>2, <3>3, OthersKept
  <2> QED
    BY <2>2, <2>3, <2>4
<1>8. \A q \in Access!Procs' : (Routed(q) /\ Remembered(q) /\ Checked(q))'
  BY <1>7 DEF Access!Procs
<1> QED
  BY <1>3, <1>8 DEF AccessInv, DataKept

LEMMA SubmitKept ==
  ASSUME AccessInv, Access!Remember, NEW p \in Requests, Access!Submit(p)
  PROVE  AccessInv'
<1>1. /\ at[p] = "act" /\ route[p] = "submit" /\ p \in Access!Procs /\ p # Worker
      /\ UNCHANGED <<account, grant, told, policy, allowed>>
      /\ \/ owner' = [owner EXCEPT ![Dry] = by[p]] /\ Access!Done(p)
         \/ Access!Refused(p) /\ UNCHANGED owner
  BY AccessAssumption DEF Access!Submit, Access!Procs
<1>2. AccessTypes /\ by[p] \in Users /\ DOMAIN at' = Access!Procs /\ told = grant
  BY <1>1 DEF AccessInv, AccessTypes, Routed, Access!Refused, Access!Done, Access!To
<1>3. owner' \in [Access!Jobs -> Users \cup {None}]
  BY <1>1, <1>2 DEF AccessTypes, Access!AccessTypeOK
<1>4. DataKept
  BY <1>1, <1>2, <1>3 DEF AccessTypes, Access!AccessTypeOK, DataKept, Access!Procs, Access!Jobs, Access!Roles, Access!Permissions
<1>5. Access!Needed(p) = {}
  BY <1>1 DEF Access!Needed, Access!Reads
<1> QED
  BY <1>1, <1>4, <1>5, DoneKept, RefusedKept

LEMMA DirectKept ==
  ASSUME AccessInv, Access!Remember, NEW p \in Requests, Access!Direct(p)
  PROVE  AccessInv'
<1>1. /\ at[p] = "act" /\ route[p] = "direct" /\ p \in Access!Procs /\ p # Worker
      /\ UNCHANGED <<account, grant, told, policy, allowed>>
      /\ owner' = [owner EXCEPT ![Deploy] = by[p]] /\ Access!Queue(p)
  BY AccessAssumption DEF Access!Direct, Access!Procs
<1>2. AccessTypes /\ by[p] \in Users /\ DOMAIN at' = Access!Procs /\ told = grant
  BY <1>1 DEF AccessInv, AccessTypes, Routed, Access!Queue
<1>3. owner' \in [Access!Jobs -> Users \cup {None}]
  BY <1>1, <1>2 DEF AccessTypes, Access!AccessTypeOK
<1>4. DataKept
  BY <1>1, <1>2, <1>3 DEF AccessTypes, Access!AccessTypeOK, DataKept, Access!Procs, Access!Jobs, Access!Roles, Access!Permissions
<1>5. Access!Needed(p) = {}
  BY <1>1 DEF Access!Needed, Access!Reads
<1> QED
  BY <1>1, <1>4, <1>5, QueueKept

LEMMA ApproveKept ==
  ASSUME AccessInv, Access!Remember, NEW p \in Requests, Access!Approve(p)
  PROVE  AccessInv'
<1>1. /\ at[p] = "act" /\ route[p] = "execute" /\ p \in Access!Procs /\ p # Worker
      /\ UNCHANGED <<account, policy, allowed>>
      /\ \/ Access!Refused(p) /\ UNCHANGED <<owner, grant, told>>
         \/ /\ Access!Approves(by[p]) /\ Access!JobOf(p) = Dry
            /\ Access!Done(p) /\ UNCHANGED <<owner, grant, told>>
         \/ /\ Access!Approves(by[p]) /\ Access!JobOf(p) = Dry
            /\ owner' = [owner EXCEPT ![Deploy] = owner[Dry]]
            /\ grant' = [grant EXCEPT ![Deploy] = grant[Dry]]
            /\ told' = [told EXCEPT ![Deploy] = told[Dry]]
            /\ Access!Queue(p)
  BY AccessAssumption DEF Access!Approve, Access!Procs
<1>2. AccessTypes /\ by[p] \in Users /\ DOMAIN at' = Access!Procs /\ told = grant
  BY <1>1 DEF AccessInv, AccessTypes, Routed, Access!Refused, Access!Done, Access!To, Access!Queue
<1>3. owner' \in [Access!Jobs -> Users \cup {None}] /\ grant' \in [Access!Jobs -> [Users -> Access!Permissions]] /\ told' = grant'
  BY <1>1, <1>2 DEF AccessTypes, Access!AccessTypeOK, Access!Jobs
<1>4. DataKept
  BY <1>1, <1>2, <1>3 DEF AccessTypes, Access!AccessTypeOK, DataKept, Access!Procs, Access!Jobs, Access!Roles, Access!Permissions
<1>5. Checked(p)
  BY <1>1 DEF AccessInv
<1>6. Access!Needed(p) = {"access", "role", "org"} /\ {"access", "org"} \subseteq could[p]
  BY <1>1, <1>5 DEF Access!Needed, Access!Reads, Checked
<1>7. Access!Approves(by[p]) => "role" \in Access!Powers(by[p], Access!JobOf(p))
  BY PowersAre DEF Access!Approves
<1>8. Access!Approves(by[p]) =>
        Access!Needed(p) \subseteq could[p] \cup Access!Powers(by[p], Access!JobOf(p))
  BY <1>6, <1>7
<1> QED
  BY <1>1, <1>4, <1>8, DoneKept, RefusedKept, QueueKept

LEMMA ShareKept ==
  ASSUME AccessInv, Access!Remember, NEW p \in Requests, Access!Share(p)
  PROVE  AccessInv'
<1> DEFINE permission == Access!PermissionOf(route[p])
<1>1. PICK j \in Access!Jobs :
      /\ at[p] = "act" /\ route[p] \in {"share READ", "share EXECUTE", "unshare"}
      /\ p \in Access!Procs /\ p # Worker
      /\ UNCHANGED <<account, owner, policy, allowed>>
      /\ \/ /\ grant' = [grant EXCEPT ![j][on[p]] = permission]
            /\ told' = [told EXCEPT ![j][on[p]] = permission] /\ Access!Done(p)
         \/ Access!Refused(p) /\ UNCHANGED <<grant, told>>
  BY AccessAssumption DEF Access!Share, Access!Procs, Access!Granted
<1>2. AccessTypes /\ DOMAIN at' = Access!Procs /\ told = grant
  BY <1>1 DEF AccessInv, AccessTypes, Access!Refused, Access!Done, Access!To
<1>3. permission \in Access!Permissions
  BY DEF Access!PermissionOf, Access!Permissions
<1> HIDE DEF permission
<1>4. grant' \in [Access!Jobs -> [Users -> Access!Permissions]] /\ told' = grant'
  <2>1. grant \in [Access!Jobs -> [Users -> Access!Permissions]]
    BY <1>2 DEF AccessTypes, Access!AccessTypeOK
  <2>2. grant[j] \in [Users -> Access!Permissions]
    BY <2>1
  <2>3. [grant[j] EXCEPT ![on[p]] = permission] \in [Users -> Access!Permissions]
    BY <1>3, <2>2
  <2> QED
    BY <1>1, <1>2, <2>1, <2>3
<1>5. DataKept
  BY <1>1, <1>2, <1>4 DEF AccessTypes, Access!AccessTypeOK, DataKept, Access!Procs, Access!Jobs, Access!Roles, Access!Permissions
<1>6. Access!Needed(p) = {}
  BY <1>1 DEF Access!Needed, Access!Reads
<1> QED
  BY <1>1, <1>5, <1>6, DoneKept, RefusedKept

LEMMA AllowKept ==
  ASSUME AccessInv, Access!Remember, NEW p \in Requests, Access!Allow(p)
  PROVE  AccessInv'
<1>1. /\ at[p] = "act" /\ route[p] \in {"allow", "disallow"} /\ p \in Access!Procs /\ p # Worker
      /\ UNCHANGED <<account, owner, grant, told>>
      /\ \/ Access!Refused(p) /\ UNCHANGED <<policy, allowed>>
         \/ /\ Access!Administrator(by[p]) /\ (route[p] = "allow" => Access!Active(on[p])) /\ Access!Done(p)
            /\ policy' = (policy \/ route[p] = "allow")
            /\ allowed' = IF route[p] = "allow" THEN allowed \cup {on[p]} ELSE allowed \ {on[p]}
  BY AccessAssumption DEF Access!Allow, Access!Procs
<1>2. AccessTypes /\ on[p] \in Users /\ DOMAIN at' = Access!Procs /\ told = grant
  BY <1>1 DEF AccessInv, AccessTypes, Routed, Access!Refused, Access!Done, Access!To
<1>3. /\ policy' \in BOOLEAN /\ allowed' \subseteq Users /\ (policy => policy')
      /\ \A u \in allowed' \ allowed : account'[u].active
  BY <1>1, <1>2 DEF AccessTypes, Access!AccessTypeOK, Access!Active
<1>4. DataKept
  BY <1>1, <1>2, <1>3 DEF AccessTypes, Access!AccessTypeOK, DataKept, Access!Procs, Access!Jobs, Access!Roles, Access!Permissions
<1>5. Access!Needed(p) = {"admin"}
  BY <1>1 DEF Access!Needed, Access!Reads
<1>6. Access!Administrator(by[p]) => "admin" \in Access!Powers(by[p], Access!JobOf(p))
  BY PowersAre
<1> QED
  BY <1>1, <1>4, <1>5, <1>6, DoneKept, RefusedKept

LEMMA TakeKept == ASSUME AccessInv, Access!Remember, Access!Take PROVE AccessInv'
<1>1. at[Worker] = "queued" /\ Access!To(Worker, "access") /\ UNCHANGED Access!data /\ Worker \in Access!Procs
  BY DEF Access!Take, Access!Procs
<1>2. DataKept
  BY <1>1, UnchangedKept DEF Access!To, AccessInv, AccessTypes
<1>3. /\ at'[Worker] = "access" /\ by'[Worker] = by[Worker] /\ route'[Worker] = route[Worker]
      /\ on'[Worker] = on[Worker] /\ Routed(Worker)
  BY <1>1, GoneOn DEF Places
<1>4. (Routed(Worker) /\ Checked(Worker))'
  BY <1>1, <1>3 DEF Routed, Checked, Executing
<1> QED
  BY <1>1, <1>2, <1>4, Moved DEF Places

LEMMA RequestBeginKept == ASSUME AccessInv, Access!Remember, Access!Begin PROVE AccessInv'
<1>1. at[Worker] = "act" /\ Access!To(Worker, "done") /\ UNCHANGED Access!data /\ Worker \in Access!Procs
  BY DEF Access!Begin, Access!Done, Access!Procs
<1>2. DataKept
  BY <1>1, UnchangedKept DEF Access!To, AccessInv, AccessTypes
<1>3. /\ at'[Worker] = "done" /\ by'[Worker] = by[Worker] /\ route'[Worker] = route[Worker]
      /\ on'[Worker] = on[Worker] /\ Routed(Worker) /\ Checked(Worker) /\ could'[Worker] = could[Worker]
  BY <1>1, GoneOn DEF Places
<1>4. policy' = policy
  BY <1>1 DEF Access!data
<1>5. (Routed(Worker) /\ Checked(Worker))'
  BY <1>1, <1>3, <1>4 DEF Routed, Checked, Executing, Access!Needed
<1> QED
  BY <1>1, <1>2, <1>5, Moved DEF Places

LEMMA ChangeAccountKept == ASSUME AccessInv, Access!Remember, Access!ChangeAccount PROVE AccessInv'
<1>1. /\ UNCHANGED <<owner, grant, told, policy, allowed, by, route, on, at>>
      /\ account' \in [Users -> [role : Access!Roles, active : BOOLEAN]]
      /\ AccessTypes
  BY AccessAssumption DEF Access!ChangeAccount, AccessInv, AccessTypes, Access!AccessTypeOK
<1>2. AccessTypes' /\ told' = grant'
  BY <1>1 DEF AccessInv, AccessTypes, Access!AccessTypeOK, Access!Procs, Places, Access!Routes, Access!Jobs,
              Access!Roles, Access!Permissions
<1>3. \A q \in Access!Procs : (Routed(q) /\ Remembered(q) /\ Checked(q))'
  BY <1>1, OthersKept
<1>4. \A q \in Access!Procs' : (Routed(q) /\ Remembered(q) /\ Checked(q))'
  BY <1>3 DEF Access!Procs
<1> QED
  BY <1>2, <1>4 DEF AccessInv

LEMMA AccessInvStep == ASSUME AccessInv, Access!AccessNext PROVE AccessInv'
<1> USE DEF Access!Procs
<1>1. Access!Remember /\ Access!AccessStep
  BY DEF Access!AccessNext
<1>2. ASSUME NEW p \in Requests,
             \/ Access!Authenticate(p) \/ Access!Publish(p) \/ Access!CheckSession(p) \/ Access!CheckAccess(p)
             \/ Access!CheckAdministrator(p) \/ Access!CheckRole(p)
      PROVE AccessInv'
  BY <1>1, <1>2, AuthenticateKept, PublishKept, CheckSessionKept, CheckAccessKept, CheckAdministratorKept, CheckRoleKept
<1>3. ASSUME NEW p \in Requests,
             \/ Access!ReadUser(p) \/ Access!ReadPolicy(p) \/ Access!ReadGrant(p) \/ Access!Answer(p) \/ Access!Submit(p)
      PROVE AccessInv'
  BY <1>1, <1>3, ReadUserKept, ReadPolicyKept, ReadGrantKept, RequestAnswerKept, SubmitKept
<1>4. ASSUME NEW p \in Requests,
             \/ Access!Direct(p) \/ Access!Approve(p) \/ Access!Reconcile(p) \/ Access!Share(p) \/ Access!Allow(p)
      PROVE AccessInv'
  BY <1>1, <1>4, DirectKept, ApproveKept, ReconcileKept, ShareKept, AllowKept
<1>5. CASE \/ Access!Take \/ Access!CheckAccess(Worker) \/ Access!CheckRole(Worker) \/ Access!ReadUser(Worker)
           \/ Access!ReadPolicy(Worker) \/ Access!ReadGrant(Worker) \/ Access!Begin \/ Access!ChangeAccount
  BY <1>1, <1>5, TakeKept, CheckAccessKept, CheckRoleKept, ReadUserKept, ReadPolicyKept, ReadGrantKept, RequestBeginKept,
     ChangeAccountKept
<1> QED
  BY <1>1, <1>2, <1>3, <1>4, <1>5 DEF Access!AccessStep

LEMMA AccessInvUnchanged == ASSUME AccessInv, UNCHANGED Access!accessVars PROVE AccessInv'
<1>1. /\ account' = account /\ owner' = owner /\ grant' = grant /\ told' = told /\ policy' = policy
      /\ allowed' = allowed /\ by' = by /\ route' = route /\ on' = on /\ at' = at /\ could' = could
  BY DEF Access!accessVars
<1>2. AccessTypes' = AccessTypes
  BY <1>1 DEF AccessTypes, Access!AccessTypeOK, Access!Procs, Access!Jobs, Access!Roles, Access!Permissions, Places,
              Access!Routes
<1>3. ASSUME NEW p PROVE Routed(p)' = Routed(p) /\ Remembered(p)' = Remembered(p) /\ Checked(p)' = Checked(p)
  <2>1. Routed(p)' = Routed(p)
    BY <1>1, Zenon DEF Routed, Executing
  <2>2. Remembered(p)' = Remembered(p)
    BY <1>1, Zenon DEF Remembered, Access!Resting, Access!PowersOf, Access!Powers, Access!CanAccess, Access!Active,
                Access!Administrator, Access!Deployer, Access!JobOf, Access!Jobs
  <2>3. Checked(p)' = Checked(p)
    BY <1>1, Zenon DEF Checked, Executing, Access!Reads, Access!Needed
  <2> QED
    BY <2>1, <2>2, <2>3
<1> QED
  BY <1>1, <1>2, <1>3 DEF AccessInv, Access!Procs

(* What a listed job's state promises, from the types alone.               *)
LEMMA AccessInvShows ==
  ASSUME AccessInv
  PROVE  /\ Access!AccessTypeOK /\ Access!DoneWhileEntitled
         /\ Access!AuditTellsGrants /\ Access!VisibleIsReadable
<1>1. Access!AccessTypeOK /\ Access!AuditTellsGrants
  BY DEF AccessInv, AccessTypes, Access!AuditTellsGrants
<1>2. Access!DoneWhileEntitled
  BY DEF AccessInv, Checked, Access!DoneWhileEntitled, Access!Procs
<1>3. Access!VisibleIsReadable
  BY <1>1 DEF Access!AccessTypeOK, Access!VisibleIsReadable, Access!Visible, Access!CanAccess, Access!Permissions
<1> QED
  BY <1>1, <1>2, <1>3

-----------------------------------------------------------------------------
(* The calls, and the statements that wait, each of a call of its own.     *)
CallRecords ==
  [at : {"new", "write", "list", "enabled", "answered", "failed"}, way : Network!Ways,
   address : Addresses \cup {CHOOSE a \in Addresses : TRUE}, read : SUBSET Addresses]
NetworkTypes ==
  /\ stored \in [allowed : SUBSET Addresses, check : BOOLEAN]
  /\ hosts \in [allowed : SUBSET (Addresses \cup Startup), check : BOOLEAN]
  /\ tail \in Seq(Calls)
  /\ change \in [Calls -> CallRecords]
  /\ \A c \in Calls : change[c].at \notin {"new", "failed"} => change[c].address \in Addresses
  /\ removed \subseteq Calls /\ switched \in BOOLEAN /\ stale \in BOOLEAN

Stands(n) == change[tail[n]].at
OnePerCall ==
  /\ \A m, n \in 1 .. Len(tail) : tail[m] = tail[n] => m = n
  /\ \A n \in 1 .. Len(tail) : Stands(n) \in {"write", "list", "enabled"}
  /\ \A c \in Calls : change[c].at \in {"write", "list", "enabled"} => \E n \in 1 .. Len(tail) : tail[n] = c

(* Who waits at n replaces the policy by what is stored now.               *)
Refreshes(n) == Stands(n) = "list" \/ (Stands(n) = "enabled" /\ change[tail[n]].read = stored.allowed)
StaleIsRefreshed ==
  /\ ~stale /\ hosts # [stored EXCEPT !.allowed = @ \cup Startup] => \E n \in 1 .. Len(tail) : Refreshes(n)
  /\ \A m \in 1 .. Len(tail) :
       Stands(m) = "enabled" /\ ~Refreshes(m) => \E n \in 1 .. Len(tail) : m < n /\ Refreshes(n)

(* What a removal has taken away, nobody behind it has read.               *)
RemovalHolds(c) ==
  /\ change[c].way = "remove" /\ change[c].address \notin stored.allowed
  /\ change[c].at \in {"list", "enabled", "answered"}
  /\ \A n \in 1 .. Len(tail) :
       Stands(n) = "enabled" /\ (\A m \in n .. Len(tail) : tail[m] # c) =>
         change[c].address \notin change[tail[n]].read
  /\ change[c].at = "enabled" => change[c].address \notin change[c].read
  /\ change[c].at # "list" =>
       \A n \in 1 .. Len(tail) : Stands(n) = "enabled" => change[c].address \notin change[tail[n]].read
  /\ change[c].at = "answered" => change[c].address \notin hosts.allowed \ Startup

NetworkInv ==
  /\ NetworkTypes /\ OnePerCall /\ StaleIsRefreshed
  /\ \A c \in removed : RemovalHolds(c)
  /\ switched => stored.check /\ hosts.check
-----------------------------------------------------------------------------
LEMMA NetworkInvInit == Network!PolicyInit => NetworkInv
<1> SUFFICES ASSUME Network!PolicyInit PROVE NetworkInv
  OBVIOUS
<1>1. <<>> \in Seq(Calls) /\ Len(<<>>) = 0
  OBVIOUS
<1>2. Network!Unmade \in CallRecords
  BY DEF Network!Unmade, CallRecords, Network!Ways
<1>3. NetworkTypes /\ hosts = [stored EXCEPT !.allowed = @ \cup Startup]
  BY <1>1, <1>2 DEF Network!PolicyInit, NetworkTypes, Network!Unmade
<1>4. OnePerCall /\ StaleIsRefreshed
  BY <1>1, <1>3 DEF Network!PolicyInit, OnePerCall, StaleIsRefreshed, Network!Unmade
<1> QED
  BY <1>3, <1>4 DEF NetworkInv, Network!PolicyInit

(* A statement handed in, and the first one that has run and is followed.  *)
LEMMA HandedIn ==
  ASSUME NEW s \in Seq(Calls), NEW c \in Calls
  PROVE  /\ Append(s, c) \in Seq(Calls) /\ Len(Append(s, c)) = Len(s) + 1 /\ Len(s) \in Nat
         /\ \A n \in 1 .. Len(s) : Append(s, c)[n] = s[n]
         /\ Append(s, c)[Len(s) + 1] = c
  OBVIOUS

LEMMA RunAndGone ==
  ASSUME NEW s \in Seq(Calls), s # <<>>
  PROVE  /\ Tail(s) \in Seq(Calls) /\ Len(Tail(s)) = Len(s) - 1 /\ Len(s) \in Nat \ {0}
         /\ \A n \in 1 .. Len(s) - 1 : Tail(s)[n] = s[n + 1]
         /\ Head(s) = s[1]
  OBVIOUS

LEMMA RunAndFollowed ==
  ASSUME NEW s \in Seq(Calls), s # <<>>, NEW c \in Calls
  PROVE  /\ Append(Tail(s), c) \in Seq(Calls) /\ Len(Append(Tail(s), c)) = Len(s) /\ Len(s) \in Nat \ {0}
         /\ \A n \in 1 .. Len(s) - 1 : Append(Tail(s), c)[n] = s[n + 1]
         /\ Append(Tail(s), c)[Len(s)] = c
         /\ Head(s) = s[1]
  OBVIOUS

LEMMA RequestKept == ASSUME NetworkInv, NEW c \in Calls, Network!Request(c) PROVE NetworkInv'
<1>1. PICK way \in Network!Ways, a \in Addresses :
        change' = [change EXCEPT ![c] = [@ EXCEPT !.at = "write", !.way = way, !.address = a]]
  BY DEF Network!Request
<1>2. /\ change[c].at = "new" /\ tail' = Append(tail, c) /\ UNCHANGED <<stored, hosts, removed, switched, stale>>
      /\ NetworkTypes /\ OnePerCall /\ StaleIsRefreshed /\ tail \in Seq(Calls)
  BY DEF Network!Request, Network!Waits, NetworkInv, NetworkTypes
<1> DEFINE r == [change[c] EXCEPT !.at = "write", !.way = way, !.address = a]
<1>3. /\ change' = [change EXCEPT ![c] = r] /\ r.at = "write" /\ r.address \in Addresses
      /\ r \in CallRecords
  <2>1. change[c] \in CallRecords
    BY <1>2 DEF NetworkTypes
  <2>2. r \in CallRecords /\ r.at = "write" /\ r.address = a
    BY <2>1 DEF CallRecords
  <2> QED
    BY <1>1, <2>2
<1> HIDE DEF r
<1>4. /\ Len(tail') = Len(tail) + 1 /\ Len(tail) \in Nat /\ tail' \in Seq(Calls)
      /\ \A n \in 1 .. Len(tail) : tail'[n] = tail[n]
      /\ tail'[Len(tail) + 1] = c
  BY <1>2, HandedIn
<1>5. \A n \in 1 .. Len(tail) : tail[n] \in Calls /\ tail[n] # c
  BY <1>2 DEF NetworkTypes, OnePerCall, Stands
<1>6. \A d \in Calls : d # c => change'[d] = change[d]
  BY <1>3 DEF NetworkTypes
<1>7. change'[c] = r
  BY <1>2, <1>3 DEF NetworkTypes
<1>8. NetworkTypes'
  BY <1>2, <1>3, <1>4, <1>6, <1>7 DEF NetworkTypes, Network!Ways
<1>9. \A n \in 1 .. Len(tail) : tail'[n] = tail[n] /\ change'[tail'[n]] = change[tail[n]]
  BY <1>4, <1>5, <1>6
<1>10. OnePerCall'
  BY <1>2, <1>3, <1>4, <1>5, <1>6, <1>7, <1>9 DEF OnePerCall, Stands
<1>11. StaleIsRefreshed'
  <2>1. \A n \in 1 .. Len(tail) : Stands(n)' = Stands(n) /\ Refreshes(n)' = Refreshes(n)
    BY <1>2, <1>9 DEF Stands, Refreshes
  <2>2. \A m \in 1 .. Len(tail') : m \in 1 .. Len(tail) \/ Stands(m)' = "write"
    BY <1>3, <1>4, <1>7 DEF Stands
  <2>3. \A n \in 1 .. Len(tail) : n \in 1 .. Len(tail')
    BY <1>4
  <2>4. (~stale /\ hosts # [stored EXCEPT !.allowed = @ \cup Startup])' =>
           \E n \in 1 .. Len(tail') : Refreshes(n)'
    BY <1>2, <2>1, <2>3 DEF StaleIsRefreshed
  <2>5. ASSUME NEW m \in 1 .. Len(tail'), Stands(m)' = "enabled", ~Refreshes(m)'
        PROVE  \E n \in 1 .. Len(tail') : m < n /\ Refreshes(n)'
    <3>1. m \in 1 .. Len(tail) /\ Stands(m) = "enabled" /\ ~Refreshes(m)
      BY <2>1, <2>2, <2>5
    <3>2. PICK n \in 1 .. Len(tail) : m < n /\ Refreshes(n)
      BY <1>2, <3>1 DEF StaleIsRefreshed
    <3> QED
      BY <2>1, <2>3, <3>2
  <2> QED
    BY <2>4, <2>5 DEF StaleIsRefreshed
<1>12. ASSUME NEW d \in removed PROVE RemovalHolds(d)'
  <2>1. RemovalHolds(d) /\ d \in Calls /\ d # c
    BY <1>2 DEF NetworkInv, RemovalHolds, NetworkTypes
  <2>2. change'[d] = change[d]
    BY <1>6, <2>1
  <2>3. ASSUME NEW n \in 1 .. Len(tail'), Stands(n)' = "enabled"
        PROVE  n \in 1 .. Len(tail) /\ Stands(n) = "enabled" /\ change'[tail'[n]] = change[tail[n]]
    BY <1>3, <1>4, <1>7, <1>9, <2>3 DEF Stands
  <2>4. ASSUME NEW n \in 1 .. Len(tail), \A m \in n .. Len(tail') : tail'[m] # d
        PROVE  \A m \in n .. Len(tail) : tail[m] # d
    BY <1>4, <2>4
  <2> QED
    BY <1>2, <2>1, <2>2, <2>3, <2>4 DEF RemovalHolds
<1> QED
  BY <1>2, <1>8, <1>10, <1>11, <1>12 DEF NetworkInv

(* The first statement runs, its call goes on, and hands in the next.      *)
Followed(c, N) ==
  /\ Len(tail) = N /\ Len(tail') = N /\ N \in Nat \ {0} /\ tail[1] = c /\ tail'[N] = c
  /\ \A n \in 1 .. N - 1 : /\ tail'[n] = tail[n + 1] /\ tail'[n] # c
                           /\ change'[tail'[n]] = change[tail[n + 1]]

LEMMA FollowedKept ==
  ASSUME NetworkInv, NEW c \in Calls, NEW N,
         N \in Nat \ {0}, Len(tail) = N, Len(tail') = N, tail[1] = c, tail'[N] = c,
         \A n \in 1 .. N - 1 : tail'[n] = tail[n + 1],
         \A d \in Calls \ {c} : change'[d] = change[d],
         change'[c].at \in {"list", "enabled"}
  PROVE  Followed(c, N) /\ OnePerCall'
<1>1. NetworkTypes /\ OnePerCall
  BY DEF NetworkInv
<1>2. ASSUME NEW n \in 1 .. N - 1
      PROVE  n + 1 \in 1 .. N /\ tail[n + 1] \in Calls /\ tail[n + 1] # c
  <2>1. n + 1 \in 1 .. N /\ 1 \in 1 .. N /\ n + 1 # 1
    OBVIOUS
  <2> QED
    BY <1>1, <2>1 DEF OnePerCall, NetworkTypes
<1>3. Followed(c, N)
  BY <1>2 DEF Followed
<1>4. \A m, n \in 1 .. N : tail'[m] = tail'[n] => m = n
  <2> SUFFICES ASSUME NEW m \in 1 .. N, NEW n \in 1 .. N, tail'[m] = tail'[n] PROVE m = n
    OBVIOUS
  <2>1. CASE m \in 1 .. N - 1 /\ n \in 1 .. N - 1
    <3>1. m + 1 \in 1 .. N /\ n + 1 \in 1 .. N /\ tail[m + 1] = tail[n + 1]
      BY <2>1
    <3>2. m + 1 = n + 1
      BY <1>1, <3>1 DEF OnePerCall
    <3> QED
      BY <3>2
  <2>2. CASE m = N /\ n \in 1 .. N - 1
    BY <1>2, <2>2
  <2>3. CASE n = N /\ m \in 1 .. N - 1
    BY <1>2, <2>3
  <2> QED
    BY <2>1, <2>2, <2>3
<1>5. ASSUME NEW n \in 1 .. N PROVE Stands(n)' \in {"write", "list", "enabled"}
  <2>1. CASE n = N
    BY <2>1 DEF Stands
  <2>2. CASE n \in 1 .. N - 1
    BY <1>1, <1>2, <1>3, <2>2 DEF OnePerCall, Stands, Followed
  <2> QED
    BY <2>1, <2>2
<1>6. ASSUME NEW d \in Calls, change'[d].at \in {"write", "list", "enabled"}
      PROVE  \E n \in 1 .. N : tail'[n] = d
  <2>1. CASE d = c
    BY <2>1
  <2>2. CASE d # c
    <3>1. PICK n \in 1 .. N : tail[n] = d
      BY <1>1, <1>6, <2>2 DEF OnePerCall
    <3>2. n - 1 \in 1 .. N - 1 /\ n - 1 \in 1 .. N /\ (n - 1) + 1 = n
      BY <2>2, <3>1
    <3> QED
      BY <3>1, <3>2
  <2> QED
    BY <2>1, <2>2
<1> QED
  BY <1>3, <1>4, <1>5, <1>6 DEF OnePerCall

(* What its call has read, or will read, is what is stored by now.         *)
LEMMA LastRefreshes ==
  ASSUME NEW c, NEW N \in Nat, Followed(c, N), change'[c].at = "list"
  PROVE  StaleIsRefreshed'
<1>1. Refreshes(N)' /\ N \in 1 .. N /\ Len(tail') = N
  BY DEF Refreshes, Stands, Followed
<1>2. ASSUME NEW m \in 1 .. N, ~Refreshes(m)' PROVE m < N
  BY <1>1, <1>2
<1> QED
  BY <1>1, <1>2 DEF StaleIsRefreshed

(* A removal that is behind nobody who is asked for the addresses.         *)
LEMMA RemovalFollowed ==
  ASSUME NetworkInv, NEW c \in Calls, NEW N \in Nat, Followed(c, N), NEW d \in removed, d # c,
         change'[d] = change[d], change'[c].at = "enabled" => change[d].address \notin change'[c].read,
         change[d].address \notin stored'.allowed, hosts' = hosts
  PROVE  RemovalHolds(d)'
<1>1. RemovalHolds(d) /\ Len(tail) = N /\ Len(tail') = N
  BY DEF NetworkInv, Followed
<1>2. ASSUME NEW n \in 1 .. N - 1, Stands(n)' = "enabled"
      PROVE  n + 1 \in 1 .. N /\ Stands(n + 1) = "enabled" /\ change'[tail'[n]] = change[tail[n + 1]]
  BY <1>2 DEF Stands, Followed
<1>3. ASSUME NEW n \in 1 .. N - 1, \A m \in n .. N : tail'[m] # d
      PROVE  \A m \in n + 1 .. N : tail[m] # d
  <2> SUFFICES ASSUME NEW m \in n + 1 .. N PROVE tail[m] # d
    OBVIOUS
  <2>1. m - 1 \in n .. N /\ m - 1 \in 1 .. N - 1 /\ (m - 1) + 1 = m
    OBVIOUS
  <2>2. tail'[m - 1] = tail[m]
    BY <2>1 DEF Followed
  <2> QED
    BY <1>3, <2>1, <2>2
<1>4. ASSUME NEW n \in 1 .. N, Stands(n)' = "enabled", \A m \in n .. N : tail'[m] # d
      PROVE  change[d].address \notin change'[tail'[n]].read
  <2>1. CASE n = N
    BY <1>4, <2>1 DEF Stands, Followed
  <2>2. CASE n \in 1 .. N - 1
    BY <1>1, <1>2, <1>3, <1>4, <2>2 DEF RemovalHolds
  <2> QED
    BY <2>1, <2>2
<1>5. ASSUME change[d].at # "list", NEW n \in 1 .. N, Stands(n)' = "enabled"
      PROVE  change[d].address \notin change'[tail'[n]].read
  <2>1. CASE n = N
    BY <1>5, <2>1 DEF Stands, Followed
  <2>2. CASE n \in 1 .. N - 1
    BY <1>1, <1>2, <1>5, <2>2 DEF RemovalHolds
  <2> QED
    BY <2>1, <2>2
<1> QED
  BY <1>1, <1>4, <1>5 DEF RemovalHolds

LEMMA WriteKept == ASSUME NetworkInv, NEW c \in Calls, Network!Write(c) PROVE NetworkInv'
<1>1. /\ tail # <<>> /\ Head(tail) = c /\ change[c].at = "write"
      /\ tail' = Append(Tail(tail), c) /\ change' = [change EXCEPT ![c].at = "list"]
      /\ stored' = Network!Changed(stored, change[c].way, change[c].address)
      /\ removed' = CASE change[c].way = "add"    -> {d \in removed : change[d].address # change[c].address}
                      [] change[c].way = "remove" -> removed \cup {c}
                      [] OTHER                    -> removed
      /\ switched' = (switched /\ change[c].way # "off") /\ hosts' = hosts /\ stale' = stale
      /\ NetworkTypes
  BY DEF Network!Write, Network!First, Network!Again, Network!Goes, NetworkInv
<1> DEFINE r == [change[c] EXCEPT !.at = "list"]
<1>2. /\ change' = [change EXCEPT ![c] = r] /\ change'[c] = r /\ r.at = "list"
      /\ r.way = change[c].way /\ r.address = change[c].address /\ r.address \in Addresses
      /\ r \in CallRecords
  <2>1. change[c] \in CallRecords /\ change[c].address \in Addresses /\ change \in [Calls -> CallRecords]
    BY <1>1 DEF NetworkTypes
  <2>2. /\ r \in CallRecords /\ r.at = "list"
        /\ r.way = change[c].way /\ r.address = change[c].address
    BY <2>1 DEF CallRecords
  <2>3. change' = [change EXCEPT ![c] = r]
    BY <1>1, <2>1
  <2> QED
    BY <2>1, <2>2, <2>3
<1> HIDE DEF r
<1>3. \A d \in Calls \ {c} : change'[d] = change[d]
  BY <1>2 DEF NetworkTypes
<1>4. /\ stored' \in [allowed : SUBSET Addresses, check : BOOLEAN]
      /\ change[c].way # "add" => stored'.allowed \subseteq stored.allowed
      /\ change[c].way = "add" => stored'.allowed = stored.allowed \cup {change[c].address}
      /\ change[c].way = "remove" => change[c].address \notin stored'.allowed
      /\ stored.check /\ change[c].way # "off" => stored'.check
  <2>1. stored \in [allowed : SUBSET Addresses, check : BOOLEAN] /\ change[c].way \in Network!Ways
    BY <1>1 DEF NetworkTypes, CallRecords
  <2>2. CASE change[c].way = "add"
    BY <1>1, <1>2, <2>1, <2>2 DEF Network!Changed
  <2>3. CASE change[c].way = "remove"
    BY <1>1, <1>2, <2>1, <2>3 DEF Network!Changed
  <2>4. CASE change[c].way \in {"on", "off"}
    BY <1>1, <1>2, <2>1, <2>4 DEF Network!Changed
  <2> QED
    BY <2>1, <2>2, <2>3, <2>4 DEF Network!Ways
<1>5. tail' \in Seq(Calls) /\ removed' \subseteq Calls
  BY <1>1, RunAndFollowed DEF NetworkTypes
<1>6. NetworkTypes'
  <2>1. hosts' = hosts /\ switched' \in BOOLEAN /\ change' \in [Calls -> CallRecords]
    BY <1>1, <1>2 DEF NetworkTypes
  <2>2. \A d \in Calls : change'[d].at \notin {"new", "failed"} => change'[d].address \in Addresses
    BY <1>1, <1>2, <1>3 DEF NetworkTypes
  <2>3. CallRecords' = CallRecords
    BY DEF CallRecords, Network!Ways
  <2> QED
    BY <1>1, <1>4, <1>5, <2>1, <2>2, <2>3 DEF NetworkTypes
<1>7. PICK N \in Nat \ {0} : Followed(c, N) /\ OnePerCall'
  <2>1. /\ Len(tail') = Len(tail) /\ Len(tail) \in Nat \ {0} /\ tail[1] = c /\ tail'[Len(tail)] = c
        /\ \A n \in 1 .. Len(tail) - 1 : tail'[n] = tail[n + 1]
    BY <1>1, RunAndFollowed DEF NetworkTypes
  <2> QED
    BY <1>2, <1>3, <2>1, FollowedKept
<1>8. StaleIsRefreshed'
  BY <1>2, <1>7, LastRefreshes
<1>9. ASSUME NEW d \in removed' PROVE RemovalHolds(d)'
  <2>1. CASE d = c
    <3>1. change[c].way = "remove" \/ c \in removed
      BY <1>1, <1>9, <2>1
    <3>2. c \notin removed
      BY <1>1 DEF NetworkInv, RemovalHolds
    <3>3. \A n \in 1 .. N : ~(\A m \in n .. N : tail'[m] # c)
      BY <1>7 DEF Followed
    <3>4. Len(tail') = N /\ change'[c] = r /\ change[c].address \notin stored'.allowed
      BY <1>2, <1>4, <1>7, <3>1, <3>2 DEF Followed
    <3> QED
      BY <1>2, <2>1, <3>1, <3>2, <3>3, <3>4 DEF RemovalHolds
  <2>2. CASE d # c
    <3>1. d \in removed /\ (change[c].way = "add" => change[d].address # change[c].address)
      BY <1>1, <1>9, <2>2
    <3>2. RemovalHolds(d) /\ d \in Calls /\ change'[d] = change[d]
      BY <1>3, <2>2, <3>1 DEF NetworkInv, NetworkTypes
    <3>3. change[d].address \notin stored'.allowed
      BY <1>4, <3>1, <3>2 DEF RemovalHolds
    <3> QED
      BY <1>1, <1>2, <1>7, <2>2, <3>1, <3>2, <3>3, RemovalFollowed
  <2> QED
    BY <2>1, <2>2
<1> QED
  BY <1>1, <1>4, <1>6, <1>7, <1>8, <1>9 DEF NetworkInv

LEMMA ListKept == ASSUME NetworkInv, NEW c \in Calls, Network!List(c) PROVE NetworkInv'
<1>1. /\ tail # <<>> /\ Head(tail) = c /\ change[c].at = "list"
      /\ tail' = Append(Tail(tail), c)
      /\ change' = [change EXCEPT ![c].read = stored.allowed, ![c].at = "enabled"]
      /\ UNCHANGED <<stored, hosts, removed, switched, stale>>
      /\ NetworkTypes /\ StaleIsRefreshed
  BY DEF Network!List, Network!First, Network!Again, NetworkInv
<1> DEFINE r == [change[c] EXCEPT !.read = stored.allowed, !.at = "enabled"]
<1>2. /\ change' = [change EXCEPT ![c] = r] /\ change'[c] = r /\ r.at = "enabled" /\ r.read = stored.allowed
      /\ r.way = change[c].way /\ r.address = change[c].address /\ r.address \in Addresses
      /\ r \in CallRecords
  <2>1. change[c] \in CallRecords /\ stored.allowed \in SUBSET Addresses /\ change \in [Calls -> CallRecords]
    BY <1>1 DEF NetworkTypes
  <2>2. /\ r \in CallRecords /\ r.at = "enabled" /\ r.read = stored.allowed
        /\ r.way = change[c].way /\ r.address = change[c].address
    BY <2>1 DEF CallRecords
  <2>3. change' = [change EXCEPT ![c] = r]
    BY <1>1, <2>1
  <2> QED
    BY <1>1, <2>1, <2>2, <2>3 DEF NetworkTypes
<1> HIDE DEF r
<1>3. \A d \in Calls \ {c} : change'[d] = change[d]
  BY <1>1, <1>2 DEF NetworkTypes
<1>4. NetworkTypes'
  <2>1. change' \in [Calls -> CallRecords] /\ tail' \in Seq(Calls)
    BY <1>1, <1>2, RunAndFollowed DEF NetworkTypes
  <2>2. \A d \in Calls : change'[d].at \notin {"new", "failed"} => change'[d].address \in Addresses
    BY <1>1, <1>2, <1>3 DEF NetworkTypes
  <2>3. CallRecords' = CallRecords
    BY DEF CallRecords, Network!Ways
  <2> QED
    BY <1>1, <2>1, <2>2, <2>3 DEF NetworkTypes
<1>5. PICK N \in Nat \ {0} : Followed(c, N) /\ OnePerCall'
  <2>1. /\ Len(tail') = Len(tail) /\ Len(tail) \in Nat \ {0} /\ tail[1] = c /\ tail'[Len(tail)] = c
        /\ \A n \in 1 .. Len(tail) - 1 : tail'[n] = tail[n + 1]
    BY <1>1, RunAndFollowed DEF NetworkTypes
  <2> QED
    BY <1>2, <1>3, <2>1, FollowedKept
<1>6. StaleIsRefreshed'
  <2>1. Refreshes(N)' /\ N \in 1 .. N /\ Len(tail') = N
    <3>1. tail'[N] = c /\ Len(tail') = N /\ N \in 1 .. N
      BY <1>5 DEF Followed
    <3>2. change'[c].at = "enabled" /\ change'[c].read = stored'.allowed
      BY <1>1, <1>2
    <3> QED
      BY <3>1, <3>2 DEF Refreshes, Stands
  <2>2. ASSUME NEW m \in 1 .. N, ~Refreshes(m)' PROVE m < N
    BY <2>1, <2>2
  <2> QED
    BY <2>1, <2>2 DEF StaleIsRefreshed
<1>7. ASSUME NEW d \in removed' PROVE RemovalHolds(d)'
  <2>1. RemovalHolds(d) /\ d \in removed /\ d \in Calls
    BY <1>1 DEF NetworkInv, NetworkTypes
  <2>2. CASE d # c
    <3>1. change[d].address \notin stored.allowed /\ change'[d] = change[d] /\ change'[c].read = stored.allowed
      BY <1>2, <1>3, <2>1, <2>2 DEF RemovalHolds
    <3>2. stored' = stored /\ hosts' = hosts
      BY <1>1
    <3> QED
      BY <1>5, <2>1, <2>2, <3>1, <3>2, RemovalFollowed
  <2>3. CASE d = c
    <3>1. tail[1] = c /\ Len(tail) = N /\ Len(tail') = N
      BY <1>5 DEF Followed
    <3>2. ASSUME NEW n \in 1 .. N - 1, NEW m \in n + 1 .. N PROVE tail[m] # c
      <4>1. m - 1 \in 1 .. N - 1 /\ (m - 1) + 1 = m
        OBVIOUS
      <4>2. \A k \in 1 .. N - 1 : tail'[k] = tail[k + 1] /\ tail'[k] # c
        BY <1>5 DEF Followed
      <4>3. tail'[m - 1] = tail[(m - 1) + 1] /\ tail'[m - 1] # c
        BY <4>1, <4>2
      <4> QED
        BY <4>1, <4>3
    <3>3. ASSUME NEW n \in 1 .. N, Stands(n)' = "enabled" PROVE change[c].address \notin change'[tail'[n]].read
      <4>1. CASE n = N
        <5>1. tail'[n] = c
          BY <1>5, <4>1 DEF Followed
        <5>2. change'[c].read = stored.allowed /\ change[c].address \notin stored.allowed
          BY <1>2, <2>1, <2>3 DEF RemovalHolds
        <5> QED
          BY <5>1, <5>2
      <4>2. CASE n \in 1 .. N - 1
        <5>1. n + 1 \in 1 .. N /\ Stands(n + 1) = "enabled" /\ change'[tail'[n]] = change[tail[n + 1]]
          BY <1>5, <3>3, <4>2 DEF Stands, Followed
        <5> QED
          BY <2>1, <2>3, <3>1, <3>2, <4>2, <5>1 DEF RemovalHolds
      <4> QED
        BY <4>1, <4>2
    <3> QED
      BY <1>1, <1>2, <2>1, <2>3, <3>1, <3>3 DEF RemovalHolds
  <2> QED
    BY <2>2, <2>3
<1> QED
  BY <1>1, <1>4, <1>5, <1>6, <1>7 DEF NetworkInv

(* The first statement runs, and its call is answered: the others go up.   *)
Gone(c, N) ==
  /\ N \in Nat \ {0} /\ Len(tail) = N /\ Len(tail') = N - 1 /\ tail[1] = c
  /\ \A n \in 1 .. N - 1 : /\ n + 1 \in 1 .. N /\ tail[n + 1] \in Calls /\ tail[n + 1] # c
                           /\ tail'[n] = tail[n + 1] /\ change'[tail'[n]] = change[tail[n + 1]]
                           /\ Stands(n)' = Stands(n + 1) /\ Refreshes(n)' = Refreshes(n + 1)

LEMMA GoneKept ==
  ASSUME NetworkInv, NEW c \in Calls, tail # <<>>, Head(tail) = c, tail' = Tail(tail), stored' = stored,
         \A d \in Calls \ {c} : change'[d] = change[d], change'[c].at \in {"answered", "failed"}
  PROVE  \E N \in Nat \ {0} : Gone(c, N) /\ OnePerCall'
<1>1. NetworkTypes /\ OnePerCall
  BY DEF NetworkInv
<1>2. PICK N \in Nat \ {0} :
        /\ Len(tail) = N /\ Len(tail') = N - 1 /\ tail[1] = c
        /\ \A n \in 1 .. N - 1 : tail'[n] = tail[n + 1]
  BY <1>1, RunAndGone DEF NetworkTypes
<1>3. ASSUME NEW n \in 1 .. N - 1
      PROVE  /\ n + 1 \in 1 .. N /\ tail[n + 1] \in Calls /\ tail[n + 1] # c
             /\ tail'[n] = tail[n + 1] /\ change'[tail'[n]] = change[tail[n + 1]]
             /\ Stands(n)' = Stands(n + 1) /\ Refreshes(n)' = Refreshes(n + 1)
  <2>1. n + 1 \in 1 .. N /\ 1 \in 1 .. N /\ n + 1 # 1
    OBVIOUS
  <2>2. tail[n + 1] \in Calls /\ tail[n + 1] # c
    BY <1>1, <1>2, <2>1 DEF OnePerCall, NetworkTypes
  <2>3. tail'[n] = tail[n + 1] /\ change'[tail'[n]] = change[tail[n + 1]]
    BY <1>2, <2>2
  <2> QED
    BY <2>1, <2>2, <2>3 DEF Stands, Refreshes
<1>4. Gone(c, N)
  BY <1>2, <1>3 DEF Gone
<1>5. ASSUME NEW m \in 1 .. N - 1, NEW n \in 1 .. N - 1, tail'[m] = tail'[n] PROVE m = n
  <2>1. m + 1 = n + 1
    BY <1>1, <1>2, <1>3, <1>5 DEF OnePerCall
  <2> QED
    BY <2>1
<1>6. ASSUME NEW n \in 1 .. N - 1 PROVE Stands(n)' \in {"write", "list", "enabled"}
  BY <1>1, <1>2, <1>3, <1>6 DEF OnePerCall
<1>7. ASSUME NEW d \in Calls, change'[d].at \in {"write", "list", "enabled"}
      PROVE  \E n \in 1 .. N - 1 : tail'[n] = d
  <2>1. d # c /\ change'[d] = change[d]
    BY <1>7
  <2>2. PICK n \in 1 .. N : tail[n] = d
    BY <1>1, <1>2, <1>7, <2>1 DEF OnePerCall
  <2>3. n - 1 \in 1 .. N - 1 /\ (n - 1) + 1 = n
    BY <1>2, <2>1, <2>2
  <2> QED
    BY <1>2, <2>2, <2>3
<1>8. OnePerCall'
  BY <1>2, <1>5, <1>6, <1>7 DEF OnePerCall
<1> QED
  BY <1>4, <1>8

(* Who is behind the call and refreshes the policy still does so.          *)
LEMMA StillRefreshed ==
  ASSUME NetworkInv, NEW c \in Calls, NEW N \in Nat \ {0}, Gone(c, N)
  PROVE  /\ \A m \in 1 .. N : Stands(m) = "enabled" /\ ~Refreshes(m) =>
              \E n \in 1 .. N - 1 : m < n + 1 /\ Refreshes(n)'
         /\ \A m \in 1 .. N - 1 : Stands(m)' = "enabled" /\ ~Refreshes(m)' =>
              \E n \in 1 .. N - 1 : m < n /\ Refreshes(n)'
<1>1. ASSUME NEW m \in 1 .. N, Stands(m) = "enabled", ~Refreshes(m)
      PROVE  \E n \in 1 .. N - 1 : m < n + 1 /\ Refreshes(n)'
  <2>1. PICK n \in 1 .. N : m < n /\ Refreshes(n)
    BY <1>1 DEF NetworkInv, StaleIsRefreshed, Gone
  <2>2. n - 1 \in 1 .. N - 1 /\ (n - 1) + 1 = n
    BY <2>1
  <2>3. Refreshes(n - 1)'
    BY <2>1, <2>2 DEF Gone
  <2> QED
    BY <2>1, <2>2, <2>3
<1>2. ASSUME NEW m \in 1 .. N - 1, Stands(m)' = "enabled", ~Refreshes(m)'
      PROVE  \E n \in 1 .. N - 1 : m < n /\ Refreshes(n)'
  <2>1. m + 1 \in 1 .. N /\ Stands(m + 1) = "enabled" /\ ~Refreshes(m + 1)
    BY <1>2 DEF Gone
  <2>2. PICK n \in 1 .. N - 1 : m + 1 < n + 1 /\ Refreshes(n)'
    BY <1>1, <2>1
  <2>3. m < n
    BY <2>2
  <2> QED
    BY <2>2, <2>3
<1> QED
  BY <1>1, <1>2

(* What a removal has taken away, nobody who still waits has read.         *)
LEMMA RemovalGone ==
  ASSUME NetworkInv, NEW c \in Calls, NEW N \in Nat \ {0}, Gone(c, N), NEW d \in removed
  PROVE  /\ \A n \in 1 .. N - 1 : Stands(n)' = "enabled" /\ (\A m \in n .. N - 1 : tail'[m] # d) =>
              change[d].address \notin change'[tail'[n]].read
         /\ change[d].at # "list" =>
              \A n \in 1 .. N - 1 : Stands(n)' = "enabled" => change[d].address \notin change'[tail'[n]].read
<1>1. RemovalHolds(d) /\ Len(tail) = N
  BY DEF NetworkInv, Gone
<1>2. ASSUME NEW n \in 1 .. N - 1, Stands(n)' = "enabled"
      PROVE  n + 1 \in 1 .. N /\ Stands(n + 1) = "enabled" /\ change'[tail'[n]] = change[tail[n + 1]]
  BY <1>2 DEF Gone
<1>3. ASSUME NEW n \in 1 .. N - 1, Stands(n)' = "enabled", \A m \in n .. N - 1 : tail'[m] # d
      PROVE  change[d].address \notin change'[tail'[n]].read
  <2>1. ASSUME NEW m \in n + 1 .. N PROVE tail[m] # d
    <3>1. m - 1 \in n .. N - 1 /\ m - 1 \in 1 .. N - 1 /\ (m - 1) + 1 = m
      OBVIOUS
    <3>2. tail'[m - 1] = tail[(m - 1) + 1]
      BY <3>1 DEF Gone
    <3> QED
      BY <1>3, <3>1, <3>2
  <2> QED
    BY <1>1, <1>2, <1>3, <2>1 DEF RemovalHolds
<1>4. ASSUME NEW n \in 1 .. N - 1, Stands(n)' = "enabled", change[d].at # "list"
      PROVE  change[d].address \notin change'[tail'[n]].read
  BY <1>1, <1>2, <1>4 DEF RemovalHolds
<1> QED
  BY <1>3, <1>4

LEMMA EnabledKept == ASSUME NetworkInv, NEW c \in Calls, Network!Enabled(c) PROVE NetworkInv'
<1>1. /\ tail # <<>> /\ Head(tail) = c /\ change[c].at = "enabled"
      /\ tail' = Tail(tail)
      /\ change' = [change EXCEPT ![c].read = {}, ![c].at = "answered"]
      /\ hosts' = [allowed |-> change[c].read \cup Startup, check |-> stored.check]
      /\ switched' = (switched \/ (change[c].way = "on" /\ stored.check))
      /\ stale' = FALSE /\ UNCHANGED <<stored, removed>>
      /\ NetworkTypes
  BY DEF Network!Enabled, Network!First, Network!Replace, NetworkInv
<1> DEFINE r == [change[c] EXCEPT !.read = {}, !.at = "answered"]
<1>2. /\ change' = [change EXCEPT ![c] = r] /\ change'[c] = r /\ r.at = "answered"
      /\ r.way = change[c].way /\ r.address = change[c].address /\ r.address \in Addresses
      /\ r \in CallRecords /\ change[c].read \in SUBSET Addresses
  <2>1. change[c] \in CallRecords /\ change \in [Calls -> CallRecords]
    BY <1>1 DEF NetworkTypes
  <2>2. /\ r \in CallRecords /\ r.at = "answered"
        /\ r.way = change[c].way /\ r.address = change[c].address /\ change[c].read \in SUBSET Addresses
    BY <2>1 DEF CallRecords
  <2>3. change' = [change EXCEPT ![c] = r]
    BY <1>1, <2>1
  <2> QED
    BY <1>1, <2>1, <2>2, <2>3 DEF NetworkTypes
<1> HIDE DEF r
<1>3. \A d \in Calls \ {c} : change'[d] = change[d]
  BY <1>1, <1>2 DEF NetworkTypes
<1>4. NetworkTypes'
  <2>1. change' \in [Calls -> CallRecords] /\ tail' \in Seq(Calls) /\ switched' \in BOOLEAN
    BY <1>1, <1>2, RunAndGone DEF NetworkTypes
  <2>2. \A d \in Calls : change'[d].at \notin {"new", "failed"} => change'[d].address \in Addresses
    BY <1>1, <1>2, <1>3 DEF NetworkTypes
  <2>3. CallRecords' = CallRecords
    BY DEF CallRecords, Network!Ways
  <2>4. hosts' \in [allowed : SUBSET (Addresses \cup Startup), check : BOOLEAN]
    BY <1>1, <1>2 DEF NetworkTypes
  <2> QED
    BY <1>1, <2>1, <2>2, <2>3, <2>4 DEF NetworkTypes
<1>5. PICK N \in Nat \ {0} : Gone(c, N) /\ OnePerCall'
  BY <1>1, <1>2, <1>3, GoneKept
<1>6. 1 \in 1 .. N /\ Stands(1) = "enabled" /\ Len(tail') = N - 1
  BY <1>1, <1>5 DEF Stands, Gone
<1>7. StaleIsRefreshed'
  <2>1. hosts' # [stored' EXCEPT !.allowed = @ \cup Startup] => ~Refreshes(1)
    <3> SUFFICES ASSUME Refreshes(1) PROVE hosts' = [stored' EXCEPT !.allowed = @ \cup Startup]
      OBVIOUS
    <3>1. change[c].read = stored.allowed
      BY <1>1, <1>5 DEF Refreshes, Stands, Gone
    <3>2. stored' = stored /\ stored \in [allowed : SUBSET Addresses, check : BOOLEAN]
      BY <1>1 DEF NetworkTypes
    <3>3. [stored EXCEPT !.allowed = @ \cup Startup] = [allowed |-> stored.allowed \cup Startup, check |-> stored.check]
      BY <3>2
    <3> QED
      BY <1>1, <3>1, <3>2, <3>3
  <2> QED
    BY <1>5, <1>6, <2>1, StillRefreshed DEF StaleIsRefreshed
<1>8. ASSUME NEW d \in removed' PROVE RemovalHolds(d)'
  <2>1. RemovalHolds(d) /\ d \in removed /\ d \in Calls /\ Len(tail) = N
    BY <1>1, <1>5 DEF NetworkInv, NetworkTypes, Gone
  <2>2. change[d].at # "list" => change[d].address \notin change[c].read
    BY <1>5, <1>6, <2>1 DEF RemovalHolds, Gone
  <2>3. change'[d].address = change[d].address /\ change'[d].way = change[d].way
        /\ (d # c => change'[d] = change[d]) /\ (d = c => change'[d].at = "answered")
    BY <1>2, <1>3, <2>1
  <2>4. change[d].at # "list" => change[d].address \notin hosts'.allowed \ Startup
    BY <1>1, <2>2
  <2>5. change'[d].at \in {"list", "enabled", "answered"} /\ (change'[d].at = "enabled" => change[d].at = "enabled")
        /\ (change'[d].at # "list" => change[d].at # "list")
    BY <1>1, <2>1, <2>3 DEF RemovalHolds
  <2>6. change'[d].at = "enabled" => change'[d].address \notin change'[d].read
    BY <2>1, <2>3, <2>5 DEF RemovalHolds
  <2>7. change'[d].way = "remove" /\ change'[d].address \notin stored'.allowed
    BY <1>1, <2>1, <2>3 DEF RemovalHolds
  <2> QED
    BY <1>5, <1>6, <2>1, <2>3, <2>4, <2>5, <2>6, <2>7, RemovalGone DEF RemovalHolds
<1>9. switched' => stored'.check /\ hosts'.check
  BY <1>1 DEF NetworkInv
<1> QED
  BY <1>1, <1>4, <1>5, <1>7, <1>8, <1>9 DEF NetworkInv

LEMMA FailsKept == ASSUME NetworkInv, NEW c \in Calls, Network!Fails(c) PROVE NetworkInv'
<1> DEFINE r == [Network!Unmade EXCEPT !.at = "failed"]
<1>1. /\ tail # <<>> /\ Head(tail) = c /\ tail' = Tail(tail)
      /\ change' = [change EXCEPT ![c] = r]
      /\ removed' = removed \ {c} /\ stale' = (stale \/ change[c].at # "write")
      /\ UNCHANGED <<stored, hosts, switched>> /\ NetworkTypes
  BY DEF Network!Fails, Network!First, NetworkInv
<1>2. r \in CallRecords /\ r.at = "failed"
  BY DEF CallRecords, Network!Unmade, Network!Ways
<1> HIDE DEF r
<1>3. change'[c] = r /\ \A d \in Calls \ {c} : change'[d] = change[d]
  BY <1>1 DEF NetworkTypes
<1>4. NetworkTypes'
  <2>1. change' \in [Calls -> CallRecords] /\ tail' \in Seq(Calls)
    BY <1>1, <1>2, RunAndGone DEF NetworkTypes
  <2>2. \A d \in Calls : change'[d].at \notin {"new", "failed"} => change'[d].address \in Addresses
    BY <1>1, <1>2, <1>3 DEF NetworkTypes
  <2>3. CallRecords' = CallRecords
    BY DEF CallRecords, Network!Ways
  <2> QED
    BY <1>1, <2>1, <2>2, <2>3 DEF NetworkTypes
<1>5. PICK N \in Nat \ {0} : Gone(c, N) /\ OnePerCall'
  BY <1>1, <1>2, <1>3, GoneKept
<1>6. StaleIsRefreshed'
  <2>1. ASSUME ~stale', hosts' # [stored' EXCEPT !.allowed = @ \cup Startup]
        PROVE  \E n \in 1 .. N - 1 : Refreshes(n)'
    <3>1. PICK n \in 1 .. N : Refreshes(n)
      BY <1>1, <1>5, <2>1 DEF NetworkInv, StaleIsRefreshed, Gone
    <3>2. n # 1
      BY <1>1, <1>5, <2>1, <3>1 DEF Refreshes, Stands, Gone
    <3>3. n - 1 \in 1 .. N - 1 /\ (n - 1) + 1 = n
      BY <3>1, <3>2
    <3> QED
      BY <1>5, <3>1, <3>3 DEF Gone
  <2>2. Len(tail') = N - 1
    BY <1>5 DEF Gone
  <2> QED
    BY <1>5, <2>1, <2>2, StillRefreshed DEF StaleIsRefreshed
<1>7. ASSUME NEW d \in removed' PROVE RemovalHolds(d)'
  <2>1. RemovalHolds(d) /\ d \in removed /\ d \in Calls /\ Len(tail) = N /\ Len(tail') = N - 1
    BY <1>1, <1>5 DEF NetworkInv, NetworkTypes, Gone
  <2>2. change'[d] = change[d]
    BY <1>1, <1>3, <1>7, <2>1
  <2> QED
    BY <1>1, <1>5, <2>1, <2>2, RemovalGone DEF RemovalHolds
<1> QED
  BY <1>1, <1>4, <1>5, <1>6, <1>7 DEF NetworkInv

LEMMA NetworkInvStep == ASSUME NetworkInv, Network!PolicyNext PROVE NetworkInv'
  BY RequestKept, WriteKept, ListKept, EnabledKept, FailsKept DEF Network!PolicyNext

LEMMA NetworkInvUnchanged == ASSUME NetworkInv, UNCHANGED Network!policyVars PROVE NetworkInv'
<1>1. /\ stored' = stored /\ hosts' = hosts /\ tail' = tail /\ change' = change
      /\ removed' = removed /\ switched' = switched /\ stale' = stale
  BY DEF Network!policyVars
<1>2. NetworkTypes' = NetworkTypes /\ OnePerCall' = OnePerCall
  BY <1>1 DEF NetworkTypes, OnePerCall, Stands, CallRecords, Network!Ways
<1>3. StaleIsRefreshed' = StaleIsRefreshed /\ \A c : RemovalHolds(c)' = RemovalHolds(c)
  BY <1>1, Zenon DEF StaleIsRefreshed, RemovalHolds, Refreshes, Stands
<1> QED
  BY <1>1, <1>2, <1>3 DEF NetworkInv

LEMMA NetworkInvShows ==
  ASSUME NetworkInv
  PROVE  Network!PolicyTypeOK /\ Network!PolicyIsStored /\ Network!RemovedIsRefused
<1>1. DOMAIN tail = 1 .. Len(tail) /\ NetworkTypes /\ OnePerCall /\ StaleIsRefreshed
  BY DEF NetworkInv, NetworkTypes
<1>2. Network!PolicyTypeOK
  BY <1>1 DEF NetworkTypes, OnePerCall, Stands, Network!PolicyTypeOK
<1>3. Network!PolicyIsStored
  <2>1. tail = <<>> => Len(tail) = 0
    OBVIOUS
  <2> QED
    BY <1>1, <2>1 DEF StaleIsRefreshed, Network!PolicyIsStored
<1>4. Network!RemovedIsRefused
  BY DEF NetworkInv, RemovalHolds, Network!RemovedIsRefused, Network!Reaches
<1> QED
  BY <1>2, <1>3, <1>4

-----------------------------------------------------------------------------
RowRecords == [status : {"ABSENT", "ACTIVE", "REAUTH_REQUIRED", "REVOKED"},
               account : Git!Targets \cup {None}, token : 0 .. MaxToken, version : Nat]
RegRecords == [at : {"idle", "validate", "save"}, way : {"new", "replace", "move", "copy"},
               id : Ids \cup {None}, version : Nat, account : Git!Targets \cup {None}, token : 0 .. MaxToken]
UseRecords == [at : {"new", "validate", "enter", "read", "ask", "refused", "check", "authorized", "handed",
                     "fetching", "shown", "ended"},
               kind : {"list", "import"}, id : Ids \cup {None}, version : Nat,
               account : Git!Targets \cup {None}, token : 0 .. MaxToken, entry : BOOLEAN, aborted : BOOLEAN]
GitTypes ==
  /\ row \in [Ids -> RowRecords] /\ last \in [Ids -> 0 .. MaxToken]
  /\ opens \in [Git!Tokens -> GitAccounts] /\ state \in [Git!Tokens -> {"good", "expired", "refused"}]
  /\ reg \in RegRecords /\ entered \in 0 .. MaxToken
  /\ leave \in [at : {"idle", "cancel", "wait", "answered"}, id : Ids \cup {None}]
  /\ use \in [Uses -> UseRecords]

(* A row has a token while it is active, the last it was given; it asks    *)
(* for another only when that one is no good.                              *)
RowHolds(i) ==
  /\ row[i].token # 0 <=> row[i].status = "ACTIVE"
  /\ row[i].status = "ACTIVE" => row[i].token = last[i]
  /\ IF row[i].status = "ABSENT" THEN row[i].account = None ELSE row[i].account # None /\ last[i] # 0
  /\ row[i].status = "REAUTH_REQUIRED" => state[last[i]] # "good"
OneRowAnAccount ==
  \A i, j \in Ids : i # j /\ row[i].status # "ABSENT" => row[i].account # row[j].account

(* What was read of a row is what it says while it has the version read.   *)
ReadOf(i, version, token) ==
  /\ i \in Ids /\ version <= row[i].version
  /\ version = row[i].version => row[i].status = "ACTIVE" /\ row[i].token = token
AccountOf(i, version, a) == version = row[i].version => row[i].account = a

RegHolds ==
  /\ reg.at \in {"validate", "save"} => reg.token # 0
  /\ reg.at \in {"validate", "save"} /\ reg.way = "copy" => ReadOf(reg.id, reg.version, reg.token)
  /\ reg.at = "validate" /\ reg.way # "copy" => entered < MaxToken /\ reg.token = entered + 1
  /\ reg.at = "save" => reg.account # None
  /\ reg.at # "idle" /\ reg.way # "new" => reg.id \in Ids

Running == {"handed", "fetching"}
UseHolds(u) ==
  /\ use[u].at \notin {"new", "ended"} => use[u].id \in Ids
  /\ use[u].at \in {"enter", "ask", "refused", "check", "authorized"} \cup Running =>
       /\ ReadOf(use[u].id, use[u].version, use[u].token)
       /\ AccountOf(use[u].id, use[u].version, use[u].account)
       /\ use[u].token # 0
  /\ use[u].at = "refused" => state[use[u].token] # "good"
  /\ use[u].at \in {"authorized"} \cup Running => use[u].kind = "import"
  /\ use[u].at \in {"validate", "enter"} => use[u].kind = "import"
  /\ use[u].kind = "import" /\ use[u].at \in {"read", "ask", "refused", "check", "authorized"} \cup Running =>
       use[u].entry
  /\ use[u].aborted => use[u].entry

LeaveHolds ==
  /\ leave.at # "idle" => leave.id \in Ids
  /\ leave.at = "wait" /\ row[leave.id].status = "REVOKED" =>
       \A u \in Uses : use[u].id = leave.id /\ use[u].at \in Running => use[u].aborted
  /\ leave.at = "answered" /\ row[leave.id].status = "REVOKED" =>
       \A u \in Uses : use[u].id = leave.id => use[u].at \notin Running

GitInv ==
  /\ GitTypes /\ OneRowAnAccount /\ \A i \in Ids : RowHolds(i)
  /\ RegHolds /\ (\A u \in Uses : UseHolds(u)) /\ LeaveHolds
-----------------------------------------------------------------------------
LEMMA GitInvInit == Git!ConnectionInit => GitInv
<1> SUFFICES ASSUME Git!ConnectionInit PROVE GitInv
  OBVIOUS
<1>1. Git!NoRow \in RowRecords /\ Git!Idle \in RegRecords /\ Git!Unused \in UseRecords
  BY GitAssumption DEF Git!NoRow, Git!Idle, Git!Unused, RowRecords, RegRecords, UseRecords
<1>2. GitTypes
  BY <1>1, GitAssumption DEF Git!ConnectionInit, GitTypes
<1>3. OneRowAnAccount /\ \A i \in Ids : RowHolds(i)
  BY DEF Git!ConnectionInit, OneRowAnAccount, RowHolds, Git!NoRow
<1>4. RegHolds /\ LeaveHolds
  BY DEF Git!ConnectionInit, RegHolds, LeaveHolds, Git!Idle
<1>5. \A u \in Uses : UseHolds(u)
  BY DEF Git!ConnectionInit, UseHolds, Git!Unused, Running
<1> QED
  BY <1>2, <1>3, <1>4, <1>5 DEF GitInv

(* What a step does to the rows: who has read one and finds its version    *)
(* the same has read what it says.                                         *)
RowsKept ==
  /\ row' \in [Ids -> RowRecords] /\ (\A i \in Ids : RowHolds(i)') /\ OneRowAnAccount'
  /\ \A i \in Ids, v \in Nat : \A t : ReadOf(i, v, t) => ReadOf(i, v, t)'
  /\ \A i \in Ids, v \in Nat : \A a : v <= row[i].version /\ AccountOf(i, v, a) => AccountOf(i, v, a)'
NoneRevoked == \A i \in Ids : row'[i].status = "REVOKED" => row[i].status = "REVOKED"
NoneRepaired == \A t \in Git!Tokens : state[t] # "good" => state'[t] # "good"

LEMMA SameRows ==
  ASSUME GitInv, row' = row, last' = last, NoneRepaired
  PROVE  RowsKept /\ NoneRevoked
<1>1. \A i \in Ids : RowHolds(i)'
  <2> SUFFICES ASSUME NEW i \in Ids PROVE RowHolds(i)'
    OBVIOUS
  <2>1. RowHolds(i) /\ last[i] \in 0 .. MaxToken
    BY DEF GitInv, GitTypes
  <2>2. row[i].status = "REAUTH_REQUIRED" => last[i] \in Git!Tokens
    BY <2>1, GitAssumption DEF RowHolds, Git!Tokens
  <2> QED
    BY <2>1, <2>2 DEF RowHolds, NoneRepaired
<1>2. row' \in [Ids -> RowRecords] /\ OneRowAnAccount'
  BY DEF GitInv, GitTypes, OneRowAnAccount, RowRecords, Git!Targets
<1>3. \A i, v, t : ReadOf(i, v, t)' = ReadOf(i, v, t) /\ AccountOf(i, v, t)' = AccountOf(i, v, t)
  BY DEF ReadOf, AccountOf
<1> QED
  BY <1>1, <1>2, <1>3 DEF RowsKept, NoneRevoked

LEMMA NewVersion ==
  ASSUME GitInv, NEW i \in Ids, NEW r \in RowRecords, r.version = row[i].version + 1,
         row' = [row EXCEPT ![i] = r]
  PROVE  /\ row' \in [Ids -> RowRecords] /\ row'[i] = r /\ \A j \in Ids : j # i => row'[j] = row[j]
         /\ \A j \in Ids, v \in Nat : \A t : ReadOf(j, v, t) => ReadOf(j, v, t)'
         /\ \A j \in Ids, v \in Nat : \A a : v <= row[j].version /\ AccountOf(j, v, a) => AccountOf(j, v, a)'
<1>1. row \in [Ids -> RowRecords]
  BY DEF GitInv, GitTypes
<1>2. row' \in [Ids -> RowRecords] /\ row'[i] = r /\ \A j \in Ids : j # i => row'[j] = row[j]
  BY <1>1
<1>3. row[i].version \in Nat /\ row'[i].version = row[i].version + 1
  BY <1>1, <1>2 DEF RowRecords
<1>4. ASSUME NEW v \in Nat, v <= row[i].version PROVE v <= row'[i].version /\ v # row'[i].version
  BY <1>3, <1>4
<1>5. ASSUME NEW j \in Ids, NEW v \in Nat, NEW t, ReadOf(j, v, t) PROVE ReadOf(j, v, t)'
  BY <1>2, <1>4, <1>5 DEF ReadOf
<1>6. ASSUME NEW j \in Ids, NEW v \in Nat, NEW a, v <= row[j].version, AccountOf(j, v, a) PROVE AccountOf(j, v, a)'
  BY <1>2, <1>4, <1>6 DEF AccountOf
<1> QED
  BY <1>2, <1>5, <1>6

(* A row whose token is cleared.                                           *)
LEMMA ClearedRow ==
  ASSUME GitInv, NEW i \in Ids, Git!Connected(i), NEW status \in {"REAUTH_REQUIRED", "REVOKED"},
         Git!Cleared(i, status), last' = last, state' = state,
         status = "REAUTH_REQUIRED" => state[last[i]] # "good"
  PROVE  RowsKept /\ (status = "REAUTH_REQUIRED" => NoneRevoked) /\ \A j \in Ids : j # i => row'[j] = row[j]
<1> DEFINE r == [row[i] EXCEPT !.status = status, !.token = 0, !.version = row[i].version + 1]
<1>1. row \in [Ids -> RowRecords] /\ row[i] \in RowRecords /\ RowHolds(i) /\ row[i].account # None
  BY DEF GitInv, GitTypes, RowHolds, Git!Connected
<1>2. /\ r \in RowRecords /\ r.version = row[i].version + 1 /\ r.status = status /\ r.token = 0
      /\ r.account = row[i].account
  <2>1. 0 \in 0 .. MaxToken /\ row[i].version + 1 \in Nat
    BY <1>1, GitAssumption DEF RowRecords
  <2> QED
    BY <1>1, <2>1 DEF RowRecords
<1>3. row' = [row EXCEPT ![i] = r]
  BY <1>1 DEF Git!Cleared
<1> HIDE DEF r
<1>4. /\ row' \in [Ids -> RowRecords] /\ row'[i] = r /\ \A j \in Ids : j # i => row'[j] = row[j]
      /\ \A j \in Ids, v \in Nat : \A t : ReadOf(j, v, t) => ReadOf(j, v, t)'
      /\ \A j \in Ids, v \in Nat : \A a : v <= row[j].version /\ AccountOf(j, v, a) => AccountOf(j, v, a)'
  BY <1>2, <1>3, NewVersion
<1>5. \A j \in Ids : RowHolds(j)'
  <2> SUFFICES ASSUME NEW j \in Ids PROVE RowHolds(j)'
    OBVIOUS
  <2>1. RowHolds(j)
    BY DEF GitInv
  <2>2. CASE j = i
    BY <1>1, <1>2, <1>4, <2>1, <2>2 DEF RowHolds, Git!Connected
  <2>3. CASE j # i
    BY <1>4, <2>1, <2>3 DEF RowHolds
  <2> QED
    BY <2>2, <2>3
<1>6. \A j \in Ids : row'[j].account = row[j].account /\ (row'[j].status # "ABSENT" => row[j].status # "ABSENT")
  BY <1>2, <1>4 DEF Git!Connected
<1>7. OneRowAnAccount'
  BY <1>6 DEF GitInv, OneRowAnAccount
<1>8. status = "REAUTH_REQUIRED" => NoneRevoked
  BY <1>2, <1>4 DEF NoneRevoked
<1> QED
  BY <1>4, <1>5, <1>7, <1>8 DEF RowsKept

LEMMA RequiredRow ==
  ASSUME GitInv, NEW i \in Ids, NEW v, last' = last, state' = state,
         Git!RequireReauthentication(i, v),
         Git!Connected(i) /\ Git!SameVersion(i, v) => state[last[i]] # "good"
  PROVE  RowsKept /\ NoneRevoked
<1>1. NoneRepaired
  BY DEF NoneRepaired
<1> QED
  BY <1>1, SameRows, ClearedRow DEF Git!RequireReauthentication

LEMMA RegKept ==
  ASSUME GitInv, RowsKept, reg' = reg, entered' = entered
  PROVE  RegHolds'
<1>1. RegHolds /\ reg.version \in Nat
  BY DEF GitInv, GitTypes, RegRecords
<1>2. ReadOf(reg.id, reg.version, reg.token) => ReadOf(reg.id, reg.version, reg.token)'
  BY <1>1 DEF RowsKept, ReadOf
<1> QED
  BY <1>1, <1>2 DEF RegHolds, ReadOf

LEMMA UseKept ==
  ASSUME GitInv, RowsKept, NoneRepaired, NEW u \in Uses, use'[u] = use[u]
  PROVE  UseHolds(u)'
<1>1. UseHolds(u) /\ use[u] \in UseRecords
  BY DEF GitInv, GitTypes
<1>2. use[u].version \in Nat /\ use[u].token \in 0 .. MaxToken
  BY <1>1 DEF UseRecords
<1>3. ReadOf(use[u].id, use[u].version, use[u].token) => ReadOf(use[u].id, use[u].version, use[u].token)'
  BY <1>2 DEF RowsKept, ReadOf
<1>4. ReadOf(use[u].id, use[u].version, use[u].token) /\ AccountOf(use[u].id, use[u].version, use[u].account) =>
        AccountOf(use[u].id, use[u].version, use[u].account)'
  BY <1>2 DEF RowsKept, ReadOf
<1>5. use[u].token # 0 /\ state[use[u].token] # "good" => state'[use[u].token] # "good"
  BY <1>2, GitAssumption DEF NoneRepaired, Git!Tokens
<1> DEFINE x == use[u]
<1>6. use'[u] = x
  OBVIOUS
<1>7. UseHolds(u) = (/\ x.at \notin {"new", "ended"} => x.id \in Ids
                     /\ x.at \in {"enter", "ask", "refused", "check", "authorized"} \cup Running =>
                          ReadOf(x.id, x.version, x.token) /\ AccountOf(x.id, x.version, x.account) /\ x.token # 0
                     /\ x.at = "refused" => state[x.token] # "good"
                     /\ x.at \in {"authorized"} \cup Running => x.kind = "import"
                     /\ x.at \in {"validate", "enter"} => x.kind = "import"
                     /\ x.kind = "import" /\ x.at \in {"read", "ask", "refused", "check", "authorized"} \cup Running =>
                          x.entry
                     /\ x.aborted => x.entry)
  BY DEF UseHolds
<1> QED
  BY <1>1, <1>3, <1>4, <1>5, <1>6, <1>7 DEF UseHolds, Running

(* A step of one use: whose record becomes r.                              *)
LEMMA UseGoesOn ==
  ASSUME GitInv, RowsKept, NoneRevoked, UNCHANGED <<opens, state, reg, entered, leave, last>>,
         NEW u \in Uses, NEW r \in UseRecords, use' = [use EXCEPT ![u] = r], UseHolds(u)',
         r.at \in Running => \/ use[u].at \in Running /\ use[u].id = r.id /\ (use[u].aborted => r.aborted)
                             \/ row'[r.id].status # "REVOKED"
  PROVE  GitInv'
<1>1. use \in [Uses -> UseRecords] /\ GitTypes /\ LeaveHolds
  BY DEF GitInv, GitTypes
<1>2. use' \in [Uses -> UseRecords] /\ use'[u] = r /\ \A w \in Uses : w # u => use'[w] = use[w]
  BY <1>1
<1>3. GitTypes'
  BY <1>1, <1>2 DEF GitTypes, RowsKept, Git!Tokens, RowRecords, RegRecords, UseRecords, Git!Targets
<1>4. NoneRepaired
  BY DEF NoneRepaired
<1>5. \A w \in Uses : UseHolds(w)'
  BY <1>2, <1>4, UseKept
<1>6. RegHolds'
  BY RegKept
<1>7. LeaveHolds'
  BY <1>1, <1>2 DEF LeaveHolds, NoneRevoked
<1> QED
  BY <1>3, <1>5, <1>6, <1>7 DEF GitInv, RowsKept

LEMMA EndUseKept ==
  ASSUME GitInv, RowsKept, NoneRevoked, UNCHANGED <<opens, state, reg, entered, leave, last>>,
         NEW u \in Uses, Git!EndUse(u)
  PROVE  GitInv'
<1> DEFINE r == [Git!Unused EXCEPT !.at = "ended", !.kind = use[u].kind]
<1>1. use[u] \in UseRecords /\ use \in [Uses -> UseRecords]
  BY DEF GitInv, GitTypes
<1>2. r \in UseRecords /\ r.at = "ended" /\ r.aborted = FALSE
  <2>1. Git!Unused \in UseRecords /\ Git!Unused.aborted = FALSE
    BY GitAssumption DEF Git!Unused, UseRecords
  <2>2. use[u].kind \in {"list", "import"}
    BY <1>1 DEF UseRecords
  <2> QED
    BY <2>1, <2>2 DEF UseRecords
<1>3. use' = [use EXCEPT ![u] = r]
  BY DEF Git!EndUse, Git!Becomes
<1> HIDE DEF r
<1>4. use'[u] = r
  BY <1>1, <1>3
<1>5. UseHolds(u)'
  BY <1>2, <1>4 DEF UseHolds, Running
<1> QED
  BY <1>2, <1>3, <1>5, UseGoesOn DEF Running

LEMMA Expired ==
  ASSUME GitInv, NEW i \in Ids, Git!Readable(i), state[row[i].token] = "expired", last' = last, state' = state,
         Git!RequireReauthentication(i, row[i].version)
  PROVE  RowsKept /\ NoneRevoked
<1>1. row[i].token = last[i]
  BY DEF GitInv, RowHolds, Git!Readable
<1> QED
  BY <1>1, RequiredRow

LEMMA CaptureKept ==
  ASSUME GitInv, UNCHANGED Git!connection, NEW u \in Uses, NEW there \in {"enter", "ask"},
         use[u].at = IF there = "enter" THEN "validate" ELSE "read",
         Git!Capture(u, use[u].id, there)
  PROVE  GitInv'
<1> DEFINE i == use[u].id
<1>1. use[u] \in UseRecords /\ UseHolds(u) /\ i \in Ids /\ UNCHANGED <<opens, state, reg, entered, leave, last>>
      /\ use \in [Uses -> UseRecords]
  BY DEF GitInv, GitTypes, UseHolds, Git!connection
<1>2. row[i] \in RowRecords /\ RowHolds(i)
  BY <1>1 DEF GitInv, GitTypes
<1>3. NoneRepaired
  BY <1>1 DEF NoneRepaired
<1>4. CASE ~Git!Readable(i)
  BY <1>1, <1>3, <1>4, SameRows, EndUseKept DEF Git!Capture
<1>5. CASE Git!Readable(i) /\ state[row[i].token] = "expired"
  BY <1>1, <1>5, Expired, EndUseKept DEF Git!Capture
<1>6. CASE Git!Readable(i) /\ state[row[i].token] # "expired"
  <2> DEFINE r == [use[u] EXCEPT !.at = there, !.id = i, !.version = row[i].version,
                                 !.account = row[i].account, !.token = row[i].token]
  <2>1. use' = [use EXCEPT ![u] = r] /\ row' = row
    BY <1>6 DEF Git!Capture, Git!Becomes
  <2>2. /\ r \in UseRecords /\ r.at = there /\ r.id = i /\ r.version = row[i].version /\ r.account = row[i].account
        /\ r.token = row[i].token /\ r.kind = use[u].kind /\ r.entry = use[u].entry /\ r.aborted = use[u].aborted
    BY <1>1, <1>2 DEF UseRecords, RowRecords
  <2> HIDE DEF r
  <2>3. RowsKept /\ NoneRevoked
    BY <1>1, <1>3, <2>1, SameRows
  <2>4. use'[u] = r
    BY <1>1, <2>1
  <2>5. r.token # 0 /\ row[i].status = "ACTIVE" /\ row[i].version <= row[i].version
    BY <1>2, <1>6, <2>2 DEF RowHolds, Git!Readable, RowRecords
  <2>6. UseHolds(u)'
    BY <1>1, <2>1, <2>2, <2>4, <2>5 DEF UseHolds, Running, ReadOf, AccountOf
  <2> QED
    BY <1>1, <2>1, <2>2, <2>3, <2>6, UseGoesOn DEF Running
<1> QED
  BY <1>4, <1>5, <1>6

(* A use that goes on as it is.                                            *)
LEMMA GoesKept ==
  ASSUME GitInv, UNCHANGED <<row, opens, state, reg, entered, leave, last>>, NEW u \in Uses, NEW there,
         Git!Goes(u, there),
         \/ use[u].at = "ask" /\ there = "check"
         \/ use[u].at = "ask" /\ there = "refused" /\ state[use[u].token] # "good"
         \/ use[u].at = "check" /\ there = "shown"
         \/ use[u].at = "check" /\ there = "authorized" /\ use[u].kind = "import"
         \/ use[u].at = "authorized" /\ there = "handed" /\ Git!Readable(use[u].id)
         \/ use[u].at = "handed" /\ there = "fetching"
  PROVE  GitInv'
<1> DEFINE r == [use[u] EXCEPT !.at = there]
<1>1. use[u] \in UseRecords /\ UseHolds(u) /\ use \in [Uses -> UseRecords]
  BY DEF GitInv, GitTypes
<1>2. /\ r \in UseRecords /\ r.at = there /\ r.id = use[u].id /\ r.version = use[u].version
      /\ r.account = use[u].account /\ r.token = use[u].token /\ r.kind = use[u].kind
      /\ r.entry = use[u].entry /\ r.aborted = use[u].aborted
  BY <1>1 DEF UseRecords
<1>3. use' = [use EXCEPT ![u] = r]
  BY DEF Git!Goes, Git!Becomes
<1> HIDE DEF r
<1>4. NoneRepaired /\ RowsKept /\ NoneRevoked
  BY SameRows DEF NoneRepaired
<1>5. use'[u] = r
  BY <1>1, <1>3
<1>6. UseHolds(u)'
  BY <1>1, <1>2, <1>5 DEF UseHolds, Running, ReadOf, AccountOf
<1>7. there \in Running => \/ use[u].at \in Running /\ use[u].id = r.id /\ (use[u].aborted => r.aborted)
                           \/ row'[r.id].status # "REVOKED"
  BY <1>2 DEF Running, Git!Readable
<1> QED
  BY <1>2, <1>3, <1>4, <1>6, <1>7, UseGoesOn

LEMMA AssertCurrentKept ==
  ASSUME GitInv, UNCHANGED Git!connection, NEW u \in Uses, NEW there,
         Git!AssertCurrent(u, there),
         \/ use[u].at = "check" /\ there = IF use[u].kind = "list" THEN "shown" ELSE "authorized"
         \/ use[u].at = "authorized" /\ there = "handed"
  PROVE  GitInv'
<1>1. use[u] \in UseRecords /\ use[u].id \in Ids /\ UNCHANGED <<opens, state, reg, entered, leave, last>>
  BY DEF GitInv, GitTypes, UseHolds, Git!connection
<1>2. NoneRepaired
  BY <1>1 DEF NoneRepaired
<1>3. CASE ~Git!Unchanged(u)
  BY <1>1, <1>2, <1>3, SameRows, EndUseKept DEF Git!AssertCurrent
<1>4. CASE Git!Unchanged(u) /\ use[u].kind = "import" /\ state[row[use[u].id].token] = "expired"
  BY <1>1, <1>4, Expired, EndUseKept DEF Git!AssertCurrent, Git!Unchanged
<1>5. CASE Git!Unchanged(u) /\ Git!Goes(u, there) /\ row' = row
  <2>1. use[u].kind \in {"list", "import"}
    BY <1>1 DEF UseRecords
  <2> QED
    BY <1>1, <1>5, <2>1, GoesKept DEF Git!Unchanged
<1> QED
  BY <1>3, <1>4, <1>5 DEF Git!AssertCurrent

LEMMA EnterKept == ASSUME GitInv, NEW u \in Uses, Git!Enter(u) PROVE GitInv'
<1> DEFINE r == [use[u] EXCEPT !.entry = TRUE, !.at = "read"]
<1>1. use[u] \in UseRecords /\ UseHolds(u) /\ use \in [Uses -> UseRecords] /\ use[u].at = "enter"
      /\ UNCHANGED <<row, opens, state, reg, entered, leave, last>>
  BY DEF GitInv, GitTypes, Git!Enter, Git!connection
<1>2. r \in UseRecords /\ r.at = "read" /\ r.id = use[u].id /\ r.entry = TRUE
  BY <1>1 DEF UseRecords
<1>3. use' = [use EXCEPT ![u] = r]
  BY DEF Git!Enter, Git!Becomes
<1> HIDE DEF r
<1>4. NoneRepaired /\ RowsKept /\ NoneRevoked
  BY <1>1, SameRows DEF NoneRepaired
<1>5. use'[u] = r
  BY <1>1, <1>3
<1>6. UseHolds(u)'
  BY <1>1, <1>2, <1>5 DEF UseHolds, Running
<1> QED
  BY <1>1, <1>2, <1>3, <1>4, <1>6, UseGoesOn DEF Running

LEMMA BeginUseKept ==
  ASSUME GitInv, NEW u \in Uses, NEW kind \in {"list", "import"}, NEW i \in Ids, Git!BeginUse(u, kind, i)
  PROVE  GitInv'
<1> DEFINE r == [Git!Unused EXCEPT !.kind = kind, !.id = i, !.at = IF kind = "list" THEN "read" ELSE "validate"]
<1>1. use \in [Uses -> UseRecords] /\ UNCHANGED <<row, opens, state, reg, entered, leave, last>>
  BY DEF GitInv, GitTypes, Git!BeginUse
<1>2. /\ r \in UseRecords /\ r.at = (IF kind = "list" THEN "read" ELSE "validate") /\ r.id = i /\ r.kind = kind
      /\ r.aborted = FALSE
  <2>1. Git!Unused \in UseRecords /\ Git!Unused.aborted = FALSE
    BY GitAssumption DEF Git!Unused, UseRecords
  <2> QED
    BY <2>1 DEF UseRecords
<1>3. use' = [use EXCEPT ![u] = r]
  BY DEF Git!BeginUse, Git!Becomes
<1> HIDE DEF r
<1>4. NoneRepaired /\ RowsKept /\ NoneRevoked
  BY <1>1, SameRows DEF NoneRepaired
<1>5. use'[u] = r
  BY <1>1, <1>3
<1>6. UseHolds(u)'
  BY <1>1, <1>2, <1>5 DEF UseHolds, Running
<1> QED
  BY <1>1, <1>2, <1>3, <1>4, <1>6, UseGoesOn DEF Running

LEMMA RefusedByProviderKept == ASSUME GitInv, NEW u \in Uses, Git!RefusedByProvider(u) PROVE GitInv'
<1>1. /\ use[u].at = "refused" /\ Git!EndUse(u) /\ UNCHANGED <<opens, state, reg, entered, leave, last>>
      /\ UseHolds(u) /\ use[u].id \in Ids
      /\ IF use[u].kind = "import" THEN Git!RequireReauthentication(use[u].id, use[u].version) ELSE UNCHANGED row
  BY DEF Git!RefusedByProvider, Git!connection, GitInv, UseHolds
<1>2. NoneRepaired
  BY <1>1 DEF NoneRepaired
<1>3. Git!Connected(use[u].id) /\ Git!SameVersion(use[u].id, use[u].version) => state[last[use[u].id]] # "good"
  BY <1>1 DEF UseHolds, ReadOf, Git!SameVersion, GitInv, RowHolds
<1>4. RowsKept /\ NoneRevoked
  BY <1>1, <1>2, <1>3, SameRows, RequiredRow
<1> QED
  BY <1>1, <1>4, EndUseKept

LEMMA UseStepKept == ASSUME GitInv, NEW u \in Uses, Git!UseStep(u) PROVE GitInv'
<1>1. CASE Git!ValidateUse(u) \/ Git!Read(u)
  BY <1>1, CaptureKept DEF Git!ValidateUse, Git!Read
<1>2. CASE Git!Enter(u) \/ Git!RefusedByProvider(u)
  BY <1>2, EnterKept, RefusedByProviderKept
<1>3. UNCHANGED <<row, Git!connection>> /\ Git!EndUse(u) => GitInv'
  <2> SUFFICES ASSUME UNCHANGED <<row, Git!connection>>, Git!EndUse(u) PROVE GitInv'
    OBVIOUS
  <2>1. UNCHANGED <<row, opens, state, reg, entered, leave, last>> /\ NoneRepaired
    BY DEF Git!connection, NoneRepaired
  <2> QED
    BY <2>1, SameRows, EndUseKept
<1>4. CASE Git!Ask(u)
  BY <1>3, <1>4, GoesKept DEF Git!Ask, Git!connection
<1>5. CASE Git!Check(u)
  BY <1>5, AssertCurrentKept DEF Git!Check
<1>6. CASE Git!HandOver(u)
  BY <1>3, <1>6, AssertCurrentKept DEF Git!HandOver
<1>7. CASE Git!Fetch(u) \/ Git!FetchEnds(u)
  BY <1>3, <1>7, GoesKept DEF Git!Fetch, Git!FetchEnds, Git!connection
<1> QED
  BY <1>1, <1>2, <1>4, <1>5, <1>6, <1>7 DEF Git!UseStep

-----------------------------------------------------------------------------
(* The steps that leave the uses alone.                                    *)
LEMMA OthersStay ==
  ASSUME GitInv, RowsKept, NoneRepaired, UNCHANGED <<opens, use>>,
         state' \in [Git!Tokens -> {"good", "expired", "refused"}], last' \in [Ids -> 0 .. MaxToken],
         entered' \in 0 .. MaxToken, reg' \in RegRecords, RegHolds',
         leave' \in [at : {"idle", "cancel", "wait", "answered"}, id : Ids \cup {None}],
         LeaveHolds'
  PROVE  GitInv'
<1>1. GitTypes'
  BY DEF GitInv, GitTypes, RowsKept, Git!Tokens, RowRecords, RegRecords, UseRecords, Git!Targets
<1>2. \A u \in Uses : UseHolds(u)'
  BY UseKept
<1> QED
  BY <1>1, <1>2 DEF GitInv, RowsKept

LEMMA LeaveStays ==
  ASSUME GitInv, NoneRevoked, UNCHANGED <<leave, use>>
  PROVE  LeaveHolds' /\ leave' \in [at : {"idle", "cancel", "wait", "answered"}, id : Ids \cup {None}]
  BY DEF GitInv, GitTypes, LeaveHolds, NoneRevoked

LEMMA TokenEndsKept == ASSUME GitInv, NEW t \in Git!Tokens, Git!TokenEnds(t) PROVE GitInv'
<1>1. /\ UNCHANGED <<row, opens, reg, entered, leave, use, last>> /\ NoneRepaired
      /\ state' \in [Git!Tokens -> {"good", "expired", "refused"}]
  BY DEF Git!TokenEnds, GitInv, GitTypes, NoneRepaired
<1>2. RowsKept /\ NoneRevoked
  BY <1>1, SameRows
<1>3. RegHolds' /\ LeaveHolds'
  BY <1>1, <1>2, RegKept, LeaveStays
<1> QED
  BY <1>1, <1>2, <1>3, OthersStay DEF GitInv, GitTypes

(* A step of the registration, which leaves the rows alone too.            *)
LEMMA RegGoesOn ==
  ASSUME GitInv, UNCHANGED <<row, opens, state, leave, use, last>>, entered' \in 0 .. MaxToken,
         reg' \in RegRecords, RegHolds'
  PROVE  GitInv'
<1>1. RowsKept /\ NoneRevoked /\ NoneRepaired
  BY SameRows DEF NoneRepaired
<1>2. LeaveHolds'
  BY <1>1, LeaveStays
<1> QED
  BY <1>1, <1>2, OthersStay DEF GitInv, GitTypes

LEMMA IdleHolds ==
  ASSUME reg' = Git!Idle
  PROVE  reg' \in RegRecords /\ RegHolds'
  BY GitAssumption DEF Git!Idle, RegRecords, RegHolds

LEMMA BeginKept ==
  ASSUME GitInv, NEW i \in Ids \cup {None}, NEW way \in {"new", "replace", "move", "copy"}, Git!Begin(way, i)
  PROVE  GitInv'
<1>1. /\ UNCHANGED <<row, opens, state, leave, use, last, entered>> /\ entered \in 0 .. MaxToken
      /\ i # None => i \in Ids /\ row[i] \in RowRecords /\ RowHolds(i)
  BY DEF Git!Begin, GitInv, GitTypes
<1>2. Git!Idle \in RegRecords /\ Git!Idle.id = None /\ Git!Idle.way = "new"
  BY GitAssumption DEF Git!Idle, RegRecords
<1>3. reg' \in RegRecords /\ RegHolds'
  <2>1. CASE way = "new"
    <3>1. reg' = [Git!Idle EXCEPT !.at = "validate", !.token = entered + 1] /\ entered < MaxToken
      BY <2>1 DEF Git!Begin
    <3>2. entered + 1 \in 0 .. MaxToken /\ entered + 1 # 0
      BY <1>1, <3>1, GitAssumption
    <3>3. reg' \in RegRecords /\ reg'.at = "validate" /\ reg'.token = entered + 1 /\ reg'.way = "new"
      BY <1>2, <3>1, <3>2 DEF RegRecords
    <3> QED
      BY <1>1, <3>1, <3>2, <3>3 DEF RegHolds
  <2>2. CASE way \in {"replace", "move"}
    <3>1. /\ reg' = [Git!Idle EXCEPT !.at = "validate", !.way = way, !.id = i, !.token = entered + 1,
                                     !.version = row[i].version, !.account = row[i].account]
          /\ entered < MaxToken /\ i \in Ids /\ i # None
      BY <1>1, <2>2 DEF Git!Begin
    <3>2. /\ entered + 1 \in 0 .. MaxToken /\ entered + 1 # 0
          /\ row[i].version \in Nat /\ row[i].account \in Git!Targets \cup {None}
      BY <1>1, <3>1, GitAssumption DEF RowRecords
    <3>3. reg' \in RegRecords /\ reg'.at = "validate" /\ reg'.token = entered + 1 /\ reg'.way = way /\ reg'.id = i
      BY <1>2, <2>2, <3>1, <3>2 DEF RegRecords
    <3> QED
      BY <1>1, <2>2, <3>1, <3>2, <3>3 DEF RegHolds
  <2>3. CASE way = "copy"
    <3>1. /\ reg' = [Git!Idle EXCEPT !.at = "validate", !.way = way, !.id = i, !.token = row[i].token,
                                     !.version = row[i].version]
          /\ i \in Ids /\ i # None /\ Git!Readable(i)
      BY <1>1, <2>3 DEF Git!Begin
    <3>2. /\ row[i].version \in Nat /\ row[i].token \in 0 .. MaxToken /\ row[i].token # 0
          /\ row[i].version <= row[i].version
      BY <1>1, <3>1 DEF RowRecords, RowHolds, Git!Readable
    <3>3. /\ reg' \in RegRecords /\ reg'.at = "validate" /\ reg'.token = row[i].token /\ reg'.way = "copy"
          /\ reg'.id = i /\ reg'.version = row[i].version
      BY <1>2, <2>3, <3>1, <3>2 DEF RegRecords
    <3> QED
      BY <1>1, <3>1, <3>2, <3>3 DEF RegHolds, ReadOf, Git!Readable
  <2> QED
    BY <2>1, <2>2, <2>3
<1> QED
  BY <1>1, <1>3, RegGoesOn

LEMMA ValidateKept == ASSUME GitInv, Git!Validate PROVE GitInv'
<1>1. /\ UNCHANGED <<row, opens, state, leave, use, last>> /\ reg.at = "validate"
      /\ entered' = IF reg.way = "copy" THEN entered ELSE entered + 1
      /\ reg \in RegRecords /\ RegHolds /\ entered \in 0 .. MaxToken /\ opens \in [Git!Tokens -> GitAccounts]
  BY DEF Git!Validate, GitInv, GitTypes
<1>2. entered' \in 0 .. MaxToken
  BY <1>1, GitAssumption DEF RegHolds
<1>3. CASE reg' = Git!Idle
  BY <1>1, <1>2, <1>3, IdleHolds, RegGoesOn
<1>4. ASSUME NEW target \in Git!TargetsOf(reg.token, reg.way), reg' = [reg EXCEPT !.at = "save", !.account = target]
      PROVE  GitInv'
  <2>1. reg.token \in Git!Tokens
    BY <1>1, GitAssumption DEF RegHolds, RegRecords, Git!Tokens
  <2>2. target \in Git!Targets /\ target # None
    BY <1>1, <2>1, <1>4, GitAssumption DEF Git!TargetsOf, Git!Targets
  <2>3. /\ reg' \in RegRecords /\ reg'.at = "save" /\ reg'.account = target /\ reg'.token = reg.token
        /\ reg'.way = reg.way /\ reg'.id = reg.id /\ reg'.version = reg.version
    BY <1>1, <1>4, <2>2 DEF RegRecords
  <2>4. RegHolds'
    BY <1>1, <2>2, <2>3 DEF RegHolds, ReadOf
  <2> QED
    BY <1>1, <1>2, <2>3, <2>4, RegGoesOn
<1> QED
  BY <1>3, <1>4 DEF Git!Validate

LEMMA SaveKept == ASSUME GitInv, Git!Save PROVE GitInv'
<1>1. /\ UNCHANGED <<opens, state, entered, leave, use>> /\ reg.at = "save"
      /\ reg \in RegRecords /\ RegHolds /\ GitTypes /\ OneRowAnAccount
  BY DEF Git!Save, GitInv, GitTypes
<1>2. CASE reg' = Git!Idle /\ UNCHANGED <<row, last>>
  BY <1>1, <1>2, IdleHolds, RegGoesOn DEF GitTypes
<1>3. ASSUME NEW i \in Git!Place,
             row' = [row EXCEPT ![i] = [status |-> "ACTIVE", account |-> reg.account,
                                        token |-> reg.token, version |-> Git!Next(i)]],
             last' = [last EXCEPT ![i] = reg.token], reg' = Git!Idle
      PROVE  GitInv'
  <2>1. /\ i \in Ids
        /\ \A j \in Ids : j # i /\ row[j].status # "ABSENT" => row[j].account # reg.account
    <3>1. CASE reg.way = "move"
      BY <1>1, <1>3, <3>1 DEF Git!Place, Git!Of, RegHolds
    <3>2. CASE reg.way = "replace"
      BY <1>1, <1>3, <3>2 DEF Git!Place, Git!Of, OneRowAnAccount
    <3>3. CASE reg.way \in {"new", "copy"}
      <4>1. CASE Git!Of(reg.account) # {}
        BY <1>1, <1>3, <3>3, <4>1 DEF Git!Place, Git!Of, OneRowAnAccount
      <4>2. CASE Git!Of(reg.account) = {}
        <5>1. i \in Git!Free
          BY <1>3, <3>3, <4>2 DEF Git!Place
        <5> QED
          BY <4>2, <5>1 DEF Git!Of, Git!Free
      <4> QED
        BY <4>1, <4>2
    <3> QED
      BY <1>1, <3>1, <3>2, <3>3 DEF RegRecords
  <2> DEFINE r == [status |-> "ACTIVE", account |-> reg.account, token |-> reg.token, version |-> Git!Next(i)]
  <2>2. row[i] \in RowRecords /\ reg.token # 0 /\ reg.account # None
    BY <1>1, <2>1 DEF GitTypes, RegHolds
  <2>3. /\ r \in RowRecords /\ r.version = row[i].version + 1 /\ r.status = "ACTIVE" /\ r.token = reg.token
        /\ r.account = reg.account /\ row' = [row EXCEPT ![i] = r]
    BY <1>1, <1>3, <2>2 DEF RowRecords, RegRecords, Git!Next
  <2> HIDE DEF r
  <2>4. /\ row' \in [Ids -> RowRecords] /\ row'[i] = r /\ \A j \in Ids : j # i => row'[j] = row[j]
        /\ \A j \in Ids, v \in Nat : \A t : ReadOf(j, v, t) => ReadOf(j, v, t)'
        /\ \A j \in Ids, v \in Nat : \A a : v <= row[j].version /\ AccountOf(j, v, a) => AccountOf(j, v, a)'
    BY <2>1, <2>3, NewVersion
  <2>5. /\ last' \in [Ids -> 0 .. MaxToken] /\ last'[i] = reg.token
        /\ \A j \in Ids : j # i => last'[j] = last[j]
    BY <1>1, <1>3, <2>1 DEF GitTypes, RegRecords
  <2>6. \A j \in Ids : RowHolds(j)'
    <3> SUFFICES ASSUME NEW j \in Ids PROVE RowHolds(j)'
      OBVIOUS
    <3>1. CASE j = i
      BY <2>2, <2>3, <2>4, <2>5, <3>1 DEF RowHolds
    <3>2. CASE j # i
      BY <1>1, <2>4, <2>5, <3>2 DEF RowHolds, GitInv
    <3> QED
      BY <3>1, <3>2
  <2>7. OneRowAnAccount'
    <3> SUFFICES ASSUME NEW j \in Ids, NEW k \in Ids, j # k, row'[j].status # "ABSENT"
                 PROVE  row'[j].account # row'[k].account
      BY DEF OneRowAnAccount
    <3>1. CASE j = i
      <4>1. CASE row[k].status = "ABSENT"
        <5>1. row[k].account = None
          BY <4>1 DEF GitInv, RowHolds
        <5> QED
          BY <2>2, <2>3, <2>4, <3>1, <5>1
      <4>2. CASE row[k].status # "ABSENT"
        BY <2>1, <2>3, <2>4, <3>1, <4>2
      <4> QED
        BY <4>1, <4>2
    <3>2. CASE k = i
      BY <2>1, <2>3, <2>4, <3>2
    <3>3. CASE j # i /\ k # i
      BY <1>1, <2>4, <3>3 DEF OneRowAnAccount
    <3> QED
      BY <3>1, <3>2, <3>3
  <2>8. RowsKept /\ NoneRevoked /\ NoneRepaired
    BY <1>1, <2>3, <2>4, <2>6, <2>7 DEF RowsKept, NoneRevoked, NoneRepaired
  <2>9. reg' \in RegRecords /\ RegHolds'
    BY <1>3, IdleHolds
  <2>10. LeaveHolds'
    BY <1>1, <2>8, LeaveStays
  <2> QED
    BY <1>1, <2>5, <2>8, <2>9, <2>10, OthersStay DEF GitTypes
<1> QED
  BY <1>2, <1>3 DEF Git!Save

-----------------------------------------------------------------------------
(* cancelConnection, of a replacement and of a disconnection.              *)
LEMMA CancelledUses ==
  ASSUME GitInv, UNCHANGED <<row, opens, state, last>>, NEW i, Git!Cancelled(i)
  PROVE  /\ use' \in [Uses -> UseRecords] /\ \A u \in Uses : UseHolds(u)'
         /\ \A u \in Uses : /\ use'[u].id = use[u].id /\ use'[u].at = use[u].at
                            /\ use[u].aborted => use'[u].aborted
                            /\ use[u].id = i /\ use[u].at \in Running => use'[u].aborted
<1>1. use \in [Uses -> UseRecords]
  BY DEF GitInv, GitTypes
<1>2. \A u \in Uses : use'[u] = IF use[u].entry /\ use[u].id = i THEN [use[u] EXCEPT !.aborted = TRUE] ELSE use[u]
  BY DEF Git!Cancelled
<1>3. NoneRepaired /\ RowsKept
  BY SameRows DEF NoneRepaired
<1>4. ASSUME NEW u \in Uses
      PROVE  /\ use'[u] \in UseRecords /\ UseHolds(u)'
             /\ use'[u].id = use[u].id /\ use'[u].at = use[u].at
             /\ use[u].aborted => use'[u].aborted
             /\ use[u].id = i /\ use[u].at \in Running => use'[u].aborted
  <2>1. use[u] \in UseRecords /\ UseHolds(u)
    BY <1>1 DEF GitInv
  <2>2. CASE use[u].entry /\ use[u].id = i
    <3>1. /\ use'[u] \in UseRecords /\ use'[u].at = use[u].at /\ use'[u].id = use[u].id
          /\ use'[u].version = use[u].version /\ use'[u].account = use[u].account /\ use'[u].token = use[u].token
          /\ use'[u].kind = use[u].kind /\ use'[u].entry = use[u].entry /\ use'[u].aborted = TRUE
      BY <1>2, <2>1, <2>2 DEF UseRecords
    <3>2. UseHolds(u)'
      BY <2>1, <2>2, <3>1 DEF UseHolds, Running, ReadOf, AccountOf
    <3> QED
      BY <3>1, <3>2
  <2>3. CASE ~(use[u].entry /\ use[u].id = i)
    <3>1. use'[u] = use[u]
      BY <1>2, <2>3
    <3>2. use[u].id = i => use[u].at \notin Running
      BY <2>1, <2>3 DEF UseHolds, Running
    <3> QED
      BY <1>3, <2>1, <3>1, <3>2, UseKept
  <2> QED
    BY <2>2, <2>3
<1>5. use' \in [Uses -> UseRecords]
  BY <1>4 DEF Git!Cancelled
<1> QED
  BY <1>4, <1>5

LEMMA CancelReplacedKept == ASSUME GitInv, NEW i \in Ids, Git!CancelReplaced(i) PROVE GitInv'
<1>1. /\ Git!Cancelled(i) /\ UNCHANGED <<row, opens, state, reg, entered, leave, last>>
      /\ GitTypes /\ RegHolds /\ LeaveHolds
  BY DEF Git!CancelReplaced, GitInv
<1>2. /\ use' \in [Uses -> UseRecords] /\ \A u \in Uses : UseHolds(u)'
      /\ \A u \in Uses : /\ use'[u].id = use[u].id /\ use'[u].at = use[u].at
                         /\ use[u].aborted => use'[u].aborted
  BY <1>1, CancelledUses
<1>3. RowsKept
  BY <1>1, SameRows DEF NoneRepaired
<1>4. RegHolds'
  BY <1>1, <1>3, RegKept
<1>5. LeaveHolds'
  BY <1>1, <1>2 DEF LeaveHolds
<1>6. GitTypes'
  BY <1>1, <1>2 DEF GitTypes, Git!Tokens, RowRecords, RegRecords, UseRecords, Git!Targets
<1> QED
  BY <1>2, <1>3, <1>4, <1>5, <1>6 DEF GitInv, RowsKept

LEMMA DisconnectKept == ASSUME GitInv, NEW i \in Ids, Git!Disconnect(i) PROVE GitInv'
<1>1. /\ Git!Connected(i) /\ Git!Cleared(i, "REVOKED") /\ leave' = [at |-> "cancel", id |-> i]
      /\ UNCHANGED <<opens, state, reg, entered, use, last>> /\ GitTypes
  BY DEF Git!Disconnect, GitInv
<1>2. RowsKept
  BY <1>1, ClearedRow
<1>3. LeaveHolds' /\ leave' \in [at : {"idle", "cancel", "wait", "answered"}, id : Ids \cup {None}]
  BY <1>1 DEF LeaveHolds
<1>4. RegHolds' /\ NoneRepaired
  BY <1>1, <1>2, RegKept DEF NoneRepaired
<1> QED
  BY <1>1, <1>2, <1>3, <1>4, OthersStay DEF GitTypes

LEMMA CancelDisconnectedKept == ASSUME GitInv, Git!CancelDisconnected PROVE GitInv'
<1>1. /\ leave.at = "cancel" /\ Git!Cancelled(leave.id) /\ leave' = [leave EXCEPT !.at = "wait"]
      /\ UNCHANGED <<row, opens, state, reg, entered, last>>
      /\ GitTypes /\ RegHolds /\ LeaveHolds
  BY DEF Git!CancelDisconnected, GitInv
<1>2. /\ use' \in [Uses -> UseRecords] /\ \A u \in Uses : UseHolds(u)'
      /\ \A u \in Uses : /\ use'[u].id = use[u].id /\ use'[u].at = use[u].at
                         /\ use[u].id = leave.id /\ use[u].at \in Running => use'[u].aborted
  BY <1>1, CancelledUses
<1>3. RowsKept
  BY <1>1, SameRows DEF NoneRepaired
<1>4. /\ leave' \in [at : {"idle", "cancel", "wait", "answered"}, id : Ids \cup {None}]
      /\ leave'.at = "wait" /\ leave'.id = leave.id
  BY <1>1 DEF GitTypes
<1>5. LeaveHolds'
  BY <1>1, <1>2, <1>4 DEF LeaveHolds
<1>6. RegHolds'
  BY <1>1, <1>3, RegKept
<1>7. GitTypes'
  BY <1>1, <1>2, <1>4 DEF GitTypes, Git!Tokens, RowRecords, RegRecords, UseRecords, Git!Targets
<1> QED
  BY <1>2, <1>3, <1>5, <1>6, <1>7 DEF GitInv, RowsKept

LEMMA DisconnectedKept == ASSUME GitInv, Git!Disconnected PROVE GitInv'
<1>1. /\ leave.at = "wait" /\ Git!Quiet(leave.id) /\ leave' = [leave EXCEPT !.at = "answered"]
      /\ UNCHANGED <<row, opens, state, reg, entered, use, last>>
      /\ GitTypes /\ LeaveHolds
  BY DEF Git!Disconnected, GitInv
<1>2. RowsKept /\ NoneRepaired
  BY <1>1, SameRows DEF NoneRepaired
<1>3. /\ leave' \in [at : {"idle", "cancel", "wait", "answered"}, id : Ids \cup {None}]
      /\ leave'.at = "answered" /\ leave'.id = leave.id
  BY <1>1 DEF GitTypes
<1>4. LeaveHolds'
  <2>1. ASSUME NEW u \in Uses, use[u].id = leave.id, use[u].at \in Running, row[leave.id].status = "REVOKED" PROVE FALSE
    <3>1. use[u].aborted /\ UseHolds(u)
      BY <1>1, <2>1 DEF LeaveHolds, GitInv
    <3>2. use[u].entry
      BY <3>1 DEF UseHolds
    <3> QED
      BY <1>1, <2>1, <3>1, <3>2 DEF Git!Quiet
  <2> QED
    BY <1>1, <1>3, <2>1 DEF LeaveHolds
<1>5. RegHolds'
  BY <1>1, <1>2, RegKept
<1> QED
  BY <1>1, <1>2, <1>3, <1>4, <1>5, OthersStay DEF GitTypes

LEMMA GitInvStep == ASSUME GitInv, Git!ConnectionNext PROVE GitInv'
  BY TokenEndsKept, BeginKept, ValidateKept, SaveKept, CancelReplacedKept, DisconnectKept,
     CancelDisconnectedKept, DisconnectedKept, UseStepKept, BeginUseKept DEF Git!ConnectionNext

LEMMA GitInvUnchanged == ASSUME GitInv, UNCHANGED Git!connectionVars PROVE GitInv'
<1>1. UNCHANGED <<row, opens, state, leave, use, last, reg, entered>>
  BY DEF Git!connectionVars
<1>2. RowsKept
  BY <1>1, SameRows DEF NoneRepaired
<1> QED
  BY <1>1, <1>2, RegGoesOn, RegKept DEF GitInv, GitTypes

LEMMA GitInvShows ==
  ASSUME GitInv PROVE Git!ConnectionTypeOK /\ Git!ReauthIsDeserved /\ Git!EndIsEnd
<1>1. Git!ConnectionTypeOK
  BY DEF GitInv, GitTypes, RowHolds, OneRowAnAccount, UseHolds, RowRecords, RegRecords, Git!ConnectionTypeOK, Git!Readable
<1>2. Git!ReauthIsDeserved
  BY DEF GitInv, RowHolds, Git!ReauthIsDeserved
<1>3. Git!EndIsEnd
  BY DEF GitInv, LeaveHolds, Running, Git!EndIsEnd
<1> QED
  BY <1>1, <1>2, <1>3

(* The steps of the properties: what Git is handed, a list that is shown,  *)
(* and a row that has a token again.                                       *)
LEMMA OnlyMoves ==
  ASSUME GitInv, NEW u \in Uses, use'[u].at # use[u].at, use'[u].at \in {"handed", "shown"}, Git!ConnectionNext
  PROVE  \/ Git!HandOver(u) /\ use'[u].at = "handed"
         \/ Git!Check(u) /\ use'[u].at = "shown" /\ use[u].kind = "list"
<1>1. use \in [Uses -> UseRecords]
  BY DEF GitInv, GitTypes
<1>2. ASSUME NEW w, NEW r, Git!Becomes(w, r), w \in Uses
      PROVE  w = u /\ use'[u] = r
  BY <1>1, <1>2 DEF Git!Becomes
<1>3. ASSUME NEW w \in Uses, Git!EndUse(w) PROVE FALSE
  <2>1. use'[u] = [Git!Unused EXCEPT !.at = "ended", !.kind = use[w].kind]
    BY <1>2, <1>3 DEF Git!EndUse
  <2>2. use'[u].at = "ended"
    BY <2>1 DEF Git!Unused
  <2> QED
    BY <2>2
<1>4. ASSUME NEW w \in Uses, NEW there, Git!Goes(w, there) PROVE w = u /\ there = use'[u].at
  BY <1>1, <1>2, <1>4 DEF Git!Goes, UseRecords
<1>5. ASSUME NEW w \in Uses, NEW there \in {"enter", "ask"}, Git!Capture(w, use[w].id, there) PROVE FALSE
  <2>1. PICK i, v, a, t : Git!Becomes(w, [use[w] EXCEPT !.at = there, !.id = i, !.version = v,
                                                        !.account = a, !.token = t])
    BY <1>3, <1>5 DEF Git!Capture
  <2>2. w = u /\ use'[u] = [use[w] EXCEPT !.at = there, !.id = i, !.version = v, !.account = a, !.token = t]
    BY <1>2, <2>1
  <2>3. use'[u].at = there
    BY <1>1, <2>2 DEF UseRecords
  <2> QED
    BY <2>3
<1>6. ASSUME NEW w \in Uses, NEW i, NEW kind, Git!BeginUse(w, kind, i) PROVE FALSE
  <2>1. use'[u] = [Git!Unused EXCEPT !.kind = kind, !.id = i, !.at = IF kind = "list" THEN "read" ELSE "validate"]
    BY <1>2, <1>6 DEF Git!BeginUse
  <2>2. use'[u].at \in {"read", "validate"}
    BY <2>1 DEF Git!Unused
  <2> QED
    BY <2>2
<1>7. ASSUME NEW i, Git!Cancelled(i) PROVE FALSE
  BY <1>1, <1>7 DEF Git!Cancelled, UseRecords
<1>8. use' # use
  OBVIOUS
<1>9. PICK w \in Uses : Git!UseStep(w)
  BY <1>6, <1>7, <1>8
     DEF Git!ConnectionNext, Git!TokenEnds, Git!Begin, Git!Validate, Git!Save, Git!CancelReplaced,
         Git!Disconnect, Git!CancelDisconnected, Git!Disconnected
<1>10. ~Git!ValidateUse(w) /\ ~Git!Read(w)
  BY <1>5 DEF Git!ValidateUse, Git!Read
<1>11. ASSUME Git!Enter(w) PROVE FALSE
  <2>1. w = u /\ use'[u] = [use[w] EXCEPT !.entry = TRUE, !.at = "read"]
    BY <1>2, <1>11 DEF Git!Enter
  <2>2. use'[u].at = "read"
    BY <1>1, <2>1 DEF UseRecords
  <2> QED
    BY <2>2
<1>12. ~Git!Ask(w) /\ ~Git!RefusedByProvider(w) /\ ~Git!Fetch(w) /\ ~Git!FetchEnds(w)
  BY <1>3, <1>4 DEF Git!Ask, Git!RefusedByProvider, Git!Fetch, Git!FetchEnds
<1>13. CASE Git!HandOver(w)
  <2>1. w = u /\ use'[u].at = "handed"
    BY <1>3, <1>4, <1>13 DEF Git!HandOver, Git!AssertCurrent
  <2> QED
    BY <1>13, <2>1
<1>14. CASE Git!Check(w)
  <2>1. w = u /\ use'[u].at = IF use[u].kind = "list" THEN "shown" ELSE "authorized"
    BY <1>3, <1>4, <1>14 DEF Git!Check, Git!AssertCurrent
  <2> QED
    BY <1>14, <2>1
<1> QED
  BY <1>9, <1>10, <1>11, <1>12, <1>13, <1>14 DEF Git!UseStep

LEMMA HandedAndShown ==
  ASSUME GitInv, Git!ConnectionNext, NEW u \in Uses
  PROVE  /\ use[u].at # "handed" /\ use'[u].at = "handed" => use'[u].token = row[use[u].id].token
         /\ use[u].at # "shown" /\ use'[u].at = "shown" =>
              use[u].account = row[use[u].id].account /\ Git!Readable(use[u].id)
<1>1. UseHolds(u) /\ use \in [Uses -> UseRecords] /\ use[u] \in UseRecords
  BY DEF GitInv, GitTypes
<1>2. ASSUME Git!HandOver(u), use'[u].at = "handed" PROVE use'[u].token = row[use[u].id].token
  <2>1. use[u].at = "authorized" /\ ~Git!EndUse(u)
    BY <1>1, <1>2 DEF Git!HandOver, Git!EndUse, Git!Becomes, Git!Unused
  <2>2. Git!Unchanged(u) /\ Git!Goes(u, "handed")
    BY <1>2, <2>1 DEF Git!HandOver, Git!AssertCurrent
  <2>3. use'[u].token = use[u].token
    BY <1>1, <2>2 DEF Git!Goes, Git!Becomes, UseRecords
  <2> QED
    BY <1>1, <2>1, <2>2, <2>3 DEF UseHolds, ReadOf, Git!Unchanged, Git!SameVersion
<1>3. ASSUME Git!Check(u), use'[u].at = "shown"
      PROVE  use[u].account = row[use[u].id].account /\ Git!Readable(use[u].id)
  <2>1. use[u].at = "check" /\ ~Git!EndUse(u)
    BY <1>1, <1>3 DEF Git!Check, Git!EndUse, Git!Becomes, Git!Unused
  <2>2. Git!Unchanged(u)
    BY <1>3, <2>1 DEF Git!Check, Git!AssertCurrent
  <2> QED
    BY <1>1, <2>1, <2>2 DEF UseHolds, AccountOf, Git!Unchanged, Git!SameVersion
<1> QED
  BY <1>2, <1>3, OnlyMoves

LEMMA OnlySaved ==
  ASSUME GitInv, Git!ConnectionNext, NEW i \in Ids, row[i].token = 0, row'[i].token # 0
  PROVE  /\ row[i].status = "REVOKED" => reg.way \in {"new", "copy"}
         /\ reg.way = "copy" => row[reg.id].token = reg.token
<1>1. row \in [Ids -> RowRecords] /\ reg \in RegRecords /\ RegHolds
  BY DEF GitInv, GitTypes
<1>2. ASSUME NEW j, NEW status, Git!Cleared(j, status) PROVE FALSE
  BY <1>1, <1>2 DEF Git!Cleared, RowRecords
<1>3. ASSUME NEW j, NEW v, Git!RequireReauthentication(j, v) PROVE FALSE
  BY <1>2, <1>3 DEF Git!RequireReauthentication
<1>4. row' # row
  OBVIOUS
<1>5. ASSUME NEW u \in Uses, Git!UseStep(u) PROVE FALSE
  BY <1>3, <1>4, <1>5
     DEF Git!UseStep, Git!ValidateUse, Git!Enter, Git!Read, Git!Ask, Git!RefusedByProvider, Git!Check, Git!HandOver,
         Git!Fetch, Git!FetchEnds, Git!Capture, Git!AssertCurrent
<1>6. Git!Save
  BY <1>2, <1>4, <1>5
     DEF Git!ConnectionNext, Git!TokenEnds, Git!Begin, Git!Validate, Git!CancelReplaced,
         Git!Disconnect, Git!CancelDisconnected, Git!Disconnected, Git!BeginUse
<1>7. /\ reg.at = "save" /\ Git!Stands
      /\ \E k \in Git!Place : row' = [row EXCEPT ![k] = [status |-> "ACTIVE", account |-> reg.account,
                                                          token |-> reg.token, version |-> Git!Next(k)]]
  BY <1>4, <1>6 DEF Git!Save
<1>8. i \in Git!Place
  BY <1>1, <1>7
<1>9. reg.way \in {"replace", "move"} => i = reg.id
  BY <1>8 DEF Git!Place
<1>10. reg.way \in {"replace", "move"} => row[i].status # "REVOKED"
  BY <1>7, <1>9 DEF Git!Stands, Git!Expected, Git!Connected
<1>11. reg.way = "copy" => row[reg.id].token = reg.token
  BY <1>1, <1>7 DEF Git!Stands, Git!Source, Git!SameVersion, RegHolds, ReadOf
<1> QED
  BY <1>1, <1>10, <1>11 DEF RegRecords

-----------------------------------------------------------------------------
(* The three together: a step is of one of them.                           *)
AccessAndGitInv == AccessInv /\ GitInv /\ NetworkInv

LEMMA AccessAndGitStep ==
  ASSUME AccessAndGitInv, [Next]_vars PROVE AccessAndGitInv'
<1> USE DEF AccessAndGitInv
<1>1. UNCHANGED accessVars => AccessInv'
  BY AccessInvUnchanged DEF accessVars, Access!accessVars
<1>2. UNCHANGED gitVars => GitInv'
  BY GitInvUnchanged DEF gitVars, Git!connectionVars
<1>3. UNCHANGED networkVars => NetworkInv'
  BY NetworkInvUnchanged DEF networkVars, Network!policyVars
<1>4. CASE AccessStep(Access!AccessNext)
  BY <1>2, <1>3, <1>4, AccessInvStep DEF AccessStep
<1>5. CASE GitStep(Git!ConnectionNext)
  BY <1>1, <1>3, <1>5, GitInvStep DEF GitStep
<1>6. CASE NetworkStep(Network!PolicyNext)
  BY <1>1, <1>2, <1>6, NetworkInvStep DEF NetworkStep
<1>7. CASE HomeStep(Home!HomeNext) \/ UiStep(Ui!UiNext) \/ UNCHANGED vars
  BY <1>1, <1>2, <1>3, <1>7 DEF HomeStep, UiStep, vars
<1> QED
  BY <1>4, <1>5, <1>6, <1>7 DEF Next

LEMMA AccessAndGitInvariance == Spec => []AccessAndGitInv
<1>1. Init => AccessAndGitInv
  BY AccessInvInit, GitInvInit, NetworkInvInit DEF Init, AccessAndGitInv
<1>2. AccessAndGitInv /\ [Next]_vars => AccessAndGitInv'
  BY AccessAndGitStep
<1> QED
  BY <1>1, <1>2, PTL DEF Spec

(* What is done was the user's to do when the last check of it looked, what*)
(* is recorded as granted was, and what is listed can be opened.           *)
THEOREM OnlyEntitledAct == Spec => []DoneWhileEntitled
<1>1. AccessAndGitInv => DoneWhileEntitled
  BY AccessInvShows DEF AccessAndGitInv, DoneWhileEntitled
<1> QED
  BY <1>1, AccessAndGitInvariance, PTL

(* A late refusal does not end a newer token, an import does not outlive   *)
(* its connection, and Git reaches no address whose removal was answered   *)
(* without an error; a policy that was read back is the one stored.        *)
THEOREM GitAccessStaysCurrent == Spec => []GitAccessIsCurrent
<1>1. AccessAndGitInv => GitAccessIsCurrent
  BY GitInvShows, NetworkInvShows DEF AccessAndGitInv, GitAccessIsCurrent
<1> QED
  BY <1>1, AccessAndGitInvariance, PTL

-----------------------------------------------------------------------------
(* The steps of Git, of a setup and of a stop, where others do not matter. *)
LEMMA OfGit ==
  ASSUME [Next]_vars PROVE Git!ConnectionNext \/ UNCHANGED Git!connectionVars
BY DEF Next, vars, gitVars, Git!connectionVars, AccessStep, GitStep, NetworkStep, HomeStep, UiStep
LEMMA OfHome ==
  ASSUME [Next]_vars PROVE Home!HomeNext \/ UNCHANGED Home!homeVars
BY DEF Next, vars, homeVars, Home!homeVars, AccessStep, GitStep, NetworkStep, HomeStep, UiStep
LEMMA OfUi ==
  ASSUME [Next]_vars PROVE Ui!UiNext \/ UNCHANGED Ui!uiVars
BY DEF Next, vars, uiVars, Ui!uiVars, AccessStep, GitStep, NetworkStep, HomeStep, UiStep

(* Git is handed what is stored, nothing ended is revived, and a list is of*)
(* the account that is connected.                                          *)
LEMMA GitStepsAreCurrent == Spec => Git!HandedIsStored /\ Git!NothingRevived /\ Git!ListedIsCurrent
<1>1. AccessAndGitInv /\ [Next]_vars =>
        [\A u \in Uses : use[u].at # "handed" /\ use'[u].at = "handed" =>
           use'[u].token = row[use[u].id].token]_(Git!connectionVars)
  BY HandedAndShown, OfGit DEF AccessAndGitInv
<1>2. AccessAndGitInv /\ [Next]_vars =>
        [\A i \in Ids : row[i].token = 0 /\ row'[i].token # 0 =>
           /\ row[i].status = "REVOKED" => reg.way \in {"new", "copy"}
           /\ reg.way = "copy" => row[reg.id].token = reg.token]_(Git!connectionVars)
  BY OnlySaved, OfGit DEF AccessAndGitInv
<1>3. AccessAndGitInv /\ [Next]_vars =>
        [\A u \in Uses : use[u].at # "shown" /\ use'[u].at = "shown" =>
           use[u].account = row[use[u].id].account /\ Git!Readable(use[u].id)]_(Git!connectionVars)
  BY HandedAndShown, OfGit DEF AccessAndGitInv
<1> QED
  BY <1>1, <1>2, <1>3, AccessAndGitInvariance, PTL
     DEF Spec, Git!HandedIsStored, Git!NothingRevived, Git!ListedIsCurrent

(* A setup replaces both files or neither, and only what it has read; a    *)
(* token that is there stays.                                              *)
LEMMA HomeStepsAreWhole == Spec => Home!BothOrNeither /\ Home!NoLostUpdate /\ Home!TokenStays
<1>1. HomeInv /\ [Next]_vars =>
        [\A p \in Processes : proc[p].op = "setup" /\ proc[p].at = "release" /\ proc'[p].at = "ended" =>
           CASE proc[p].result = "saved" -> \A f \in Home!Files : file[f].id > proc[p].before[f].id
             [] proc[p].result = "not restored" -> TRUE
             [] OTHER -> \A f \in Home!Files : file[f] = proc[p].before[f]]_(Home!homeVars)
  BY BothOrNeitherStep
<1>2. HomeInv /\ [Next]_vars =>
        [\A f \in Home!Files : file[f] # Home!Absent /\ file'[f].id > file[f].id =>
           \E p \in Processes : proc[p].at = f /\ Home!Read(p, f) = file[f]]_(Home!homeVars)
  BY NoLostUpdateStep, OfHome
<1>3. HomeInv /\ [Next]_vars =>
        [file["secrets"].token /\ file["secrets"].whole /\ ~file'["secrets"].token =>
           \E p \in Processes : proc[p].at = "restore" /\ "secrets" \in proc[p].wrote]_(Home!homeVars)
  BY TokenStaysStep, OfHome
<1> QED
  BY <1>1, <1>2, <1>3, SettingsInvariance, PTL
     DEF Spec, Home!BothOrNeither, Home!NoLostUpdate, Home!TokenStays

(* No step acts on what is out of date: neither on a token or an account   *)
(* that was replaced, nor on a file or a server that is another by now.    *)
THEOREM NothingStaleIsEverDone == Spec => NothingStaleIsDone
<1>1. UiInv /\ [Next]_vars => [\A s \in asked' \ asked : s \in stopper.wanted]_(Ui!uiVars)
  BY OnlyWanted, OfUi
<1>2. Spec => Ui!OnlyWantedStops
  BY <1>1, SettingsInvariance, PTL DEF Spec, Ui!OnlyWantedStops
<1> QED
  BY <1>2, GitStepsAreCurrent, HomeStepsAreWhole DEF NothingStaleIsDone
=============================================================================
