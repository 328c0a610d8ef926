------------------------------- MODULE OrgCache -------------------------------
(***************************************************************************)
(* WorkspaceService's list of a user's orgs: cached under a fingerprint of *)
(* the stored connections, loaded once for all who wait, and dropped by    *)
(* the routes that change a connection, after the change is committed.     *)
(***************************************************************************)
EXTENDS Naturals, FiniteSets

CONSTANTS Callers, Nothing,
          MaxVersion, MaxEpoch  \* bounds: changes, and drops before the last question

VARIABLES version,    \* of the stored connections: one more with each change
          answered,   \* the latest change whose route has dropped the cache
          dropping,   \* the changes whose route has not yet
          foreign,    \* the latest change nobody here drops the cache for
          cache,      \* orgCache: a fingerprint and the list loaded
          epoch,      \* orgCacheEpoch
          pending,    \* orgRequests: the caller whose load others may join
          load,       \* per caller: its load of the list
          caller

cacheVars == <<version, answered, dropping, foreign, cache, epoch, pending, load, caller>>

Versions == 0 .. MaxVersion
NoLoad == [state |-> "none", value |-> 0]
Started == [state |-> "started", value |-> 0]
Fresh == [pc |-> "idle", refresh |-> FALSE, since |-> 0, fingerprint |-> 0, epoch |-> 0,
          joined |-> Nothing, answer |-> Nothing]

OrgTypeOK ==
  /\ {version, answered, foreign} \subseteq Versions /\ dropping \subseteq Versions
  /\ cache \in [fingerprint : Versions, value : Versions] \cup {Nothing}
  /\ epoch \in Nat /\ pending \in Callers \cup {Nothing}
  /\ load \in [Callers -> [state : {"none", "started", "done", "failed"}, value : Versions]]
  /\ caller \in [Callers -> [pc : {"idle", "asked", "lookup", "wait", "over"}, refresh : BOOLEAN,
                             since : Versions, fingerprint : Versions, epoch : Nat,
                             joined : Callers \cup {Nothing}, answer : Versions \cup {Nothing}]]

OrgInit ==
  /\ version = 0 /\ answered = 0 /\ dropping = {} /\ foreign = 0
  /\ cache = Nothing /\ epoch = 0 /\ pending = Nothing
  /\ load = [c \in Callers |-> NoLoad] /\ caller = [c \in Callers |-> Fresh]

Connections == <<version, answered, dropping, foreign>>
Cached == <<cache, epoch, pending>>

-----------------------------------------------------------------------------
(* A route commits a change of a connection ...                            *)
Commit ==
  /\ version < MaxVersion /\ version' = version + 1 /\ dropping' = dropping \cup {version'}
  /\ UNCHANGED <<answered, foreign, Cached, load, caller>>

(* Mutant: who is loading the list already may as well go on.              *)
ClearedUnlessLoading == cache' = Nothing /\ epoch' = epoch + 1 /\ UNCHANGED pending

(* clearOrgCache: no one joins a load that began before.                   *)
Cleared == cache' = Nothing /\ epoch' = epoch + 1 /\ pending' = Nothing

(* ... and drops the cache before it answers.                              *)
Drop(v) ==
  /\ v \in dropping /\ dropping' = dropping \ {v} /\ Cleared
  /\ answered' = IF v > answered THEN v ELSE answered
  /\ UNCHANGED <<version, foreign, load, caller>>

(* A command stores a new status, or another server a new connection:      *)
(* nobody drops this cache.                                                *)
ChangeElsewhere ==
  /\ version < MaxVersion /\ version' = version + 1 /\ foreign' = version'
  /\ UNCHANGED <<answered, dropping, Cached, load, caller>>

-----------------------------------------------------------------------------
Set(c, r) == caller' = [caller EXCEPT ![c] = r]

(* listOrgs or refreshOrgs: connectionFingerprint reads the connections.   *)
Ask(c) ==
  /\ caller[c].pc = "idle" /\ epoch < MaxEpoch
  /\ \E refresh \in BOOLEAN :
       Set(c, [caller[c] EXCEPT !.pc = "asked", !.refresh = refresh, !.since = answered])
  /\ UNCHANGED <<Connections, Cached, load>>

Fingerprint(c) ==
  /\ caller[c].pc = "asked"
  /\ Set(c, [caller[c] EXCEPT !.pc = "lookup", !.fingerprint = version])
  /\ UNCHANGED <<Connections, Cached, load>>

(* One step: the cached list, if its fingerprint is this one; else the     *)
(* load under way, or one of its own.                                      *)
Lookup(c) ==
  LET hit   == cache # Nothing /\ cache.fingerprint = caller[c].fingerprint
      stale == cache # Nothing /\ ~hit
      now   == IF stale THEN epoch + 1 ELSE epoch
      join  == IF stale THEN Nothing ELSE pending
  IN /\ caller[c].pc = "lookup" /\ ~caller[c].refresh
     /\ IF hit THEN /\ Set(c, [caller[c] EXCEPT !.pc = "over", !.answer = cache.value])
                    /\ UNCHANGED <<Cached, load>>
        ELSE /\ epoch' = now /\ cache' = Nothing
             /\ IF join = Nothing THEN pending' = c /\ load' = [load EXCEPT ![c] = Started]
                ELSE pending' = join /\ UNCHANGED load
             /\ Set(c, [caller[c] EXCEPT !.pc = "wait", !.epoch = now,
                                         !.joined = IF join = Nothing THEN c ELSE join])
     /\ UNCHANGED Connections

(* refreshOrgs joins nobody, and nobody joins it.                          *)
Refresh(c) ==
  /\ caller[c].pc = "lookup" /\ caller[c].refresh
  /\ load' = [load EXCEPT ![c] = Started]
  /\ Set(c, [caller[c] EXCEPT !.pc = "wait", !.epoch = epoch, !.joined = c])
  /\ UNCHANGED <<Connections, Cached>>

(* loadOrgs: the orgs of the connections as they are at some point of it;  *)
(* one replaced meanwhile fails it.                                        *)
Load(c) ==
  /\ load[c].state = "started"
  /\ \E state \in {"done", "failed"} :
       load' = [load EXCEPT ![c] = [state |-> state, value |-> version]]
  /\ UNCHANGED <<Connections, Cached, caller>>

(* Mutant: the list is stored whatever happened since it was asked for.    *)
StoreAlways(c, value) == cache' = [fingerprint |-> caller[c].fingerprint, value |-> value]

(* Stored unless the cache was dropped since the load was asked for.       *)
Store(c, value) ==
  IF epoch = caller[c].epoch THEN cache' = [fingerprint |-> caller[c].fingerprint, value |-> value]
  ELSE UNCHANGED cache

(* Each of those who wait goes on by itself.                               *)
Resume(c) ==
  LET of == caller[c].joined
  IN /\ caller[c].pc = "wait" /\ load[of].state \in {"done", "failed"}
     /\ IF load[of].state = "failed" THEN Set(c, [caller[c] EXCEPT !.pc = "over"]) /\ UNCHANGED cache
        ELSE Set(c, [caller[c] EXCEPT !.pc = "over", !.answer = load[of].value]) /\ Store(c, load[of].value)
     /\ pending' = IF ~caller[c].refresh /\ pending = of THEN Nothing ELSE pending
     /\ UNCHANGED <<Connections, epoch, load>>

(* The caller asks again, once nobody waits for its load.                  *)
Again(c) ==
  /\ caller[c].pc = "over" /\ pending # c
  /\ \A d \in Callers : caller[d].pc = "wait" => caller[d].joined # c
  /\ Set(c, Fresh) /\ load' = [load EXCEPT ![c] = NoLoad]
  /\ UNCHANGED <<Connections, Cached>>

Proceed(c) == Fingerprint(c) \/ Lookup(c) \/ Refresh(c) \/ Load(c) \/ Resume(c)
OrgNext ==
  \/ Commit \/ ChangeElsewhere
  \/ \E v \in dropping : Drop(v)
  \/ \E c \in Callers : Ask(c) \/ Proceed(c) \/ Again(c)

-----------------------------------------------------------------------------
(* Once the route that changed a connection has answered, nobody who asks  *)
(* for the orgs is given the list from before the change.                  *)
ReadsOwnChange ==
  \A c \in Callers :
    caller[c].pc = "over" /\ caller[c].answer # Nothing => caller[c].answer >= caller[c].since

(* What is kept is of the connections as they are now, but for a change    *)
(* whose route is about to drop it and for changes made elsewhere.         *)
CachedIsCurrent ==
  cache # Nothing =>
    \/ cache.value >= version
    \/ \E v \in dropping \cup {foreign} : v > cache.value
=============================================================================
