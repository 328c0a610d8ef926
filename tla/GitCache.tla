------------------------------ MODULE GitCache ------------------------------
(***************************************************************************)
(* GitCache: directories shared by imports, one user of a directory at a   *)
(* time.  An acquire waits for its turn, charges the full allowance of a   *)
(* repository before its first await and makes room by deleting idle       *)
(* directories, whose turn it takes itself meanwhile.                      *)
(***************************************************************************)
EXTENDS KeyedTails, FiniteSets, FiniteSetsExt

CONSTANTS Users,        \* acquire calls under way, each with one directory
          Evictor(_),   \* the party that deletes directories for a user
          RepositoryLimit, TotalLimit,
          MaxDisk,      \* what a directory may take on disk, whatever the limits say
          MaxFaults

VARIABLES size,         \* bytes charged to a directory, 0 for one that is not listed
          disk,         \* bytes it takes on disk, 0 for one that is not there
          active, user, closed, unlocked, faults,
          fitted        \* all charges have been within the limit once (history)

cacheVars == <<tail, prior, size, disk, active, user, closed, unlocked, faults, fitted>>

Steps == {"out", "waiting", "listing", "evicting", "deleting", "making", "granted", "releasing"}
NoKey == "none"

CacheTypeOK ==
  /\ tail \in [Keys -> Parties \cup {NoParty}] /\ prior \in [Parties -> Parties \cup {NoParty}]
  /\ size \in [Keys -> 0 .. MaxDisk] /\ disk \in [Keys -> 0 .. MaxDisk] /\ active \subseteq Keys
  /\ user \in [Users -> [pc : Steps, key : Keys \cup {NoKey}, victim : Keys \cup {NoKey},
                         candidates : SUBSET Keys]]
  /\ closed \in BOOLEAN /\ unlocked \in BOOLEAN /\ faults \in 0 .. MaxFaults
  /\ fitted \in BOOLEAN

Out == [pc |-> "out", key |-> NoKey, victim |-> NoKey, candidates |-> {}]

SizeSum(sizes) == MapThenSumSet(LAMBDA k : sizes[k], Keys)

Fits(sizes) == SizeSum(sizes) <= TotalLimit

(* create: the directories found on the disk are charged what they take,   *)
(* be it above the limits.                                                 *)
CacheInit ==
  /\ size \in [Keys -> 0 .. MaxDisk] /\ disk = size /\ fitted = Fits(size)
  /\ tail = [k \in Keys |-> NoParty] /\ prior = [p \in Parties |-> NoParty]
  /\ active = {} /\ user = [u \in Users |-> Out]
  /\ closed = FALSE /\ unlocked = FALSE /\ faults = 0

Goto(u, pc) == user' = [user EXCEPT ![u].pc = pc]
Fault == faults < MaxFaults /\ faults' = faults + 1

Acquire(u, k) ==
  /\ user[u].pc = "out" /\ ~closed
  /\ Join(k, u)
  /\ user' = [user EXCEPT ![u].pc = "waiting", ![u].key = k]
  /\ UNCHANGED <<size, disk, active, closed, unlocked, faults, fitted>>

(* Mutant: the allowance is charged when the directory is handed out.      *)
ChargedLater(k) == size

Charged(k) == [size EXCEPT ![k] = RepositoryLimit]

Listed == {k \in Keys : size[k] > 0}
Evictable(k) == k \notin active /\ ~Tailed(k)

(* The turn has come. Whether there is room is decided with the charge; if *)
(* there is none, the idle directories are the candidates for eviction.    *)
Turn(u) ==
  /\ user[u].pc = "waiting" /\ First(u)
  /\ LET k == user[u].key
     IN  \/ /\ ~closed
            /\ active' = active \cup {k} /\ size' = Charged(k)
            /\ user' = IF Fits(Charged(k)) THEN [user EXCEPT ![u].pc = "making"]
                       ELSE [user EXCEPT ![u].pc = "listing",
                                         ![u].candidates = {c \in Listed : c # k /\ Evictable(c)}]
            /\ fitted' = (fitted \/ Fits(Charged(k)))
         \/ Goto(u, "releasing") /\ UNCHANGED <<active, size, fitted>>      \* closed, or aborted
  /\ UNCHANGED <<tail, prior, disk, closed, unlocked, faults>>

(* Their times are read; one that somebody deleted in the meantime, like   *)
(* any other failure, ends the acquire.                                    *)
List(u) ==
  /\ user[u].pc = "listing"
  /\ \/ Goto(u, "evicting") /\ UNCHANGED faults
     \/ (\E k \in user[u].candidates : disk[k] = 0) /\ Goto(u, "releasing") /\ UNCHANGED faults
     \/ Fault /\ Goto(u, "releasing")
  /\ UNCHANGED <<tail, prior, size, disk, active, closed, unlocked, fitted>>

(* Mutant: what became used in the meantime is deleted all the same.       *)
StillEvictableAlways(k) == TRUE

StillEvictable(k) == Evictable(k)

(* One candidate after the other is looked at again and deleted, until     *)
(* there is room or none is left.                                          *)
Evict(u) ==
  /\ user[u].pc = "evicting"
  /\ IF user[u].candidates = {}
     THEN /\ Goto(u, IF Fits(size) THEN "making" ELSE "releasing") /\ fitted' = (fitted \/ Fits(size))
          /\ UNCHANGED <<tail, prior, active>>
     ELSE \E k \in user[u].candidates :
            /\ UNCHANGED fitted
            /\ IF StillEvictable(k)
               THEN /\ active' = active \cup {k} /\ Join(k, Evictor(u))
                    /\ user' = [user EXCEPT ![u].pc = "deleting", ![u].victim = k, ![u].candidates = @ \ {k}]
               ELSE /\ user' = [user EXCEPT ![u].candidates = @ \ {k}]
                    /\ UNCHANGED <<tail, prior, active>>
  /\ UNCHANGED <<size, disk, closed, unlocked, faults>>

(* Mutant: a deletion that failed leaves its mark.                         *)
FreedOnSuccess(k, ok) == IF ok THEN active \ {k} ELSE active

Freed(k, ok) == active \ {k}

Evicted(u) ==
  /\ user[u].pc = "deleting"
  /\ LET k == user[u].victim IN
     \E ok \in BOOLEAN :
       /\ IF ok THEN UNCHANGED faults ELSE Fault
       /\ Leave(k, Evictor(u)) /\ active' = Freed(k, ok)
       /\ IF ok THEN /\ size' = [size EXCEPT ![k] = 0] /\ disk' = [disk EXCEPT ![k] = 0]
                     /\ user' = [user EXCEPT ![u].victim = NoKey,
                                  ![u].pc = IF Fits(size') THEN "making" ELSE "evicting"]
                     /\ fitted' = (fitted \/ Fits(size'))
          ELSE /\ user' = [user EXCEPT ![u].victim = NoKey, ![u].pc = "releasing"]
               /\ UNCHANGED <<size, disk, fitted>>
  /\ UNCHANGED <<closed, unlocked>>

(* The directory is made and handed out.                                   *)
Grant(u) ==
  /\ user[u].pc = "making"
  /\ \/ /\ UNCHANGED faults
        /\ disk' = [disk EXCEPT ![user[u].key] = IF @ = 0 THEN 1 ELSE @]
        /\ user' = [user EXCEPT ![u].pc = "granted", ![u].candidates = {}]
     \/ Fault /\ Goto(u, "releasing") /\ UNCHANGED disk
  /\ UNCHANGED <<tail, prior, size, active, closed, unlocked, fitted>>

(* What the user leaves behind; all that is too large is alike.            *)
Done(u) ==
  /\ user[u].pc = "granted" /\ Goto(u, "releasing")
  /\ \E bytes \in 1 .. RepositoryLimit \cup {MaxDisk} : disk' = [disk EXCEPT ![user[u].key] = bytes]
  /\ UNCHANGED <<tail, prior, size, active, closed, unlocked, faults, fitted>>

(* release: the size is measured; a directory that cannot be measured or   *)
(* is too large is deleted, and charged in full when that fails too.       *)
Fails(n) == faults + n <= MaxFaults /\ faults' = faults + n

(* Mutant: an acquire that failed before it got its turn keeps it.         *)
ReleaseHeld(u) ==
  /\ user[u].pc = "releasing" /\ user[u].key \in active
  /\ size' = [size EXCEPT ![user[u].key] = 0] /\ disk' = [disk EXCEPT ![user[u].key] = 0]
  /\ active' = active \ {user[u].key}
  /\ Leave(user[u].key, u)
  /\ user' = [user EXCEPT ![u] = Out]
  /\ UNCHANGED <<closed, unlocked, faults, fitted>>

Release(u) ==
  /\ user[u].pc = "releasing"
  /\ LET k == user[u].key
         measurable == disk[k] \in 1 .. RepositoryLimit
         unmeasured == IF measurable THEN 1 ELSE 0
     IN  /\ \/ measurable /\ size' = [size EXCEPT ![k] = disk[k]] /\ UNCHANGED <<disk, faults>>
            \/ /\ Fails(unmeasured)
               /\ disk' = [disk EXCEPT ![k] = 0] /\ size' = [size EXCEPT ![k] = 0]
            \/ disk[k] > 0 /\ Fails(1 + unmeasured) /\ size' = Charged(k) /\ UNCHANGED disk
         /\ active' = active \ {k}
         /\ Leave(k, u)
         /\ user' = [user EXCEPT ![u] = Out]
  /\ UNCHANGED <<closed, unlocked, fitted>>

Close ==
  /\ ~closed /\ closed' = TRUE
  /\ UNCHANGED <<tail, prior, size, disk, active, user, unlocked, faults, fitted>>

(* Mutant: the lock is closed at once.                                     *)
UnlockAtOnce ==
  /\ closed /\ ~unlocked /\ unlocked' = TRUE
  /\ UNCHANGED <<tail, prior, size, disk, active, user, closed, faults, fitted>>

Unlock ==
  /\ closed /\ ~unlocked /\ \A k \in Keys : ~Tailed(k)
  /\ unlocked' = TRUE
  /\ UNCHANGED <<tail, prior, size, disk, active, user, closed, faults, fitted>>

Proceed(u) == Turn(u) \/ List(u) \/ Evict(u) \/ Evicted(u) \/ Grant(u) \/ Done(u) \/ Release(u)

CacheNext == \/ \E u \in Users : Proceed(u) \/ \E k \in Keys : Acquire(u, k)
             \/ Close \/ Unlock

CacheSpec == CacheInit /\ [][CacheNext]_cacheVars

(* Whoever has a directory gives it back: git operations have a deadline.  *)
CacheFairness == \A u \in Users : WF_cacheVars(Proceed(u))

-----------------------------------------------------------------------------
Holding(u) == user[u].pc \notin {"out", "waiting"}

(* A directory has one holder, the user whose turn it is or the deletion.  *)
OneHolder ==
  /\ \A u, v \in Users : u # v /\ Holding(u) /\ Holding(v) => user[u].key # user[v].key
  /\ \A u, v \in Users : user[u].pc = "deleting" /\ Holding(v) => user[u].victim # user[v].key

(* What was granted is there, and is not deleted under the user's hands.   *)
GrantedIsPresent == \A u \in Users : user[u].pc = "granted" => disk[user[u].key] > 0

(* The cache may find more on the disk than it may keep. Once there was    *)
(* room for everything, the charges of users that still look for room      *)
(* aside, it never grows over its limit again, whoever acquires, releases  *)
(* and evicts at once. Where a directory can be neither measured nor       *)
(* deleted, which takes two failures, its full charge stays, even that of  *)
(* a user who was refused for it.                                          *)
Settling == {user[u].key : u \in {v \in Users : user[v].pc \in {"listing", "evicting", "deleting", "releasing"}}}

CacheWithinTotal ==
  fitted /\ faults < 2 => MapThenSumSet(LAMBDA k : size[k], Keys \ Settling) <= TotalLimit

(* The marks of use belong to somebody: nothing stays blocked after a      *)
(* failed deletion or a cancelled acquire.                                 *)
MarksHaveOwners ==
  /\ \A k \in active : \E u \in Users : (Holding(u) /\ user[u].key = k) \/ user[u].victim = k
  /\ \A k \in Keys : Tailed(k) => \E u \in Users : user[u].key = k \/ user[u].victim = k

(* Another process can take the cache over only when nobody uses it.       *)
LockOutlivesUse == unlocked => \A u \in Users : user[u].pc = "out"
=============================================================================
