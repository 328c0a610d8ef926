------------------------------- MODULE LoginLimits -------------------------------
(***************************************************************************)
(* What a login reserves before a password is verified: an attempt of its  *)
(* address, an attempt of its account and a slot of the processor; and     *)
(* what remains of them when it has failed.                                *)
(***************************************************************************)
EXTENDS Naturals, FiniteSets

CONSTANTS Logins,                    \* numbered as they arrive
          Addresses, Accounts, None,
          MaxAttempts, MaxSlots,     \* maximumAttempts, maximum
          WindowMs,                  \* windowMs
          MaxClock                   \* bound

VARIABLES clock,
          reserved,     \* per key: the logins whose reservation it holds
          failures,     \* per key: the failures, each with when it expires
          slots,        \* active
          login

limitVars == <<clock, reserved, failures, slots, login>>

Keys == Addresses \cup Accounts
Unseen == [pc |-> "new", address |-> None, account |-> None, at |-> 0]

LimitTypeOK ==
  /\ clock \in 0 .. MaxClock /\ slots \in 0 .. MaxSlots
  /\ reserved \in [Keys -> SUBSET Logins]
  /\ failures \in [Keys -> SUBSET (Logins \X Nat)]
  /\ login \in [Logins -> [pc : {"new", "verifying", "succeeded", "failed", "refused"},
                           address : Addresses \cup {None}, account : Accounts \cup {None},
                           at : 0 .. MaxClock]]

LimitInit ==
  /\ clock = 0 /\ reserved = [k \in Keys |-> {}] /\ failures = [k \in Keys |-> {}]
  /\ slots = 0 /\ login = [l \in Logins |-> Unseen]

-----------------------------------------------------------------------------
Failed(k) == Cardinality({f \in failures[k] : f[2] > clock})
Pending(k) == Cardinality({l \in reserved[k] : login[l].at + WindowMs > clock})

(* Mutant: a verification under way does not count.                        *)
OpenToFailures(k) == Failed(k) < MaxAttempts

(* reserve: failures and reservations count alike.                         *)
Open(k) == Failed(k) + Pending(k) < MaxAttempts

(* Mutant: what was reserved first stays reserved when the next is refused.*)
HeldWith(l, a, c) ==
  [k \in Keys |-> IF k = a \/ (k = c /\ Open(a)) THEN reserved[k] \cup {l} ELSE reserved[k]]

(* What a login holds: all it needs, or nothing.                           *)
Held(l, a, c) ==
  [k \in Keys |-> IF k \in {a, c} /\ Open(a) /\ Open(c) /\ slots < MaxSlots
                  THEN reserved[k] \cup {l} ELSE reserved[k]]

(* The route reserves in one step; pruned failures count for nothing.      *)
Arrive(l) ==
  /\ login[l].pc = "new" /\ \A m \in 1 .. l - 1 : login[m].pc # "new"
  /\ \E a \in Addresses, c \in Accounts :
       LET admitted == Open(a) /\ Open(c) /\ slots < MaxSlots
       IN /\ reserved' = Held(l, a, c)
          /\ slots' = IF admitted THEN slots + 1 ELSE slots
          /\ login' = [login EXCEPT ![l] = [pc |-> IF admitted THEN "verifying" ELSE "refused",
                                            address |-> a, account |-> c, at |-> clock]]
  /\ UNCHANGED <<clock, failures>>

(* Mutant: the slot of a failed login is given back twice.                 *)
FreedTwice(pc) == IF pc = "failed" THEN slots - 2 ELSE slots - 1

Released(pc) == slots - 1

(* succeed or fail, of both attempts, and the slot.                        *)
Verified(l) ==
  LET of == {login[l].address, login[l].account}
  IN /\ login[l].pc = "verifying"
     /\ \E pc \in {"succeeded", "failed"} :
          /\ login' = [login EXCEPT ![l].pc = pc]
          /\ failures' = [k \in Keys |-> IF pc = "failed" /\ k \in of
                                         THEN failures[k] \cup {<<l, clock + WindowMs>>} ELSE failures[k]]
          /\ slots' = Released(pc)
     /\ reserved' = [k \in Keys |-> reserved[k] \ {l}]
     /\ UNCHANGED clock

LimitTick == clock < MaxClock /\ clock' = clock + 1 /\ UNCHANGED <<reserved, failures, slots, login>>

LimitNext == LimitTick \/ \E l \in Logins : Arrive(l) \/ Verified(l)

-----------------------------------------------------------------------------
(* However many logins are verified at once, those of one address, or of   *)
(* one account, that began within one window and have not succeeded are no *)
(* more than the attempts allowed.                                         *)
AttemptsWithinLimit ==
  \A k \in Keys, t \in 0 .. MaxClock :
    Cardinality({l \in Logins : /\ login[l].pc \in {"verifying", "failed"}
                                /\ k \in {login[l].address, login[l].account}
                                /\ login[l].at \in t .. t + WindowMs - 1}) <= MaxAttempts

(* Nothing is held for a login that is not being verified, and a slot for  *)
(* each that is.                                                           *)
HeldWhileVerifying ==
  LET running == {l \in Logins : login[l].pc = "verifying"}
  IN /\ slots = Cardinality(running)
     /\ UNION {reserved[k] : k \in Keys} \subseteq running
=============================================================================
