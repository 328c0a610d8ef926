--------------------------- MODULE GitNetworkPolicy ---------------------------
(***************************************************************************)
(* The addresses at which Git may connect: administrators change them in   *)
(* the database, each change reads them back and replaces the policy that  *)
(* the server has in memory. One executor runs the statements of all.      *)
(***************************************************************************)
EXTENDS Naturals, Sequences

CONSTANTS Calls, Addresses, Startup    \* Startup: the addresses of the environment

VARIABLES stored,    \* git_allowed_ips, git_network_settings
          policy,    \* MutableGitHostPolicy
          tail,      \* DatabaseExecutor: whose statements wait, in order
          change,    \* Of each call, what it does and where it is
          removed,   \* The removals no addition has undone since, but those
                     \* answered with an error (history)
          switched,  \* The check was switched on, and answered so (history)
          stale      \* The last refresh of the policy has failed (history)
policyVars == <<stored, policy, tail, change, removed, switched, stale>>

Ways == {"add", "remove", "on", "off"}
Unmade == [at |-> "new", way |-> "add", address |-> CHOOSE a \in Addresses : TRUE, read |-> {}]

(* initialize: the policy of a start is what is stored.                    *)
PolicyInit ==
  /\ stored \in [allowed : SUBSET Addresses, check : BOOLEAN]
  /\ policy = [stored EXCEPT !.allowed = @ \cup Startup]
  /\ tail = <<>> /\ change = [c \in Calls |-> Unmade]
  /\ removed = {} /\ switched = FALSE /\ stale = FALSE

Waits(c) == tail' = Append(tail, c)

(* Mutant: what waits is not run in its order.                             *)
AgainAnywhere(c) == \E n \in 0 .. Len(tail) - 1 :
  tail' = SubSeq(Tail(tail), 1, n) \o <<c>> \o SubSeq(Tail(tail), n + 1, Len(tail) - 1)

(* The continuation of a statement hands in the next one.                  *)
Again(c) == tail' = Append(Tail(tail), c)

Request(c) ==
  /\ change[c].at = "new"
  /\ \E way \in Ways, a \in Addresses :
       /\ way \in {"on", "off"} => a = Unmade.address
       /\ change' = [change EXCEPT ![c] = [@ EXCEPT !.at = "write", !.way = way, !.address = a]]
  /\ Waits(c)
  /\ UNCHANGED <<stored, policy, removed, switched, stale>>

First(c) == tail # <<>> /\ Head(tail) = c
Goes(c, at) == change' = [change EXCEPT ![c].at = at]

(* add, remove, setPrivateIpCheck: a transaction, with its audit event.    *)
Changed(s, way, a) ==
  CASE way = "add"    -> [s EXCEPT !.allowed = @ \cup {a}]
    [] way = "remove" -> [s EXCEPT !.allowed = @ \ {a}]
    [] OTHER          -> [s EXCEPT !.check = way = "on"]
Write(c) ==
  /\ First(c) /\ change[c].at = "write"
  /\ stored' = Changed(stored, change[c].way, change[c].address)
  /\ removed' = CASE change[c].way = "add"    -> {d \in removed : change[d].address # change[c].address}
                   [] change[c].way = "remove" -> removed \cup {c}
                   [] OTHER                    -> removed
  /\ switched' = (switched /\ change[c].way # "off")
  /\ Goes(c, "list") /\ Again(c)
  /\ UNCHANGED <<policy, stale>>

(* refreshPolicy: the addresses, then whether private ones are checked,    *)
(* and the policy is replaced.                                             *)
List(c) ==
  /\ First(c) /\ change[c].at = "list"
  /\ change' = [change EXCEPT ![c].read = stored.allowed, ![c].at = "enabled"]
  /\ Again(c)
  /\ UNCHANGED <<stored, policy, removed, switched, stale>>

(* Mutant: the answer is given by who has read the addresses only.         *)
ReplaceAllowed(c) == policy' = [policy EXCEPT !.allowed = change[c].read \cup Startup]

Replace(c) == policy' = [allowed |-> change[c].read \cup Startup, check |-> stored.check]
Enabled(c) ==
  /\ First(c) /\ change[c].at = "enabled"
  /\ Replace(c) /\ tail' = Tail(tail)
  /\ change' = [change EXCEPT ![c].read = {}, ![c].at = "answered"]
  /\ switched' = (switched \/ (change[c].way = "on" /\ stored.check))
  /\ stale' = FALSE
  /\ UNCHANGED <<stored, removed>>

(* A statement fails, and the call is answered with its error: what has    *)
(* been committed stays so, and the policy is the one of before.           *)
Fails(c) ==
  /\ First(c) /\ tail' = Tail(tail)
  /\ change' = [change EXCEPT ![c] = [Unmade EXCEPT !.at = "failed"]]
  /\ removed' = removed \ {c}
  /\ stale' = (stale \/ change[c].at # "write")
  /\ UNCHANGED <<stored, policy, switched>>

PolicyNext == \E c \in Calls : Request(c) \/ Write(c) \/ List(c) \/ Enabled(c) \/ Fails(c)

(* resolveGitHost: what the name resolves to is refused with one address   *)
(* that is neither public nor allowed; Git is pinned to one of them.       *)
Reaches(private) == policy.check => private \subseteq policy.allowed

-----------------------------------------------------------------------------
PolicyTypeOK ==
  /\ stored.allowed \subseteq Addresses /\ policy.allowed \subseteq Addresses \cup Startup
  /\ \A c \in Calls : change[c].at \in {"write", "list", "enabled"} <=> \E n \in DOMAIN tail : tail[n] = c

(* The policy is what is stored once all the changes are answered, unless  *)
(* the last one, though committed, could not be read back.                 *)
PolicyIsStored ==
  tail = <<>> /\ ~stale => policy = [stored EXCEPT !.allowed = @ \cup Startup]

(* Once the removal of a private address is answered, and not with an      *)
(* error, and while the check is on, no name that resolves to it is reached*)
(* until it is added again.                                                *)
RemovedIsRefused ==
  switched => \A c \in removed : change[c].at = "answered" /\ change[c].address \notin Startup =>
                                     ~Reaches({change[c].address})
=============================================================================
