---------------------------- MODULE GitConnections ----------------------------
(***************************************************************************)
(* The connections of a user to the Git providers: a token is validated at *)
(* the provider before it is stored, handed out to lists and imports until *)
(* it is replaced, refused, expired or disconnected, and none of those who *)
(* hold it sees the change: they ask again for the version of the row.     *)
(***************************************************************************)
EXTENDS Integers, FiniteSets

CONSTANTS Ids, Accounts, Repository, None,
          Uses,                \* Lists and imports
          MaxToken, MaxCalls   \* Bounds: tokens entered; registrations, lists and imports begun

VARIABLES row,        \* git_connections, of one owner
          opens,      \* The account a token is of
          state,      \* Of a token: good, expired, or refused by the provider
          reg,        \* GitTokenService: the one registration of the owner
          replaced,   \* The connections whose imports it is to cancel after that
          entered,    \* The tokens entered so far
          leave,      \* GitConnectionService.disconnect
          use, begun,
          last        \* The last token a row had (history)
connectionVars == <<row, opens, state, reg, replaced, entered, leave, use, begun, last>>

Tokens == 1 .. MaxToken
Targets == Accounts \cup {Repository}
NoRow == [status |-> "ABSENT", account |-> None, token |-> 0, version |-> 0]
Idle == [at |-> "idle", way |-> "new", id |-> None, version |-> 0, account |-> None, token |-> 0]
Unused == [at |-> "new", kind |-> "list", id |-> None, version |-> 0, account |-> None, token |-> 0,
           entry |-> FALSE, aborted |-> FALSE]

ConnectionInit ==
  /\ row = [i \in Ids |-> NoRow] /\ last = [i \in Ids |-> 0]
  /\ opens \in [Tokens -> Accounts] /\ state = [t \in Tokens |-> "good"]
  /\ reg = Idle /\ entered = 0 /\ replaced = {}
  /\ leave = [at |-> "idle", id |-> None]
  /\ use = [u \in Uses |-> Unused] /\ begun = 0

(* Time, or the user at the provider.                                      *)
TokenEnds(t) ==
  /\ t <= entered + 1 /\ state[t] = "good"
  /\ \E s \in {"expired", "refused"} : state' = [state EXCEPT ![t] = s]
  /\ UNCHANGED <<row, opens, reg, replaced, entered, leave, use, begun, last>>

-----------------------------------------------------------------------------
(* Reads and writes of the row.                                            *)
Connected(i) == row[i].status \in {"ACTIVE", "REAUTH_REQUIRED"}
Readable(i) == row[i].status = "ACTIVE"
SameVersion(i, v) == row[i].version = v

(* clear: of a refusal only while the row is of the version refused.       *)
Cleared(i, status) ==
  row' = [row EXCEPT ![i].status = status, ![i].token = 0, ![i].version = @ + 1]
(* Mutant: whatever its version.                                           *)
RequireAnyway(i, v) == IF Connected(i) THEN Cleared(i, "REAUTH_REQUIRED") ELSE UNCHANGED row
RequireReauthentication(i, v) ==
  IF Connected(i) /\ SameVersion(i, v) THEN Cleared(i, "REAUTH_REQUIRED") ELSE UNCHANGED row

-----------------------------------------------------------------------------
(* register and registerRepository: one at a time of an owner. A token is  *)
(* entered, for a new connection, in place of the token of one, or for one *)
(* that is to be of another account too; or it is copied of an account.    *)
Begin(way, i) ==
  /\ reg.at = "idle" /\ begun < MaxCalls /\ begun' = begun + 1
  /\ \/ /\ way = "new" /\ i = None /\ UNCHANGED entered
        /\ entered < MaxToken
        /\ reg' = [Idle EXCEPT !.at = "validate", !.token = entered + 1]
     \/ /\ way \in {"replace", "move"} /\ i # None /\ UNCHANGED entered
        /\ entered < MaxToken /\ Connected(i)
        /\ reg' = [Idle EXCEPT !.at = "validate", !.way = way, !.id = i, !.token = entered + 1,
                               !.version = row[i].version, !.account = row[i].account]
     \/ /\ way = "copy" /\ i # None /\ UNCHANGED entered
        /\ Readable(i) /\ row[i].account # Repository /\ state[row[i].token] # "expired"
        /\ reg' = [Idle EXCEPT !.at = "validate", !.way = way, !.id = i, !.token = row[i].token,
                               !.version = row[i].version]
  /\ UNCHANGED <<row, opens, state, replaced, leave, use, last>>

(* The provider says whose the token is, or the repository it opens: it    *)
(* has to be the account connected, but for a move.                        *)
TargetsOf(t, way) == IF way = "copy" THEN {Repository} ELSE {opens[t], Repository}
Validate ==
  /\ reg.at = "validate"
  /\ entered' = IF reg.way = "copy" THEN entered ELSE entered + 1
  /\ \/ /\ state[reg.token] = "good"
        /\ \E target \in TargetsOf(reg.token, reg.way) :
             /\ reg.way = "replace" => target = reg.account
             /\ reg' = [reg EXCEPT !.at = "save", !.account = target]
     \/ reg' = Idle
  /\ UNCHANGED <<row, opens, state, replaced, leave, use, begun, last>>

(* save, a transaction: the row of the account is written anew whatever it *)
(* was, unless what the registration relies on has changed.                *)
Of(target) == {i \in Ids : row[i].status # "ABSENT" /\ row[i].account = target}
Free == {i \in Ids : row[i].status = "ABSENT"}
(* Mutant: the row there is will do.                                       *)
Known(i) == row[i].status # "ABSENT"
Expected(i) == Connected(i) /\ SameVersion(i, reg.version)
Source(i) == Readable(i) /\ SameVersion(i, reg.version) /\ state[row[i].token] # "expired"
Place ==
  CASE reg.way = "move"    -> IF Of(reg.account) \subseteq {reg.id} THEN {reg.id} ELSE {}
    [] reg.way = "replace" -> Of(reg.account) \cap {reg.id}
    [] OTHER               -> IF Of(reg.account) # {} THEN Of(reg.account)
                              ELSE IF Free # {} THEN {CHOOSE i \in Free : TRUE} ELSE {}
Stands ==
  CASE reg.way \in {"replace", "move"} -> Expected(reg.id)
    [] reg.way = "copy" -> Source(reg.id)
    [] OTHER -> TRUE
(* Mutant: a row written anew keeps its version.                           *)
Same(i) == row[i].version
Next(i) == row[i].version + 1
Save ==
  /\ reg.at = "save"
  /\ IF Place = {} \/ ~Stands
     THEN UNCHANGED <<row, last, replaced>>
     ELSE \E i \in Place :
            /\ row' = [row EXCEPT ![i] = [status |-> "ACTIVE", account |-> reg.account,
                                          token |-> reg.token, version |-> Next(i)]]
            /\ last' = [last EXCEPT ![i] = reg.token]
            /\ replaced' = IF reg.way \in {"replace", "move"} THEN replaced \cup {reg.id} ELSE replaced
  /\ reg' = Idle
  /\ UNCHANGED <<opens, state, entered, leave, use, begun>>

(* cancelConnection aborts the imports that have an entry, and waits until *)
(* nothing of them runs. The route calls it when the registration is over, *)
(* and the owner free to begin another; its wait delays the answer only.   *)
Cancelled(i) ==
  use' = [u \in Uses |-> IF use[u].entry /\ use[u].id = i THEN [use[u] EXCEPT !.aborted = TRUE] ELSE use[u]]
(* Mutant: the imports are told, and left.                                 *)
Told(i) == TRUE
Quiet(i) == \A u \in Uses : ~(use[u].entry /\ use[u].id = i /\ use[u].aborted)
CancelReplaced(i) ==
  /\ i \in replaced /\ Cancelled(i) /\ replaced' = replaced \ {i}
  /\ UNCHANGED <<row, opens, state, reg, entered, leave, begun, last>>

(* disconnect.                                                             *)
Disconnect(i) ==
  /\ leave.at \in {"idle", "answered"} /\ Connected(i)
  /\ Cleared(i, "REVOKED") /\ leave' = [at |-> "cancel", id |-> i]
  /\ UNCHANGED <<opens, state, reg, replaced, entered, use, begun, last>>
CancelDisconnected ==
  /\ leave.at = "cancel" /\ Cancelled(leave.id) /\ leave' = [leave EXCEPT !.at = "wait"]
  /\ UNCHANGED <<row, opens, state, reg, replaced, entered, begun, last>>
Disconnected ==
  /\ leave.at = "wait" /\ Quiet(leave.id) /\ leave' = [leave EXCEPT !.at = "answered"]
  /\ UNCHANGED <<row, opens, state, reg, replaced, entered, use, begun, last>>

-----------------------------------------------------------------------------
connection == <<opens, state, reg, replaced, entered, leave, begun, last>>
Becomes(u, r) == use' = [use EXCEPT ![u] = r]
Goes(u, at) == Becomes(u, [use[u] EXCEPT !.at = at])
EndUse(u) == Becomes(u, [Unused EXCEPT !.at = "ended", !.kind = use[u].kind])

(* credentials: an expired token is cleared by who meets it.               *)
Capture(u, i, at) ==
  IF ~Readable(i) THEN EndUse(u) /\ UNCHANGED row
  ELSE IF state[row[i].token] = "expired"
  THEN EndUse(u) /\ RequireReauthentication(i, row[i].version)
  ELSE /\ Becomes(u, [use[u] EXCEPT !.at = at, !.id = i, !.version = row[i].version,
                                    !.account = row[i].account, !.token = row[i].token])
       /\ UNCHANGED row

(* A list of repositories; an import, validated before it has its entry.   *)
BeginUse(u, kind, i) ==
  /\ use[u].at \in {"new", "ended", "shown"} /\ begun < MaxCalls /\ begun' = begun + 1
  /\ Becomes(u, [Unused EXCEPT !.kind = kind, !.id = i, !.at = IF kind = "list" THEN "read" ELSE "validate"])
  /\ UNCHANGED <<row, opens, state, reg, replaced, entered, leave, last>>
ValidateUse(u) ==
  /\ use[u].at = "validate" /\ Capture(u, use[u].id, "enter") /\ UNCHANGED connection
Enter(u) ==
  /\ use[u].at = "enter" /\ Becomes(u, [use[u] EXCEPT !.entry = TRUE, !.at = "read"])
  /\ UNCHANGED <<row, connection>>

(* authorize reads the token anew, and asks the provider with it.          *)
Read(u) ==
  /\ use[u].at = "read" /\ Capture(u, use[u].id, "ask") /\ UNCHANGED connection
Ask(u) ==
  /\ use[u].at = "ask"
  /\ \/ Goes(u, IF state[use[u].token] = "good" THEN "check" ELSE "refused")
     \/ EndUse(u)
  /\ UNCHANGED <<row, connection>>
RefusedByProvider(u) ==
  /\ use[u].at = "refused" /\ EndUse(u)
  /\ IF use[u].kind = "import" THEN RequireReauthentication(use[u].id, use[u].version) ELSE UNCHANGED row
  /\ UNCHANGED connection

(* What is read again: assertCurrent, of the list without a look at the    *)
(* time; before the token is handed to Git once more.                      *)
(* Mutant: it is enough that there is a connection.                        *)
StillThere(u) == Readable(use[u].id)
Unchanged(u) == Readable(use[u].id) /\ SameVersion(use[u].id, use[u].version)
AssertCurrent(u, at) ==
  IF ~Unchanged(u) THEN EndUse(u) /\ UNCHANGED row
  ELSE IF use[u].kind = "import" /\ state[row[use[u].id].token] = "expired"
  THEN EndUse(u) /\ RequireReauthentication(use[u].id, row[use[u].id].version)
  ELSE Goes(u, at) /\ UNCHANGED row
Check(u) ==
  /\ use[u].at = "check"
  /\ AssertCurrent(u, IF use[u].kind = "list" THEN "shown" ELSE "authorized")
  /\ UNCHANGED connection
HandOver(u) ==
  /\ use[u].at = "authorized"
  /\ IF use[u].aborted THEN EndUse(u) /\ UNCHANGED row ELSE AssertCurrent(u, "handed")
  /\ UNCHANGED connection

(* Git is started unless the import is aborted by now; aborted, it ends.   *)
Fetch(u) ==
  /\ use[u].at = "handed"
  /\ IF use[u].aborted THEN EndUse(u) ELSE Goes(u, "fetching")
  /\ UNCHANGED <<row, connection>>
FetchEnds(u) == use[u].at = "fetching" /\ EndUse(u) /\ UNCHANGED <<row, connection>>

UseStep(u) ==
  \/ ValidateUse(u) \/ Enter(u) \/ Read(u) \/ Ask(u) \/ RefusedByProvider(u) \/ Check(u)
  \/ HandOver(u) \/ Fetch(u) \/ FetchEnds(u)
ConnectionNext ==
  \/ \E t \in Tokens : TokenEnds(t)
  \/ \E i \in Ids \cup {None}, way \in {"new", "replace", "move", "copy"} : Begin(way, i)
  \/ Validate \/ Save
  \/ \E i \in Ids : CancelReplaced(i) \/ Disconnect(i)
  \/ CancelDisconnected \/ Disconnected
  \/ \E u \in Uses : UseStep(u) \/ \E kind \in {"list", "import"}, i \in Ids : BeginUse(u, kind, i)

-----------------------------------------------------------------------------
ConnectionTypeOK ==
  /\ \A i \in Ids : row[i].token \in 0 .. MaxToken /\ (row[i].token # 0 <=> Readable(i))
  /\ \A i, j \in Ids : i # j /\ row[i].status # "ABSENT" => row[i].account # row[j].account
  /\ reg.at \in {"idle", "validate", "save"} /\ entered \in 0 .. MaxToken
  /\ leave.at \in {"idle", "cancel", "wait", "answered"}
  /\ \A u \in Uses : use[u].aborted => use[u].entry

(* A connection asks for a new token only if the one it had was expired or *)
(* refused: the late refusal of an older token does not clear a new one.   *)
ReauthIsDeserved == \A i \in Ids : row[i].status = "REAUTH_REQUIRED" => state[last[i]] # "good"

(* Git is handed the token that is stored at that time.                    *)
HandedIsStored ==
  [][\A u \in Uses : use[u].at # "handed" /\ use'[u].at = "handed" =>
       use'[u].token = row[use[u].id].token]_connectionVars

(* A connection the user has ended comes back only by a token he entered   *)
(* for a new one, or by the copy, for its repository, of the token of an   *)
(* account, which that account still has.                                  *)
NothingRevived ==
  [][\A i \in Ids : row[i].token = 0 /\ row'[i].token # 0 =>
       /\ row[i].status = "REVOKED" => reg.way \in {"new", "copy"}
       /\ reg.way = "copy" => row[reg.id].token = reg.token]_connectionVars

(* A list is shown of the account that is connected when it is answered.   *)
ListedIsCurrent ==
  [][\A u \in Uses : use[u].at # "shown" /\ use'[u].at = "shown" =>
       use[u].account = row[use[u].id].account /\ Readable(use[u].id)]_connectionVars

(* When the end of a connection is answered, no import of it fetches.      *)
EndIsEnd ==
  leave.at = "answered" /\ row[leave.id].status = "REVOKED" =>
    \A u \in Uses : use[u].id = leave.id => use[u].at # "fetching"
=============================================================================
