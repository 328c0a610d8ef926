------------------------------- MODULE MCAccess -------------------------------
(***************************************************************************)
(* Who may do what, and the settings it depends on: the checks of the      *)
(* routes, the connections to Git providers and the addresses Git may      *)
(* reach, the files of the home directory and the record of a server. They *)
(* share no state: a behaviour is one of one `subject`, the others rest.   *)
(***************************************************************************)
EXTENDS Naturals, FiniteSets

CONSTANTS Users, Requests, Worker, Dry, Deploy, None, Accounts, Changes, Owners, MaxRequests, MaxChanges,
          Ids, GitAccounts, Repository, Uses, MaxToken, MaxGitCalls,
          Calls, Addresses, Startup,
          Processes, MaxCommands, MaxFaults,
          Servers, Ports, MaxCrashes, MaxStops

VARIABLES subject,
          account, owner, grant, told, policy, allowed, by, route, on, at, could, bounds,
          row, opens, state, reg, replaced, entered, leave, use, begun, last,
          stored, hosts, tail, change, removed, switched, stale,
          file, lock, proc, inodes, budget,
          start, close, closing, control, port, listening, record, stopper, asked, kept, left

Access  == INSTANCE AccessControl
Git     == INSTANCE GitConnections WITH Accounts <- GitAccounts, MaxCalls <- MaxGitCalls
Network == INSTANCE GitNetworkPolicy WITH policy <- hosts
Home    == INSTANCE HomeConfiguration WITH Procs <- Processes, bounds <- budget
Ui      == INSTANCE UiControl WITH budget <- left

(* An administrator and a deployer, at first, of whom one changes.         *)
MCAccounts ==
  {[u \in Users |-> [role |-> IF u = CHOOSE v \in Users : TRUE THEN "ADMIN" ELSE "DEPLOYER", active |-> TRUE]]}
MCChanges == {[role |-> "VIEWER", active |-> TRUE], [role |-> "DEPLOYER", active |-> TRUE],
              [role |-> "ADMIN", active |-> FALSE]}

(* The worker is nobody's request, and a run of a job is not one of the    *)
(* users; a token is a number, zero is none.                               *)
ASSUME AccessAssumption ==
  /\ Worker \notin Requests /\ Dry # Deploy /\ None \notin Users /\ Access!Jobs \cap Users = {}
  /\ Accounts \subseteq [Users -> [role : Access!Roles, active : BOOLEAN]]
  /\ Changes \subseteq [role : Access!Roles, active : BOOLEAN]
ASSUME GitAssumption == MaxToken \in Nat /\ None \notin GitAccounts \cup {Repository}
ASSUME HomeAssumption == None \notin Processes

accessVars == <<account, owner, grant, told, policy, allowed, by, route, on, at, could, bounds>>
gitVars     == <<row, opens, state, reg, replaced, entered, leave, use, begun, last>>
networkVars == <<stored, hosts, tail, change, removed, switched, stale>>
homeVars    == <<file, lock, proc, inodes, budget>>
uiVars      == <<start, close, closing, control, port, listening, record, stopper, asked, kept, left>>
vars == <<subject, accessVars, gitVars, networkVars, homeVars, uiVars>>

(* The first states vary only in what the subject looks at; `Owners` are   *)
(* those the dry run may have then.                                        *)
Init ==
  /\ subject \in {"access", "git", "network", "home", "ui"}
  /\ Access!AccessInit /\ Git!ConnectionInit /\ Network!PolicyInit /\ Home!HomeInit /\ Ui!UiInit
  /\ owner[Dry] \in Owners
  /\ subject # "access" => owner[Dry] = None /\ ~policy /\ allowed = {}
  /\ subject # "git" => \E a \in GitAccounts : \A t \in DOMAIN opens : opens[t] = a
  /\ subject # "network" => stored.allowed = {} /\ ~stored.check

Of(s) == subject = s /\ UNCHANGED subject
AccessStep(Act)  == Of("access") /\ Act /\ UNCHANGED <<gitVars, networkVars, homeVars, uiVars>>
GitStep(Act)     == Of("git") /\ Act /\ UNCHANGED <<accessVars, networkVars, homeVars, uiVars>>
NetworkStep(Act) == Of("network") /\ Act /\ UNCHANGED <<accessVars, gitVars, homeVars, uiVars>>
HomeStep(Act)    == Of("home") /\ Act /\ UNCHANGED <<accessVars, gitVars, networkVars, uiVars>>
UiStep(Act)      == Of("ui") /\ Act /\ UNCHANGED <<accessVars, gitVars, networkVars, homeVars>>

Next ==
  \/ AccessStep(Access!AccessNext) \/ GitStep(Git!ConnectionNext) \/ NetworkStep(Network!PolicyNext)
  \/ HomeStep(Home!HomeNext) \/ UiStep(Ui!UiNext)
Spec == Init /\ [][Next]_vars

-----------------------------------------------------------------------------
(* What was done was the user's to do, was recorded as granted, and can be *)
(* opened where it is listed: see AccessControl.                           *)
DoneWhileEntitled ==
  subject = "access" => /\ Access!AccessTypeOK /\ Access!DoneWhileEntitled
                        /\ Access!AuditTellsGrants /\ Access!VisibleIsReadable

(* No late answer about an earlier token or policy outlives what replaced  *)
(* it: see GitConnections and GitNetworkPolicy.                            *)
GitAccessIsCurrent ==
  CASE subject = "git" -> Git!ConnectionTypeOK /\ Git!ReauthIsDeserved /\ Git!EndIsEnd
    [] subject = "network" -> Network!PolicyTypeOK /\ Network!PolicyIsStored /\ Network!RemovedIsRefused
    [] OTHER -> TRUE

(* A configuration is read whole, and a server that runs is the one its    *)
(* record tells: see HomeConfiguration and UiControl.                      *)
HomeIsWhole ==
  CASE subject = "home" -> Home!HomeTypeOK /\ Home!LoadedIsWhole
    [] subject = "ui" -> /\ Ui!UiTypeOK /\ Ui!RunningIsRecorded
                         /\ Ui!StoppedIsClosed /\ Ui!NothingLeftBehind
    [] OTHER -> TRUE

(* Git is handed the token stored, nothing ended is revived and no list is *)
(* of another account; a setup replaces both files or none, and only what  *)
(* it has read; a stop ends only a server it wants: see GitConnections,    *)
(* HomeConfiguration and UiControl.                                        *)
NothingStaleIsDone ==
  /\ Git!HandedIsStored /\ Git!NothingRevived /\ Git!ListedIsCurrent
  /\ Home!BothOrNeither /\ Home!NoLostUpdate /\ Home!TokenStays
  /\ Ui!OnlyWantedStops
=============================================================================
