------------------------------ MODULE MCServices ------------------------------
(***************************************************************************)
(* The services of the web server around the jobs: connections to          *)
(* Salesforce and what is cached of them, logins, users and passwords.     *)
(* They share no state: a behaviour is one of one `service`, while the     *)
(* others rest.                                                            *)
(***************************************************************************)
EXTENDS Naturals, FiniteSets

CONSTANTS None,
          Ids, Aliases, Requests, MaxLogins, MaxGeneration, MaxCommands,
          Callers, MaxVersion, MaxEpoch,
          MaxFlows, Sessions, Completions, MaxActive, MaxStarts, Ttl, Window, MaxTime,
          MaxTrials, Addresses, Accounts, MaxAttempts, MaxSlots, WindowMs, MaxClock,
          Users, MaxSessions,
          Servers, Passwords, Visits, MaxDigest

VARIABLES service,
          row, issued, request, home, change, refused,
          version, answered, dropping, foreign, cache, epoch, pending, load, asking,
          clock, flow, starts, cookie, signedIn, completion, exchanged, kept,
          time, reserved, failures, slots, trial,
          user, openToken, administrators, sessions, made, before, caller,
          stored, configured, own, starting, digests, set, live, login

Connections == INSTANCE SalesforceConnections WITH Absent <- None
Orgs   == INSTANCE OrgCache WITH Nothing <- None, caller <- asking
OAuth  == INSTANCE OAuthFlows WITH Flows <- 1 .. MaxFlows, attempt <- flow, stored <- kept
Limits == INSTANCE LoginLimits WITH Logins <- 1 .. MaxTrials, clock <- time, login <- trial
People == INSTANCE UserAccounts
Access == INSTANCE LocalAccess WITH Logins <- Visits

(* What is none is no row, pin or login of a connection, and no session.   *)
ASSUME NoneAssumption == None \notin Connections!Rows \cup Connections!Pins \cup Connections!Logins \cup Sessions
(* Bounds, limits and times are natural numbers.                           *)
ASSUME NumberAssumption ==
  /\ {MaxLogins, MaxGeneration, MaxCommands, MaxVersion, MaxEpoch} \subseteq Nat
  /\ {MaxFlows, MaxActive, MaxStarts, Ttl, Window, MaxTime} \subseteq Nat
  /\ {MaxTrials, MaxAttempts, MaxSlots, WindowMs, MaxClock, MaxSessions} \subseteq Nat
  /\ MaxDigest \in Nat \ {0}

connectionVars == <<row, issued, request, home, change, refused>>
orgVars     == <<version, answered, dropping, foreign, cache, epoch, pending, load, asking>>
flowVars    == <<clock, flow, starts, cookie, signedIn, completion, exchanged, kept>>
limitVars   == <<time, reserved, failures, slots, trial>>
accountVars == <<user, openToken, administrators, sessions, made, before, caller>>
accessVars  == <<stored, configured, own, starting, digests, set, live, login>>
vars == <<service, connectionVars, orgVars, flowVars, limitVars, accountVars, accessVars>>

(* The first states differ in what the request asks for and in the digest  *)
(* stored.                                                                 *)
Init ==
  /\ service \in {"connections", "orgs", "oauth", "limits", "users", "access"}
  /\ Connections!ConnectionInit /\ Orgs!OrgInit /\ OAuth!FlowInit
  /\ Limits!LimitInit /\ People!AccountInit /\ Access!AccessInit
  /\ service # "connections" => \A r \in Requests : ~request[r].list
  /\ service # "access" => stored = Access!NoDigest

Of(s) == service = s /\ UNCHANGED service

ConnectionStep(A) ==
  Of("connections") /\ A /\ UNCHANGED <<orgVars, flowVars, limitVars, accountVars, accessVars>>
OrgStep(A) ==
  Of("orgs") /\ A /\ UNCHANGED <<connectionVars, flowVars, limitVars, accountVars, accessVars>>
FlowStep(A) ==
  Of("oauth") /\ A /\ UNCHANGED <<connectionVars, orgVars, limitVars, accountVars, accessVars>>
LimitStep(A) ==
  Of("limits") /\ A /\ UNCHANGED <<connectionVars, orgVars, flowVars, accountVars, accessVars>>
AccountStep(A) ==
  Of("users") /\ A /\ UNCHANGED <<connectionVars, orgVars, flowVars, limitVars, accessVars>>
AccessStep(A) ==
  Of("access") /\ A /\ UNCHANGED <<connectionVars, orgVars, flowVars, limitVars, accountVars>>

Next ==
  \/ ConnectionStep(Connections!ConnectionNext)
  \/ OrgStep(Orgs!OrgNext)
  \/ FlowStep(OAuth!FlowNext)
  \/ LimitStep(Limits!LimitNext)
  \/ AccountStep(People!AccountNext)
  \/ AccessStep(Access!AccessNext)

Spec == Init /\ [][Next]_vars

(* A request runs on the connection it has pinned, with credentials of its *)
(* own, and what a login or a list answers is of the session and the       *)
(* connections asked about: see SalesforceConnections, OrgCache and        *)
(* OAuthFlows.                                                             *)
ConnectionsAreOwn ==
  CASE service = "connections" ->
         /\ Connections!ConnectionTypeOK
         /\ Connections!PinsIdentify /\ Connections!RunsAsPinned
         /\ Connections!CredentialsAreOwn /\ Connections!ReauthIsDeserved
    [] service = "orgs" -> Orgs!OrgTypeOK /\ Orgs!ReadsOwnChange /\ Orgs!CachedIsCurrent
    [] service = "oauth" -> /\ OAuth!FlowTypeOK /\ OAuth!CodeSentOnce /\ OAuth!StoredForItsStarter
                            /\ OAuth!StartsWithinLimit /\ OAuth!ActiveWithinLimit
    [] OTHER -> TRUE

(* What comes late changes nothing: a request keeps the connection it has  *)
(* pinned, a completion whose session has ended stores none.               *)
LateIsNothing == Connections!PinsStay /\ OAuth!EndedStoresNothing

(* Logins stay within their limits, administrators remain, and sessions    *)
(* end with what they rest on: see LoginLimits, UserAccounts, LocalAccess. *)
SignInsHold ==
  CASE service = "limits" -> Limits!LimitTypeOK /\ Limits!AttemptsWithinLimit /\ Limits!HeldWhileVerifying
    [] service = "users" -> /\ People!AccountTypeOK /\ People!BootstrapOnce
                            /\ People!AdministratorRemains /\ People!DisabledEndsSessions
    [] service = "access" -> /\ Access!AccessTypeOK /\ Access!SessionsKnowPassword
                             /\ Access!StoredAsStarted /\ Access!OwnPasswordOnly
    [] OTHER -> TRUE
=============================================================================
