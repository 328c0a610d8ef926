---------------------------- MODULE AccessControl ----------------------------
(***************************************************************************)
(* Who may do what to a job: the routes of the server, the repositories of *)
(* the grants, and the last check of a deployment before it is submitted.  *)
(* Every check is a query of its own, so roles, accounts, grants and the   *)
(* deployments allowed in an org change between a check and what it is for.*)
(***************************************************************************)
EXTENDS Integers, FiniteSets

CONSTANTS Users, Requests, Worker, Dry, Deploy, None,
          Accounts,         \* What the accounts may be at first,
          Changes,          \* and what each may become
          MaxRequests,      \* Requests received
          MaxChanges        \* Changes of accounts

VARIABLES account,          \* Of each user, his role and whether he is enabled
          owner,            \* Of each job, None until there is the job
          grant,            \* On each job, to each user
          told,             \* The same, as the audit events tell it
          policy, allowed,  \* Of the target org: enabled, and for whom
          by, route, on, at,\* Of each request, and of the worker of the deployment
          could,            \* What its user could do at some time since it began (history)
          bounds
accessVars == <<account, owner, grant, told, policy, allowed, by, route, on, at, could, bounds>>

Jobs == {Dry, Deploy}
Roles == {"VIEWER", "OPERATOR", "DEPLOYER", "ADMIN"}
Permissions == {"none", "READ", "EXECUTE"}
Procs == Requests \cup {Worker}

(* The routes; `on` is the job, or, to share something, the other user.    *)
Routes == {"read", "event", "submit", "execute", "direct", "reconcile", "manual",
           "share READ", "share EXECUTE", "unshare", "allow", "disallow"}
Subjects(way) ==
  CASE way \in {"share READ", "share EXECUTE", "unshare", "allow", "disallow"} -> Users
    [] way \in {"submit", "direct"} -> {Dry}
    [] OTHER -> Jobs
RolesOf(way) ==
  CASE way \in {"read", "event"} -> Roles
    [] way \in {"submit", "share READ", "share EXECUTE", "unshare"} -> Roles \ {"VIEWER"}
    [] way \in {"execute", "direct", "reconcile"} -> {"DEPLOYER", "ADMIN"}
    [] OTHER -> {"ADMIN"}

-----------------------------------------------------------------------------
Active(u) == account[u].active
Deployer(u) == account[u].role \in {"DEPLOYER", "ADMIN"}
Administrator(u) == Active(u) /\ account[u].role = "ADMIN"

CanAccess(j, u, permission) ==
  /\ Active(u) /\ owner[j] # None
  /\ owner[j] = u \/ grant[j][u] \in {"EXECUTE", permission}

(* Mutant: the lists show only what is one's own.                          *)
Owned(u) == {j \in Jobs : owner[j] = u}

(* jobVisibilitySql, of the lists.                                         *)
Visible(u) == {j \in Jobs : owner[j] # None /\ (owner[j] = u \/ grant[j][u] # "none")}

(* What a user can do now that matters to a process.                       *)
Powers(u, j) ==
  {p \in {"read", "access", "role", "org", "admin"} :
     CASE p = "read"   -> CanAccess(j, u, "READ")
       [] p = "access" -> CanAccess(j, u, "EXECUTE")
       [] p = "role"   -> Deployer(u)
       [] p = "org"    -> Active(u) /\ (account[u].role = "ADMIN" \/ u \in allowed)
       [] p = "admin"  -> Administrator(u)}

(* The job a process is about.                                             *)
JobOf(p) == IF p = Worker THEN Deploy ELSE IF on[p] \in Jobs THEN on[p] ELSE Dry
PowersOf(p) == IF by[p] = None THEN {} ELSE Powers(by[p], JobOf(p))

AccessInit ==
  /\ account \in Accounts
  /\ owner \in [Jobs -> Users \cup {None}] /\ owner[Deploy] = None
  /\ grant = [j \in Jobs |-> [u \in Users |-> "none"]] /\ told = grant
  /\ policy \in BOOLEAN /\ allowed \in {{}, Users} /\ (allowed # {} => policy)
  /\ by = [p \in Procs |-> None] /\ route = [p \in Procs |-> "none"]
  /\ on = [p \in Procs |-> None] /\ at = [p \in Procs |-> "idle"]
  /\ could = [p \in Procs |-> {}]
  /\ bounds = [requests |-> 0, changes |-> 0]

data == <<account, owner, grant, told, policy, allowed>>
To(p, there) == at' = [at EXCEPT ![p] = there] /\ UNCHANGED <<by, route, on, bounds>>
Done(p) == To(p, "done")
Refused(p) ==
  /\ at' = [at EXCEPT ![p] = "idle"] /\ by' = [by EXCEPT ![p] = None]
  /\ route' = [route EXCEPT ![p] = "none"] /\ on' = [on EXCEPT ![p] = None] /\ UNCHANGED bounds
Check(p, ok, there) == (IF ok THEN To(p, there) ELSE Refused(p)) /\ UNCHANGED data

(* requireAuthenticatedSession: the session is read with the account; a    *)
(* wrong origin, token or body, or a role that does not suffice, and there *)
(* is no request.                                                          *)
First(way) ==
  CASE way \in {"read", "execute", "reconcile"} -> "access"
    [] way = "event"  -> "listening"
    [] way = "manual" -> "administrator"
    [] OTHER -> "act"
Authenticate(p) ==
  /\ p \in Requests /\ at[p] \in {"idle", "done"} /\ bounds.requests < MaxRequests
  /\ \E u \in Users, way \in Routes, x \in Jobs \cup Users :
       /\ x \in Subjects(way)
       /\ Active(u) /\ account[u].role \in RolesOf(way)
       /\ by' = [by EXCEPT ![p] = u] /\ route' = [route EXCEPT ![p] = way] /\ on' = [on EXCEPT ![p] = x]
       /\ at' = [at EXCEPT ![p] = First(way)]
  /\ bounds' = [bounds EXCEPT !.requests = @ + 1]
  /\ UNCHANGED data

(* An event of the job for somebody who listens: his session is read again,*)
(* and without it the stream ends.                                         *)
Publish(p) ==
  /\ p \in Requests /\ route[p] = "event" /\ at[p] \in {"listening", "done"} /\ owner[JobOf(p)] # None
  /\ To(p, "session") /\ UNCHANGED data
CheckSession(p) ==
  /\ at[p] = "session"
  /\ Check(p, Active(by[p]), "access")

(* canAccess, of the routes and of assertAccess.                           *)
Reads(way) == way \in {"read", "event"}
CheckAccess(p) ==
  /\ at[p] = "access"
  /\ Check(p, CanAccess(JobOf(p), by[p], IF Reads(route[p]) THEN "READ" ELSE "EXECUTE"),
           CASE Reads(route[p]) -> "act"
             [] route[p] = "execute" -> "user"
             [] OTHER -> "role")

(* The role, which assertAccess reads after the grant.                     *)
CheckRole(p) ==
  /\ at[p] = "role"
  /\ Check(p, Deployer(by[p]), IF p = Worker THEN "user" ELSE "act")

CheckAdministrator(p) ==
  /\ at[p] = "administrator"
  /\ Check(p, Administrator(by[p]), "act")

(* assertCanExecute: the user, the policy of the org, then his grant.      *)
ReadUser(p) ==
  /\ at[p] = "user"
  /\ Check(p, Active(by[p]), IF account[by[p]].role = "ADMIN" THEN "policy of an ADMIN" ELSE "policy")
ReadPolicy(p) ==
  /\ at[p] \in {"policy", "policy of an ADMIN"}
  /\ Check(p, policy, IF at[p] = "policy" THEN "grant" ELSE "act")
ReadGrant(p) ==
  /\ at[p] = "grant"
  /\ Check(p, by[p] \in allowed, "act")

-----------------------------------------------------------------------------
(* The second part of a request: to answer with the job; to make one.      *)
Answer(p) ==
  /\ at[p] = "act" /\ Reads(route[p])
  /\ Check(p, owner[JobOf(p)] # None, "done")

Submit(p) ==
  /\ at[p] = "act" /\ route[p] = "submit"
  /\ IF owner[Dry] = None THEN owner' = [owner EXCEPT ![Dry] = by[p]] /\ Done(p)
                          ELSE Refused(p) /\ UNCHANGED owner
  /\ UNCHANGED <<account, grant, told, policy, allowed>>

(* The worker takes the deployment: what follows is its last check.        *)
Queue(p) ==
  /\ at' = [at EXCEPT ![p] = "done", ![Worker] = "queued"]
  /\ by' = [by EXCEPT ![Worker] = by[p]] /\ UNCHANGED <<route, on, bounds>>

Direct(p) ==
  /\ at[p] = "act" /\ route[p] = "direct" /\ owner[Deploy] = None
  /\ owner' = [owner EXCEPT ![Deploy] = by[p]] /\ Queue(p)
  /\ UNCHANGED <<account, grant, told, policy, allowed>>

(* approveAndQueueDeployment checks again, in its transaction; the job it  *)
(* makes is the owner's of the dry run, and shared as the dry run is.      *)
Approves(u) == CanAccess(Dry, u, "EXECUTE") /\ Deployer(u)
Approve(p) ==
  /\ at[p] = "act" /\ route[p] = "execute"
  /\ IF ~Approves(by[p]) \/ JobOf(p) # Dry
     THEN Refused(p) /\ UNCHANGED <<owner, grant, told>>
     ELSE IF owner[Deploy] # None
     THEN Done(p) /\ UNCHANGED <<owner, grant, told>>
     ELSE /\ owner' = [owner EXCEPT ![Deploy] = owner[Dry]]
          /\ grant' = [grant EXCEPT ![Deploy] = grant[Dry]]
          /\ told' = [told EXCEPT ![Deploy] = told[Dry]]
          /\ Queue(p)
  /\ UNCHANGED <<account, policy, allowed>>

(* reconcile checks the grant once more, then the role; the report of the  *)
(* external state is recorded without another check.                       *)
Reconcile(p) ==
  /\ at[p] = "act" /\ route[p] \in {"reconcile", "manual"}
  /\ Check(p, owner[JobOf(p)] # None, "done")

(* JobAccessRepository.grant and revoke, each with its audit event.        *)
PermissionOf(way) ==
  CASE way = "share READ" -> "READ" [] way = "share EXECUTE" -> "EXECUTE" [] OTHER -> "none"
(* Mutant: a second grant leaves the first as it is.                       *)
GrantedOnce(j, u, permission) ==
  [grant EXCEPT ![j][u] = IF @ = "none" \/ permission = "none" THEN permission ELSE @]

Granted(j, u, permission) == [grant EXCEPT ![j][u] = permission]
Share(p) ==
  /\ at[p] = "act" /\ route[p] \in {"share READ", "share EXECUTE", "unshare"}
  /\ \E j \in Jobs :
       LET permission == PermissionOf(route[p]) IN
       IF Active(by[p]) /\ owner[j] = by[p] /\ (permission = "none" \/ Active(on[p]))
       THEN /\ grant' = Granted(j, on[p], permission)
            /\ told' = [told EXCEPT ![j][on[p]] = permission] /\ Done(p)
       ELSE Refused(p) /\ UNCHANGED <<grant, told>>
  /\ UNCHANGED <<account, owner, policy, allowed>>

(* OrgExecutionAccessRepository.grant and revoke. The policy stays.        *)
Allow(p) ==
  /\ at[p] = "act" /\ route[p] \in {"allow", "disallow"}
  /\ IF ~Administrator(by[p]) \/ (route[p] = "allow" /\ ~Active(on[p]))
     THEN Refused(p) /\ UNCHANGED <<policy, allowed>>
     ELSE /\ policy' = (policy \/ route[p] = "allow") /\ Done(p)
          /\ allowed' = IF route[p] = "allow" THEN allowed \cup {on[p]} ELSE allowed \ {on[p]}
  /\ UNCHANGED <<account, owner, grant, told>>

(* Mutant: the worker relies on the approval.                              *)
TakeApproved ==
  /\ at[Worker] = "queued"
  /\ To(Worker, "act") /\ UNCHANGED data

(* The worker takes the job, checks, and submits.                          *)
Take ==
  /\ at[Worker] = "queued"
  /\ To(Worker, "access") /\ UNCHANGED data
Begin ==
  /\ at[Worker] = "act"
  /\ Done(Worker) /\ UNCHANGED data

(* An administrator changes an account: see UserAccounts.                  *)
ChangeAccount ==
  /\ bounds.changes < MaxChanges
  /\ \E u \in Users, to \in Changes : account[u] # to /\ account' = [account EXCEPT ![u] = to]
  /\ bounds' = [bounds EXCEPT !.changes = @ + 1]
  /\ UNCHANGED <<owner, grant, told, policy, allowed, by, route, on, at>>

AccessStep ==
  \/ \E p \in Requests :
       \/ Authenticate(p) \/ Publish(p) \/ CheckSession(p) \/ CheckAccess(p) \/ CheckAdministrator(p) \/ CheckRole(p)
       \/ ReadUser(p) \/ ReadPolicy(p) \/ ReadGrant(p)
       \/ Answer(p) \/ Submit(p) \/ Direct(p) \/ Approve(p) \/ Reconcile(p) \/ Share(p) \/ Allow(p)
  \/ Take \/ CheckAccess(Worker) \/ CheckRole(Worker)
  \/ ReadUser(Worker) \/ ReadPolicy(Worker) \/ ReadGrant(Worker) \/ Begin
  \/ ChangeAccount

(* What a process' user could do is remembered from its start to its end.  *)
Resting == {"idle", "queued", "listening"}
Remember ==
  could' = [p \in Procs |->
    IF at'[p] \in Resting THEN {}
    ELSE IF at'[p] = "done" THEN could[p]
    ELSE IF at[p] \in Resting \cup {"done"} THEN PowersOf(p)'
    ELSE could[p] \cup PowersOf(p)']
AccessNext == AccessStep /\ Remember

-----------------------------------------------------------------------------
AccessTypeOK ==
  /\ account \in [Users -> [role : Roles, active : BOOLEAN]]
  /\ owner \in [Jobs -> Users \cup {None}]
  /\ grant \in [Jobs -> [Users -> Permissions]] /\ told \in [Jobs -> [Users -> Permissions]]
  /\ policy \in BOOLEAN /\ allowed \in SUBSET Users
  /\ DOMAIN at = Procs

(* What was done was the user's to do, at some time while it was checked:  *)
(* whatever is taken away before the worker begins to check stays undone,  *)
(* and a READ grant, a role or an org's grant alone never deploys.         *)
Needed(p) ==
  IF p = Worker THEN {"access", "role", "org"}
  ELSE CASE Reads(route[p]) -> {"read"}
         [] route[p] = "execute" -> {"access", "role", "org"}
         [] route[p] = "reconcile" -> {"access", "role"}
         [] route[p] \in {"manual", "allow", "disallow"} -> {"admin"}
         [] OTHER -> {}
DoneWhileEntitled ==
  /\ \A p \in Procs : at[p] = "done" => Needed(p) \subseteq could[p]
  /\ at[Worker] = "done" => policy

(* The audit events tell the grants there are, those a deployment takes    *)
(* over from its dry run included.                                         *)
AuditTellsGrants == told = grant

(* What the lists show of a job and what opening it answers agree.         *)
VisibleIsReadable == \A u \in Users : Active(u) => Visible(u) = {j \in Jobs : CanAccess(j, u, "READ")}

=============================================================================
