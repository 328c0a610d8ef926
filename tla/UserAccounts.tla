------------------------------ MODULE UserAccounts ------------------------------
(***************************************************************************)
(* Users, their roles and their sessions: the first administrator, changes *)
(* of users by administrators, logins and requests, each of which looks    *)
(* something up and acts on it in a later step.                            *)
(***************************************************************************)
EXTENDS Naturals, FiniteSets

CONSTANTS Users, Callers, None,
          MaxSessions        \* bound: sessions of one user

VARIABLES user,         \* users: per user its role, and whether it is disabled
          openToken,    \* bootstrapToken is kept
          administrators,  \* how many users were made by bootstrapAdmin
          sessions,     \* of users, numbered: those not revoked
          made,         \* per user: the sessions made
          before,       \* per user: those made before it was last disabled
          caller        \* per request: the user it is for and what it has seen

accountVars == <<user, openToken, administrators, sessions, made, before, caller>>

NoUser == [role |-> "none", disabled |-> FALSE]
Idle == [pc |-> "idle", actor |-> None, on |-> None]
ActiveAdmins(of) == {u \in Users : of[u] = [role |-> "ADMIN", disabled |-> FALSE]}

AccountTypeOK ==
  /\ user \in [Users -> [role : {"none", "ADMIN", "DEPLOYER"}, disabled : BOOLEAN]]
  /\ openToken \in BOOLEAN /\ administrators \in 0 .. 2
  /\ sessions \subseteq Users \X (1 .. MaxSessions)
  /\ made \in [Users -> 0 .. MaxSessions] /\ before \in [Users -> 0 .. MaxSessions]
  /\ caller \in [Callers -> [pc : {"idle", "bootstrap", "create", "update", "login", "session"},
                             actor : Users \cup {None}, on : Users \cup {None}]]

AccountInit ==
  /\ user = [u \in Users |-> NoUser] /\ openToken = TRUE /\ administrators = 0
  /\ sessions = {} /\ made = [u \in Users |-> 0] /\ before = [u \in Users |-> 0]
  /\ caller = [c \in Callers |-> Idle]

History == <<administrators, made, before>>

-----------------------------------------------------------------------------
Go(c, pc, actor, on) == caller' = [caller EXCEPT ![c] = [pc |-> pc, actor |-> actor, on |-> on]]
Done(c) == caller' = [caller EXCEPT ![c] = Idle]

(* createSession: the insertion asks nothing about the user.               *)
SessionMade(u) ==
  IF made[u] < MaxSessions
  THEN made' = [made EXCEPT ![u] = @ + 1] /\ sessions' = sessions \cup {<<u, made'[u]>>}
  ELSE UNCHANGED <<made, sessions>>

(* bootstrapAdmin: the token is compared, the password hashed ...          *)
AskBootstrap(c, u) ==
  /\ caller[c].pc = "idle" /\ openToken /\ Go(c, "bootstrap", None, u)
  /\ UNCHANGED <<user, openToken, sessions, History>>

(* Mutant: the token alone tells whether there is an administrator.        *)
TokenSays == TRUE

NoUsers == \A u \in Users : user[u] = NoUser

(* ... and the first user is made if there is none.                        *)
Bootstrap(c) ==
  /\ caller[c].pc = "bootstrap"
  /\ IF NoUsers
     THEN /\ user' = [user EXCEPT ![caller[c].on] = [role |-> "ADMIN", disabled |-> FALSE]]
          /\ administrators' = administrators + 1 /\ openToken' = FALSE
          /\ Go(c, "session", None, caller[c].on)
     ELSE Done(c) /\ UNCHANGED <<user, administrators, openToken>>
  /\ UNCHANGED <<sessions, made, before>>

-----------------------------------------------------------------------------
(* sessionState: whom a session speaks for now.                            *)
Authenticated(s) == s \in sessions /\ ~user[s[1]].disabled

(* requireAuthenticatedSession with the role ADMIN; the change follows.    *)
AskChange(c, s, u) ==
  /\ caller[c].pc = "idle" /\ Authenticated(s) /\ user[s[1]].role = "ADMIN"
  /\ \E pc \in {"create", "update"} : Go(c, pc, s[1], u)
  /\ UNCHANGED <<user, openToken, sessions, History>>

CreateManagedUser(c) ==
  /\ caller[c].pc = "create" /\ Done(c)
  /\ IF user[caller[c].on] = NoUser
     THEN \E role \in {"ADMIN", "DEPLOYER"} :
            user' = [user EXCEPT ![caller[c].on] = [role |-> role, disabled |-> FALSE]]
     ELSE UNCHANGED user
  /\ UNCHANGED <<openToken, sessions, History>>

(* Mutants: only a change of the role is a loss of an administrator; the   *)
(* sessions of a disabled user stay.                                       *)
RoleAllowed(u, next) ==
  user[u].role = "ADMIN" /\ next.role # "ADMIN" /\ ~user[u].disabled => ActiveAdmins(user) \ {u} # {}
SessionsStay(u, next) == UNCHANGED sessions

(* The last active administrator stays one.                                *)
LastAdminAllowed(u, next) ==
  u \in ActiveAdmins(user) /\ (next.role # "ADMIN" \/ next.disabled) => ActiveAdmins(user) \ {u} # {}

SessionsRevoked(u, next) ==
  IF next.disabled /\ ~user[u].disabled
  THEN sessions' = {s \in sessions : s[1] # u}
  ELSE UNCHANGED sessions

(* updateManagedUser: one transaction; nobody changes his own role or      *)
(* disables himself.                                                       *)
UpdateManagedUser(c) ==
  LET u == caller[c].on
  IN /\ caller[c].pc = "update" /\ Done(c)
     /\ \/ /\ user[u] # NoUser
           /\ \E role \in {"ADMIN", "DEPLOYER"}, disabled \in BOOLEAN :
                LET next == [role |-> role, disabled |-> disabled]
                IN /\ caller[c].actor = u => role = user[u].role /\ ~disabled
                   /\ LastAdminAllowed(u, next)
                   /\ user' = [user EXCEPT ![u] = next]
                   /\ SessionsRevoked(u, next)
                   /\ before' = IF disabled /\ ~user[u].disabled THEN [before EXCEPT ![u] = made[u]] ELSE before
        \/ UNCHANGED <<user, sessions, before>>        \* refused, or not there
     /\ UNCHANGED <<openToken, administrators, made>>

-----------------------------------------------------------------------------
(* login: the row is read, the password verified, the session made.        *)
AskLogin(c, u) ==
  /\ caller[c].pc = "idle" /\ user[u] # NoUser /\ Go(c, "login", None, u)
  /\ UNCHANGED <<user, openToken, sessions, History>>
ReadRow(c) ==
  /\ caller[c].pc = "login"
  /\ IF user[caller[c].on].disabled THEN Done(c) ELSE Go(c, "session", None, caller[c].on)
  /\ UNCHANGED <<user, openToken, sessions, History>>
CreateSession(c) ==
  /\ caller[c].pc = "session" /\ SessionMade(caller[c].on) /\ Done(c)
  /\ UNCHANGED <<user, openToken, administrators, before>>

(* logout, or the end of the session's time.                               *)
Revoke(s) ==
  /\ s \in sessions /\ sessions' = sessions \ {s}
  /\ UNCHANGED <<user, openToken, History, caller>>

AccountNext ==
  \/ \E c \in Callers :
       \/ Bootstrap(c) \/ CreateManagedUser(c) \/ UpdateManagedUser(c) \/ ReadRow(c) \/ CreateSession(c)
       \/ \E u \in Users :
            \/ AskBootstrap(c, u) \/ AskLogin(c, u)
            \/ \E s \in sessions : AskChange(c, s, u)
  \/ \E s \in sessions : Revoke(s)

-----------------------------------------------------------------------------
(* There is one first administrator, however many ask at once with the     *)
(* right code, and from then on always somebody who can manage users.      *)
BootstrapOnce == administrators <= 1
AdministratorRemains == administrators > 0 => ActiveAdmins(user) # {}

(* A session from before its user was disabled is never good again, not    *)
(* even when the user is enabled.                                          *)
DisabledEndsSessions ==
  \A s \in sessions : Authenticated(s) => s[2] > before[s[1]]
=============================================================================
