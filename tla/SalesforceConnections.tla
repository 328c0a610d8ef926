------------------------ MODULE SalesforceConnections ------------------------
(***************************************************************************)
(* The stored Salesforce connections of one user and the requests that run *)
(* commands with them.  A connection is replaced, renamed or removed while *)
(* commands run: its generation tells which one a request began with.      *)
(***************************************************************************)
EXTENDS Naturals, FiniteSets, FiniteSetsExt

CONSTANTS Ids, Aliases, Requests,
          MaxLogins,          \* logins to Salesforce, each with its credentials
          MaxGeneration, MaxCommands,
          Absent              \* no row, no pin, no credentials

VARIABLES row,        \* per id: salesforce_connections
          issued,     \* every row there has been, by its id and generation
          request,    \* per request: where it is, its command and its pins
          home,       \* per request: the credentials in its temporary HOME
          change,     \* a replacement (PUT) between its read and its write
          refused     \* the logins Salesforce has definitely refused

connectionVars == <<row, issued, request, home, change, refused>>

Logins == 1 .. MaxLogins
Rows == [alias : Aliases, generation : 1 .. MaxGeneration, login : Logins,
         auth : Logins, connected : BOOLEAN]
Pins == [id : Ids, generation : 1 .. MaxGeneration]
Steps == {"idle", "import", "login", "failed", "denied", "mark", "check", "run", "export", "over"}

Stored == {id \in Ids : row[id] # Absent}
WithAlias(a) == {id \in Stored : row[id].alias = a}
PinOf(id) == [id |-> id, generation |-> row[id].generation]
Found(p, a) == p.id \in WithAlias(a) /\ row[p.id].generation = p.generation
Current(p) == p.id \in Stored /\ row[p.id].generation = p.generation
Issue(id, r) == [id |-> id, generation |-> r.generation, alias |-> r.alias, login |-> r.login]

ConnectionTypeOK ==
  /\ row \in [Ids -> Rows \cup {Absent}]
  /\ \A e \in issued : e.id \in Ids /\ e.generation \in 1 .. MaxGeneration /\ e.login \in Logins
  /\ request \in [Requests ->
       [pc : Steps, list : BOOLEAN, pins : [Aliases -> Pins \cup {Absent}], required : SUBSET Aliases,
        todo : SUBSET Aliases, alias : Aliases \cup {Absent}, commands : 0 .. MaxCommands]]
  /\ home \in [Requests -> [Aliases -> Logins \cup {Absent}]]
  /\ change \in Pins \cup {Absent} /\ refused \subseteq Logins

Nothing == [a \in Aliases |-> Absent]

ConnectionInit ==
  /\ row = [id \in Ids |-> Absent] /\ issued = {}
  /\ request \in [Requests -> [pc : {"idle"}, list : BOOLEAN, pins : {Nothing}, required : {{}},
                              todo : {{}}, alias : {Absent}, commands : {0}]]
  /\ home = [r \in Requests |-> Nothing]
  /\ change = Absent /\ refused = {}

-----------------------------------------------------------------------------
LastLogin == Max({e.login : e \in issued} \cup {0})
Set(id, r) == row' = [row EXCEPT ![id] = r] /\ issued' = issued \cup {Issue(id, r)}

(* upsert: a login of its own, a generation more than what it replaces.    *)
Write(id, a, generation) ==
  LET login == LastLogin + 1
  IN /\ login \in Logins /\ generation <= MaxGeneration
     /\ Set(id, [alias |-> a, generation |-> generation, login |-> login,
                 auth |-> login, connected |-> TRUE])

(* Registered under an alias: whatever has the alias is replaced.  An id   *)
(* is never used again.                                                    *)
Register(a) ==
  /\ IF WithAlias(a) # {} THEN \E id \in WithAlias(a) : Write(id, a, row[id].generation + 1)
     ELSE \E id \in Ids \ {e.id : e \in issued} : Write(id, a, 1)
  /\ UNCHANGED <<request, home, change, refused>>

(* A replacement (PUT, or a browser login that began for a connection)     *)
(* reads it, validates the new credentials and then writes.                *)
ReadForChange(id) ==
  /\ change = Absent /\ id \in Stored /\ change' = PinOf(id)
  /\ UNCHANGED <<row, issued, request, home, refused>>

Replace(a) ==
  /\ change # Absent /\ change' = Absent
  /\ IF Current(change) /\ WithAlias(a) \subseteq {change.id}
     THEN Write(change.id, a, change.generation + 1)
     ELSE UNCHANGED <<row, issued>>
  /\ UNCHANGED <<request, home, refused>>

(* Mutant: a rename is no new generation.                                  *)
RenameQuietly(id, a) ==
  /\ id \in Stored /\ WithAlias(a) = {} /\ Set(id, [row[id] EXCEPT !.alias = a])
  /\ UNCHANGED <<request, home, change, refused>>

Rename(id, a) ==
  /\ id \in Stored /\ WithAlias(a) = {} /\ row[id].generation < MaxGeneration
  /\ Set(id, [row[id] EXCEPT !.alias = a, !.generation = @ + 1])
  /\ UNCHANGED <<request, home, change, refused>>

Remove(id) ==
  /\ id \in Stored /\ row' = [row EXCEPT ![id] = Absent]
  /\ UNCHANGED <<issued, request, home, change, refused>>

-----------------------------------------------------------------------------
Go(r, to) == request' = [request EXCEPT ![r].pc = to]
Over(r) == Go(r, "over") /\ UNCHANGED home

(* Mutant: the last connection seen counts for the request.                *)
PinAnew(r, found) ==
  request' = [request EXCEPT ![r].pins = [a \in Aliases |-> IF a \in DOMAIN found THEN found[a] ELSE @[a]],
                             ![r].pc = "import", ![r].required = DOMAIN found, ![r].todo = DOMAIN found]

(* pinSalesforceConnection: a request keeps the connection it first used   *)
(* under an alias; meeting another one ends the command.                   *)
Pin(r, found) ==
  LET pins == request[r].pins
      same == {a \in DOMAIN found : pins[a] \in {Absent, found[a]}}
  IN IF same = DOMAIN found
     THEN request' = [request EXCEPT
            ![r].pins = [a \in Aliases |-> IF a \in same THEN found[a] ELSE @[a]],
            ![r].pc = "import", ![r].required = same, ![r].todo = same]
     ELSE \E before \in SUBSET same :
            request' = [request EXCEPT
              ![r].pins = [a \in Aliases |-> IF a \in before THEN found[a] ELSE @[a]], ![r].pc = "over"]

(* A command for one org, or the list of those that are connected.         *)
Begin(r) ==
  /\ request[r].pc = "idle" /\ request[r].commands < MaxCommands
  /\ \/ /\ request[r].list = FALSE
        /\ \E a \in Aliases : IF WithAlias(a) = {} THEN Go(r, "over")
                              ELSE \E id \in WithAlias(a) : Pin(r, [x \in {a} |-> PinOf(id)])
     \/ /\ request[r].list = TRUE
        /\ LET connected == {a \in Aliases : \E id \in WithAlias(a) : row[id].connected}
           IN IF connected = {} THEN Go(r, "over")
              ELSE Pin(r, [a \in connected |-> PinOf(CHOOSE id \in WithAlias(a) : TRUE)])
  /\ UNCHANGED <<row, issued, home, change, refused>>

(* Mutant: whatever credentials the connection has now.                    *)
ImportLatest(r, a) ==
  /\ request[r].pc = "import" /\ a \in request[r].todo
  /\ IF request[r].pins[a].id \in Stored
     THEN /\ home' = [home EXCEPT ![r][a] = row[request[r].pins[a].id].auth]
          /\ request' = [request EXCEPT ![r].pc = "login", ![r].alias = a]
     ELSE Over(r)
  /\ UNCHANGED <<row, issued, change, refused>>

(* authUrl hands out credentials for the generation pinned, no other.      *)
Import(r, a) ==
  /\ request[r].pc = "import" /\ a \in request[r].todo
  /\ IF Current(request[r].pins[a])
     THEN /\ home' = [home EXCEPT ![r][a] = row[request[r].pins[a].id].auth]
          /\ request' = [request EXCEPT ![r].pc = "login", ![r].alias = a]
     ELSE Over(r)
  /\ UNCHANGED <<row, issued, change, refused>>

(* importConnection: sf logs in with them, is refused, or fails otherwise. *)
Login(r) ==
  LET a == request[r].alias
  IN /\ request[r].pc = "login"
     /\ \/ /\ request' = [request EXCEPT ![r].pc = "import", ![r].todo = @ \ {a}]
           /\ UNCHANGED <<home, refused>>
        \/ /\ Go(r, "denied") /\ home' = [home EXCEPT ![r][a] = Absent]
           /\ refused' = refused \cup {home[r][a]}
        \/ Go(r, "failed") /\ home' = [home EXCEPT ![r][a] = Absent] /\ UNCHANGED refused
     /\ UNCHANGED <<row, issued, change>>

(* After a failure: a connection that has been replaced is reported as     *)
(* such; a list goes on without this one.                                  *)
AfterFailure(r) ==
  LET a == request[r].alias
  IN /\ request[r].pc \in {"denied", "failed"}
     /\ IF ~Found(request[r].pins[a], a) THEN Go(r, "over")
        ELSE IF request[r].pc = "denied" THEN Go(r, "mark")
        ELSE IF request[r].list THEN request' = [request EXCEPT ![r].pc = "import", ![r].todo = @ \ {a}]
        ELSE Go(r, "over")
     /\ UNCHANGED <<row, issued, home, change, refused>>

(* Mutant: the connection with this id needs a new login.                  *)
MarkedById(p) ==
  row' = IF p.id \in Stored THEN [row EXCEPT ![p.id].connected = FALSE] ELSE row

(* markReauthRequired: only while it is the generation that was refused.   *)
Marked(p) ==
  row' = IF Current(p) THEN [row EXCEPT ![p.id].connected = FALSE] ELSE row

MarkReauth(r) ==
  LET a == request[r].alias
  IN /\ request[r].pc = "mark" /\ Marked(request[r].pins[a])
     /\ IF request[r].list /\ a \in request[r].todo
        THEN request' = [request EXCEPT ![r].pc = "import", ![r].todo = @ \ {a}] ELSE Go(r, "over")
     /\ UNCHANGED <<issued, home, change, refused>>

Imported(r) ==
  /\ request[r].pc = "import" /\ request[r].todo = {}
  /\ IF \A a \in Aliases : home[r][a] = Absent THEN Go(r, "over")
     ELSE request' = [request EXCEPT ![r].pc = "check", ![r].todo = request[r].required]
  /\ UNCHANGED <<row, issued, home, change, refused>>

(* Replacements are looked for once more before the command starts.        *)
Check(r, a) ==
  /\ request[r].pc = "check" /\ a \in request[r].todo
  /\ IF ~Found(request[r].pins[a], a) THEN Go(r, "over")
     ELSE request' = [request EXCEPT ![r].todo = @ \ {a},
                                     ![r].pc = IF request[r].todo = {a} THEN "run" ELSE "check"]
  /\ UNCHANGED <<row, issued, home, change, refused>>

(* The command runs with the HOME it has, where Salesforce may put new     *)
(* credentials of the same logins.                                         *)
Run(r) ==
  /\ request[r].pc = "run"
  /\ \/ /\ request' = [request EXCEPT ![r].pc = "export",
                                      ![r].todo = {a \in Aliases : home[r][a] # Absent}]
        /\ UNCHANGED <<home, refused>>
     \/ Over(r) /\ UNCHANGED refused
     \/ /\ ~request[r].list /\ Go(r, "mark") /\ UNCHANGED home
        /\ refused' = refused \cup {home[r][request[r].alias]}
  /\ UNCHANGED <<row, issued, change>>

(* Mutant: the connection with this id gets the credentials.               *)
RotatedById(p, auth) ==
  row' = IF p.id \in Stored THEN [row EXCEPT ![p.id].auth = auth, ![p.id].connected = TRUE] ELSE row

(* rotateAuthUrl: only while it is the generation they were taken from.    *)
Rotated(p, auth) ==
  row' = IF Current(p) THEN [row EXCEPT ![p.id].auth = auth, ![p.id].connected = TRUE] ELSE row

(* What HOME holds after the command is stored, if it can be read.         *)
Export(r, a) ==
  /\ request[r].pc = "export" /\ a \in request[r].todo
  /\ Rotated(request[r].pins[a], home[r][a]) \/ UNCHANGED row
  /\ request' = [request EXCEPT ![r].todo = @ \ {a}]
  /\ UNCHANGED <<issued, home, change, refused>>

(* HOME is deleted, whatever the outcome; the request may go on.           *)
Finish(r) ==
  /\ request[r].pc = "over" \/ (request[r].pc = "export" /\ request[r].todo = {})
  /\ home' = [home EXCEPT ![r] = Nothing]
  /\ \E list \in BOOLEAN :
       request' = [request EXCEPT ![r].pc = "idle", ![r].list = list, ![r].required = {},
                                  ![r].todo = {}, ![r].alias = Absent, ![r].commands = @ + 1]
  /\ UNCHANGED <<row, issued, change, refused>>

ConnectionNext ==
  \/ \E a \in Aliases : Register(a) \/ Replace(a)
  \/ \E id \in Ids : \/ ReadForChange(id) \/ Remove(id)
                     \/ \E a \in Aliases : Rename(id, a)
  \/ \E r \in Requests : \/ Begin(r) \/ Login(r) \/ AfterFailure(r) \/ MarkReauth(r) \/ Imported(r)
                         \/ Run(r) \/ Finish(r)
                         \/ \E a \in Aliases : Import(r, a) \/ Check(r, a) \/ Export(r, a)

-----------------------------------------------------------------------------
(* A generation stands for one alias and one login for ever, also when the *)
(* connection is renamed, replaced or removed: what a request pinned, and  *)
(* what a job recorded, cannot come to mean something else.                *)
PinsIdentify ==
  \A d, e \in issued : d.id = e.id /\ d.generation = e.generation => d = e

(* Under an alias a request uses the credentials of one login, the one of  *)
(* the generation it pinned, in all its commands.                          *)
RunsAsPinned ==
  \A r \in Requests, a \in Aliases :
    home[r][a] # Absent =>
      \E e \in issued : /\ [id |-> e.id, generation |-> e.generation] = request[r].pins[a]
                        /\ e.login = home[r][a]

(* A request never changes the connection it has pinned under an alias.    *)
PinsStay ==
  [][\A r \in Requests, a \in Aliases :
       request[r].pins[a] # Absent => request'[r].pins[a] = request[r].pins[a]]_connectionVars

(* The credentials stored with a connection are those of its own login: a  *)
(* command that is late stores nothing over a newer login.                 *)
CredentialsAreOwn == \A id \in Stored : row[id].auth = row[id].login

(* A connection is said to need a new login only when its login was        *)
(* refused; the refusal of an earlier one says nothing about it.           *)
ReauthIsDeserved == \A id \in Stored : ~row[id].connected => row[id].login \in refused
=============================================================================
