------------------------------- MODULE MCParts -------------------------------
(***************************************************************************)
(* The rules, and parts of the web UI that share no state with each other: *)
(* a behaviour is one of one `part`, while the others rest.                *)
(* The rules are pure functions of the code, evaluated on bounded inputs:  *)
(* the initial states are the questions, one step answers; a property      *)
(* relates the answer to a reference, or to the answer of another rule.  *)
(***************************************************************************)
EXTENDS Naturals, Sequences, FiniteSets

CONSTANTS Absent, Everything, Unanswered,
          Tabs, Checkers, MaxKeys, MaxArriving, MaxPending,       \* PendingSubmissions
          MaxEdits, MaxPuts, MaxReloads,                          \* DraftSaving
          Types, MaxPreparations,                                 \* BranchPreparation
          People, MaxSent, MaxLogins,                             \* BrowserSession
          Selections, MaxSubmitted, MaxChanges,                   \* WorkflowUpdates; selections are
                                                                  \* of branches, too
          Nothing

VARIABLES part,
          question, due, reply,      \* due: there is no answer yet
          stored, author, key, call, arriving, made, known, crossed,
          edited, edits, reloads, latest, client, draft, revision, put, saved, waiting, timer,
          recovery, restoring, before, overtaken, reverted,
          branch, type, changed, version, preparing, imported, selecting, choosing, preparation,
          session, living, logins, asked, page, listed, asking, leaving,
          pane, selection, dirty, changes, owner, shown, request, current, submitting, jobs, told,
          event, poll, missed, reconciling, reconciled

-----------------------------------------------------------------------------
ruleVars == <<question, due, reply>>

About(subject) == question.about = subject /\ ~due
Reply(subject, what) == /\ question.about = subject /\ due
                        /\ due' = FALSE /\ reply' = what /\ UNCHANGED question

-----------------------------------------------------------------------------
(* Files of an XML type the elements of which have a name.                 *)
Element(name, body) == [f \in {"name", "body"} |-> IF f = "name" THEN name ELSE body]

Ids == {"p1", "p2", "p3"}
Orgs == {"o1", "o2"}

Metadata == INSTANCE MetadataComparison WITH
  Values <- {"v1", "v2"}, Fields <- <<"name", "body">>,
  Docs <- {<<>>, <<Element("v1", "v1"), Element("v2", "v1")>>, <<Element("v2", "v1"), Element("v1", "v1")>>},
  Layouts <- {"plain", "indented"},
  Policy <- [registered |-> TRUE, ordered |-> FALSE, keys |-> {"name"}],
  Parents <- {"p"}, Members <- {"m1", "m2"}, Singles <- {"s"},
  Packaged <- LAMBDA k : k[Len(k)] = "m2", NoNamespace <- Absent

(* XML: documents of up to two elements with up to two children.           *)
XmlQuestions == [about : {"xml"}, left : Metadata!Documents(2), right : Metadata!Documents(2),
                 policy : Metadata!Policies]

AnswerXml ==
  Reply("xml", [tree    |-> Metadata!TreeChanges(question.left, question.right, question.policy),
                same    |-> Metadata!SameDigest(question.left, question.right, question.policy),
                streamed |-> Metadata!StreamChanges(question.left, question.right, question.policy)])

(* compareXml and compareLargeXml agree on whether two documents differ,   *)
(* so that a file does not change its verdict by growing over the limit.   *)
XmlSizeIsNoMatter == About("xml") => ((reply.tree = {}) <=> reply.same)

(* They differ exactly when an element does, or the order where it counts; *)
(* elements that cannot be told apart are compared by position.            *)
XmlVerdictIsRight ==
  About("xml") => ((reply.tree = {}) <=> Metadata!Equivalent(question.left, question.right, question.policy))

(* Documents that differ are never reported without a change to show.      *)
XmlChangesAreNamed == About("xml") => (reply.same <=> reply.streamed = {})

-----------------------------------------------------------------------------
FileQuestions == [about : {"file"}, suffix : {"xml", "text", "other"}, strict : BOOLEAN,
                  left : Metadata!Contents, right : Metadata!Contents, prefix : BOOLEAN]

AnswerFile ==
  Reply("file", [small |-> Metadata!SmallVerdict(question.suffix, question.strict, question.left, question.right),
                 large |-> Metadata!LargeVerdict(question.suffix, question.strict, question.prefix,
                                                 question.left, question.right)])

(* compareFile: for text the verdict is the same above and below the size  *)
(* limit.  (For bytes that are no text it is not: see the README.)         *)
FileSizeIsNoMatter ==
  About("file") /\ Metadata!Decodable(question.left) /\ Metadata!Decodable(question.right)
    => reply.small.status = reply.large.status

(* A text file is MODIFIED exactly when there is something to show for it. *)
FileDifferenceIsShown ==
  About("file") =>
    \A verdict \in {reply.small, reply.large} :
      verdict.kind # "binary" => (verdict.status = "MODIFIED" <=> verdict.shown # {})

-----------------------------------------------------------------------------
(* Snapshots: one parent with two members, one component of its own.       *)
ShotOptions ==
  [types : {{}, {"parent"}, {"child"}}, selected : {Everything},
   excluded : {{}} \cup {{k} : k \in Metadata!Keys}, namespaces : BOOLEAN, maximum : {2, 9}]
  \cup [types : {{}}, selected : SUBSET Metadata!Keys \ {{}},
        excluded : {{}} \cup {{k} : k \in Metadata!Keys}, namespaces : {FALSE}, maximum : {9}]

ShotQuestions == [about : {"snapshot"}, left : Metadata!Snapshots, right : Metadata!Snapshots,
                  options : ShotOptions]

AnswerShot == Reply("snapshot", Metadata!Compare(question.left, question.right, question.options))

Without(s, excluded) ==
  [parent |-> [p \in DOMAIN s.parent |->
                 IF s.parent[p] = Absent THEN Absent
                 ELSE [m \in DOMAIN s.parent[p] |->
                         IF Metadata!ChildKey(p, m) \in excluded THEN Absent ELSE s.parent[p][m]]],
   single |-> [x \in DOMAIN s.single |-> IF Metadata!SingleKey(x) \in excluded THEN Absent ELSE s.single[x]]]

(* A component excluded by its key influences nothing that is reported,    *)
(* also when it is a member inside the file of a parent that is compared.  *)
ExcludedLeavesNoTrace ==
  About("snapshot") =>
    LET hidden == Metadata!Compare(Without(question.left, question.options.excluded),
                               Without(question.right, question.options.excluded), question.options)
    IN reply.components = hidden.components /\ reply.exceeded = hidden.exceeded

Mirrored(status) == CASE status = "ADDED" -> "REMOVED" [] status = "REMOVED" -> "ADDED" [] OTHER -> status

(* Exchanging the sides exchanges ADDED and REMOVED and nothing else.      *)
SidesAreEqual ==
  About("snapshot") =>
    LET back == Metadata!Compare(question.right, question.left, question.options)
    IN /\ reply.exceeded = back.exceeded /\ reply.removed = back.removed
       /\ ~reply.exceeded =>
            back.components = [k \in DOMAIN reply.components |-> Mirrored(reply.components[k])]

-----------------------------------------------------------------------------
(* Packages: three in two orgs, with names and a namespace to share.       *)
PackageQuestions ==
  [about : {"packages"}, name : {f \in [Ids -> {"n1", "n2"}] : f["p1"] = "n1"}, namespace : [Ids -> {"x", Absent}],
   present : [Orgs -> SUBSET Ids], differs : BOOLEAN, selected : SUBSET Ids, loaded : {{}, Ids}]

(* What a package brings: a name of one part, a child or foldered member,  *)
(* and a member of another type whose name has a part before, as an action *)
(* of an object has.                                                       *)
Forms == {"plain", "child", "qualified"}

(* `differs`: the first package has another namespace in the second org.   *)
InstalledOf(q) ==
  [o \in Orgs |-> [id \in q.present[o] |->
     [name |-> q.name[id], keys |-> {<<id, form>> : form \in Forms},
      namespace |-> IF q.differs /\ o = "o2" /\ id = "p1" THEN "y" ELSE q.namespace[id]]]]

AnswerPackages ==
  LET installed == InstalledOf(question)
  IN Reply("packages",
       [listed  |-> Metadata!Listable(installed),
        refused |-> Metadata!Refused(installed, question.selected, question.loaded),
        all     |-> IF Metadata!Listable(installed) THEN Metadata!ExcludeAll(installed) ELSE Absent,
        chosen  |-> IF Metadata!Refused(installed, question.selected, question.loaded) THEN Absent
                    ELSE Metadata!ExcludeSelected(installed, question.selected)])

Component(k, namespace, parent) ==
  [key |-> k, type |-> IF k[2] = "child" THEN "child" ELSE "other", namespace |-> namespace,
   within |-> CASE k[2] = "plain" -> Absent [] parent = Absent -> "local" [] OTHER -> parent]

(* A parent is local or comes with a package; what it contains comes with  *)
(* a package, the same or another, or was made in the org itself.          *)
Within(installed, o) == {Absent} \cup {installed[o][id].namespace : id \in DOMAIN installed[o]}

ComponentsOf(installed, o, id) ==
  {Component(k, installed[o][id].namespace, parent) :
     k \in installed[o][id].keys, parent \in Within(installed, o)}

LocalComponents(installed, o) ==
  {Component(<<"local", form>>, Absent, parent) : form \in Forms, parent \in Within(installed, o)}

(* A name of several parts of a type without parents or folders does not   *)
(* tell a package.                                                         *)
NameTells(c) == c.key[2] # "qualified"

(* resolvePackageExclusion: a resolved exclusion leaves out the components *)
(* of the selected packages, those found by namespace as far as their      *)
(* names tell it, and nothing of another package or of none, wherever they *)
(* share names, namespaces, parents and orgs.                              *)
ExclusionIsExact ==
  About("packages") /\ ~reply.refused =>
    LET installed == InstalledOf(question)
    IN \A o \in Orgs :
         /\ \A id \in DOMAIN installed[o] : \A c \in ComponentsOf(installed, o, id) :
              Metadata!LeavesOut(reply.chosen, c) <=>
                id \in question.selected /\ (NameTells(c) \/ Metadata!NeedsComponents(installed, id))
         /\ \A c \in LocalComponents(installed, o) : ~Metadata!LeavesOut(reply.chosen, c)

(* Of all packages, those without a namespace stay in, and are named.      *)
AllButUnnamespaced ==
  About("packages") /\ reply.listed =>
    LET installed == InstalledOf(question)
    IN \A o \in Orgs :
         /\ \A id \in DOMAIN installed[o] : \A c \in ComponentsOf(installed, o, id) :
              Metadata!LeavesOut(reply.all, c) <=> NameTells(c) /\ id \notin reply.all.unnamespaced
         /\ \A c \in LocalComponents(installed, o) : ~Metadata!LeavesOut(reply.all, c)

-----------------------------------------------------------------------------
(* Deployments: two classes, one of them named like a test, and a trigger. *)
Deploy == INSTANCE DeploymentRules WITH
  Classes <- {"c", "c_test"}, Triggers <- {"t"}, Suffixed <- LAMBDA name : name = "c_test",
  NoInventory <- Everything, NoCount <- Absent

(* Salesforce reports lines for some members: one or two entries of ten.   *)
Entries == [name : {"c", "t"}, lines : {0, 10, Absent}, uncovered : {2, 3, 11}]
Reports == {<<>>} \cup {<<e>> : e \in Entries} \cup {<<e, f>> : e \in Entries, f \in Entries}

GateQuestions ==
  [about : {"gate"}, payload : {p \in SUBSET (Deploy!Apex \cup Deploy!Wildcards) : Cardinality(p) <= 3},
   level : {"auto", "RunSpecifiedTests", "RunLocalTests"}, requested : {{}, {"c_test"}},
   report : Reports, minimum : {75}]

AnswerGate ==
  LET plan == Deploy!TestPlan(question.payload, question.level, question.requested)
  IN Reply("gate", [plan |-> plan,
                    opens |-> Deploy!CoverageGate(question.payload, plan.tests, question.report, question.minimum, TRUE)])

Measured == {m.name : m \in {x \in question.payload : x.kind = "ApexTrigger" \/ x.name \notin reply.plan.tests}}
EntriesOf(name) == {question.report[i] : i \in {j \in DOMAIN question.report : question.report[j].name = name}}

(* The gate opens exactly when every Apex class and trigger of the payload *)
(* that is not run as a test is reported and none of them falls short; one *)
(* well covered class does not make up for another.                        *)
CoverageIsPerClass ==
  About("gate") /\ question.payload \cap Deploy!Wildcards = {} =>
    (reply.opens <=>
       \/ Measured = {}
       \/ /\ \A name \in Measured : EntriesOf(name) # {}
          /\ \A name \in Measured : \A e \in EntriesOf(name) :
               e.lines \in Nat /\ e.lines > 0 =>
                 e.lines - e.uncovered >= 0 /\ (e.lines - e.uncovered) * 100 >= question.minimum * e.lines
          /\ \E name \in Measured : \E e \in EntriesOf(name) : e.lines \in Nat /\ e.lines > 0)

Manifests == UNION {[ts -> SUBSET {"m1", "m2"}] : ts \in SUBSET {"type1", "type2"}}
ManifestQuestions == [about : {"manifest"}, left : Manifests, right : Manifests, types : SUBSET {"type1", "type2"}]

AnswerManifest == Reply("manifest", Deploy!Deployable(<<question.left, question.right>>, question.types))

(* generateDeployableManifest: what either source is asked for is in the   *)
(* manifest of both, nothing else is, and no type that was not selected;   *)
(* a source is left empty exactly when nothing is asked of it.             *)
EachSourceItsOwn ==
  About("manifest") =>
    /\ \A i \in 1 .. 2 : \A t \in DOMAIN reply.sources[i] :
         /\ t \in DOMAIN reply.merged /\ reply.sources[i][t] \subseteq reply.merged[t]
         /\ question.types = {} \/ t \in question.types
    /\ \A t \in DOMAIN reply.merged : \A member \in reply.merged[t] :
         \E i \in 1 .. 2 : t \in DOMAIN reply.sources[i] /\ member \in reply.sources[i][t]
    /\ \A i \in 1 .. 2 : reply.empty[i] <=> (\A t \in DOMAIN reply.sources[i] : reply.sources[i][t] = {})

(* The components a user selects, in any order and possibly twice.         *)
Picks == UNION {[1 .. n -> [type : {"type1", "type2"}, name : {"m1", "m2"}]] : n \in 1 .. 3}
SelectionQuestions == [about : {"selection"}, components : Picks]

AnswerSelection == Reply("selection", Deploy!Parsed(Deploy!Rendered(question.components)))

(* renderSelectedManifest and parseManifest: the manifest of a selection   *)
(* reads back as the selection, although of two entries for one type the   *)
(* reader keeps only the last.                                             *)
SelectionIsRetrieved ==
  About("selection") =>
    UNION {{[type |-> t, name |-> member] : member \in reply[t]} : t \in DOMAIN reply}
      = {question.components[i] : i \in DOMAIN question.components}

-----------------------------------------------------------------------------
RuleInit ==
  /\ due = TRUE /\ reply = Unanswered
  /\ \/ question \in XmlQuestions \/ question \in FileQuestions \/ question \in ShotQuestions
     \/ question \in PackageQuestions \/ question \in GateQuestions \/ question \in ManifestQuestions
     \/ question \in SelectionQuestions
RuleNext ==
  \/ AnswerXml \/ AnswerFile \/ AnswerShot \/ AnswerPackages \/ AnswerGate \/ AnswerManifest
  \/ AnswerSelection

-----------------------------------------------------------------------------
Pending == INSTANCE PendingSubmissions WITH None <- Nothing
Draft == INSTANCE DraftSaving WITH selection <- edited, row <- draft, None <- Nothing
Branch == INSTANCE BranchPreparation WITH changes <- changed, Branches <- Selections, None <- Nothing
Session == INSTANCE BrowserSession WITH call <- asking, Users <- People, None <- Nothing
Workflow == INSTANCE WorkflowUpdates WITH status <- jobs, MaxRequests <- MaxSubmitted, None <- Nothing

Limits == {MaxKeys, MaxArriving, MaxPending, MaxEdits, MaxPuts, MaxReloads, MaxPreparations,
           MaxSent, MaxLogins, MaxSubmitted, MaxChanges}
Words == {"idle", "job", "denied", "refused", "loading", "401", "timer"} \cup Workflow!Statuses

(* Nothing stands for what is not there: it is no value of what may be.    *)
ASSUME PartsAssumption ==
  /\ Limits \subseteq Nat /\ Checkers \subseteq Tabs
  /\ Nothing \notin Nat \cup Tabs \cup Types \cup People \cup Selections \cup Words
  /\ Nothing \notin [selection : Nat, revision : Nat]
  /\ Nothing \notin [from : {"browser", "server"}, selection : Nat \cup {Nothing}]
  /\ Nothing \notin [shown : Nat, put : Nat \cup {Nothing}, read : Nat \cup {Nothing}]
  /\ Nothing \notin Workflow!Seen \cup Workflow!Asked
  /\ People \cap {"loading", "401"} = {}

pendingVars == <<stored, author, key, call, arriving, made, known, crossed>>
draftVars == <<edited, edits, reloads, latest, client, draft, revision, put, saved, waiting, timer,
               recovery, restoring, before, overtaken, reverted>>
branchVars == <<branch, type, changed, version, preparing, imported, selecting, choosing, preparation>>
sessionVars == <<session, living, logins, asked, page, listed, asking, leaving>>
workflowVars == <<pane, selection, dirty, changes, owner, shown, request, current, submitting,
                  jobs, told, event, poll, missed, reconciling, reconciled>>
allVars == <<part, ruleVars, pendingVars, draftVars, branchVars, sessionVars, workflowVars>>

MCInit ==
  /\ part \in {"rules", "submissions", "draft", "branch", "session", "workflow"}
  /\ Pending!PendingInit /\ Draft!DraftInit
  /\ Branch!BranchInit /\ Session!SessionInit /\ Workflow!UpdateInit
  /\ part # "branch" => branch = CHOOSE b \in Selections : TRUE
  /\ part # "branch" => type = CHOOSE t \in Types : TRUE
  /\ part # "session" => session.user = Nothing
  /\ part # "workflow" => pane = "compare" /\ selection = CHOOSE k \in Selections : TRUE
  /\ IF part = "rules" THEN RuleInit
     ELSE question = [about |-> "nothing"] /\ due = FALSE /\ reply = Unanswered

pageVars == <<sessionVars, workflowVars>>
Of(s) == part = s /\ UNCHANGED part
RuleStep(Act)       == Of("rules") /\ Act /\ UNCHANGED <<pendingVars, draftVars, branchVars, pageVars>>
SubmissionStep(Act) == Of("submissions") /\ Act /\ UNCHANGED <<ruleVars, draftVars, branchVars, pageVars>>
DraftStep(Act)      == Of("draft") /\ Act /\ UNCHANGED <<ruleVars, pendingVars, branchVars, pageVars>>
BranchStep(Act)     == Of("branch") /\ Act /\ UNCHANGED <<ruleVars, pendingVars, draftVars, pageVars>>
SessionStep(Act)    == Of("session") /\ Act /\ UNCHANGED <<ruleVars, pendingVars, draftVars, branchVars, workflowVars>>
WorkflowStep(Act)   == Of("workflow") /\ Act /\ UNCHANGED <<ruleVars, pendingVars, draftVars, branchVars, sessionVars>>

MCNext ==
  \/ RuleStep(RuleNext) \/ SubmissionStep(Pending!PendingNext) \/ DraftStep(Draft!DraftNext)
  \/ BranchStep(Branch!BranchNext) \/ SessionStep(Session!SessionNext)
  \/ WorkflowStep(Workflow!UpdateNext)

MCSpec == MCInit /\ [][MCNext]_allVars

-----------------------------------------------------------------------------
(* One verdict about a file, whatever its size: compareXml and             *)
(* compareLargeXml agree, with each other and with what a difference is,   *)
(* and what is MODIFIED has something to show for it.                      *)
VerdictsAreRight ==
  /\ XmlSizeIsNoMatter /\ XmlVerdictIsRight /\ XmlChangesAreNamed
  /\ FileSizeIsNoMatter /\ FileDifferenceIsShown

(* An exclusion leaves out what it names and nothing else, on either side: *)
(* a component wherever it is found, a package as far as the names of its  *)
(* components tell it or its components were loaded.                       *)
ExclusionHolds ==
  ExcludedLeavesNoTrace /\ SidesAreEqual /\ ExclusionIsExact /\ AllButUnnamespaced

(* What is selected is what is retrieved, from its own source, and what    *)
(* the coverage is measured of.                                            *)
DeploymentIsAsSelected == CoverageIsPerClass /\ EachSourceItsOwn /\ SelectionIsRetrieved

(* What the user has submitted or edited last is not lost between the      *)
(* page, the browser and the server, whatever answers or reloads overtake  *)
(* each other: see PendingSubmissions and DraftSaving.                     *)
WorkIsKept ==
  CASE part = "submissions" -> /\ Pending!PendingTypeOK
                               /\ Pending!NothingIsForgotten /\ Pending!OneOpenPerTab
    [] part = "draft" -> Draft!DraftTypeOK /\ Draft!LatestIsKept
    [] OTHER -> TRUE

(* What a page shows belongs to what is selected and to whom is signed in, *)
(* and it waits, or polls, exactly while something is still to come: see   *)
(* BranchPreparation, BrowserSession and WorkflowUpdates.                  *)
ShownIsCurrent ==
  CASE part = "branch" -> /\ Branch!BranchTypeOK
                          /\ Branch!ImportedIsSelected /\ Branch!HeldWhilePreparing
    [] part = "session" -> Session!SessionTypeOK /\ Session!ListedIsOwn
    [] part = "workflow" -> /\ Workflow!UpdateTypeOK /\ Workflow!ShownIsSelected
                            /\ Workflow!WaitsForAnswer /\ Workflow!StaleIsPolled
    [] OTHER -> TRUE
=============================================================================
