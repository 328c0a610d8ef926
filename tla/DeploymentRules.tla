---------------------------- MODULE DeploymentRules ----------------------------
(***************************************************************************)
(* What a deployment runs and when it is good enough: the manifest made    *)
(* from the two sources, the Apex test plan, the coverage gate.            *)
(***************************************************************************)
EXTENDS Naturals, Sequences, FiniteSets, SequencesExt

CONSTANTS Classes, Triggers, Suffixed(_), NoInventory, NoCount

Apex == [kind : {"ApexClass"}, name : Classes] \cup [kind : {"ApexTrigger"}, name : Triggers]
Wildcards == [kind : {"ApexClass", "ApexTrigger"}, name : {"*"}]

(* discoverSuffixTests, of the classes in the payload.                     *)
SuffixTests(payload) == {m.name : m \in {x \in payload : x.kind = "ApexClass" /\ Suffixed(x.name)}}

Plan(level, tests, selection) == [level |-> level, tests |-> tests, selection |-> selection]
RefusedPlan == Plan("refused", {}, "none")

(* selectApexTestPlan.                                                     *)
TestPlan(payload, level, requested) ==
  LET suffix == SuffixTests(payload)
      named  == IF requested # {} THEN Plan("RunSpecifiedTests", requested, "explicit")
                ELSE Plan("RunSpecifiedTests", suffix, "suffix")
  IN CASE level = "auto" -> IF named.tests = {} THEN Plan("RunLocalTests", {}, "fallback") ELSE named
       [] level = "RunSpecifiedTests" -> IF named.tests = {} THEN RefusedPlan ELSE named
       [] OTHER -> IF requested # {} THEN RefusedPlan ELSE Plan(level, {}, "configured")

-----------------------------------------------------------------------------
(* payloadApexCoverageInventory: nothing exact is known of a wildcard.     *)
Inventory(manifest, tests) ==
  IF manifest \cap Wildcards # {} THEN NoInventory
  ELSE {m.name : m \in {x \in manifest : x.kind # "ApexClass" \/ x.name \notin tests}}

(* codeCoverage entries: [name, lines, uncovered], NoCount if no number.   *)
Counted(e) == e.lines # NoCount /\ e.uncovered # NoCount /\ e.lines > 0
Covered(e) == IF e.uncovered > e.lines THEN 0 ELSE e.lines - e.uncovered

(* Mutant: the lines of all classes are added up.                          *)
CoverageInTotal(report, minimum, required) ==
  LET entries == SelectSeq(report, LAMBDA e : e.name \in required /\ Counted(e))
      lines   == FoldSeq(LAMBDA e, sum : sum + e.lines, 0, entries)
      covered == FoldSeq(LAMBDA e, sum : sum + Covered(e), 0, entries)
  IN /\ required \subseteq {report[i].name : i \in DOMAIN report}
     /\ lines > 0 /\ covered * 100 >= minimum * lines

(* requireMinimumApexCoverage: all are reported, some have lines, and the  *)
(* lowest of them reaches the minimum.                                     *)
CoverageSuffices(report, minimum, required) ==
  LET entries == {report[i] : i \in {j \in DOMAIN report : report[j].name \in required}}
      counted == {e \in entries : Counted(e)}
  IN /\ required \subseteq {e.name : e \in entries}
     /\ counted # {}
     /\ \A e \in counted : Covered(e) * 100 >= minimum * e.lines

(* The gate in executeDeployment: `gated` when a minimum is asked for.     *)
CoverageGate(manifest, tests, report, minimum, gated) ==
  LET inventory == Inventory(manifest, tests)
  IN \/ ~gated \/ inventory = NoInventory \/ inventory = {}
     \/ CoverageSuffices(report, minimum, inventory)

-----------------------------------------------------------------------------
(* A manifest maps type names to member sets.                              *)
Merged(manifests) ==
  [t \in UNION {DOMAIN m : m \in manifests} |->
     UNION {m[t] : m \in {x \in manifests : t \in DOMAIN x}}]

(* filterManifestTypes: {} selects every type.                             *)
Filtered(manifest, types) ==
  [t \in (IF types = {} THEN DOMAIN manifest ELSE DOMAIN manifest \cap types) |-> manifest[t]]

IsEmpty(manifest) == \A t \in DOMAIN manifest : manifest[t] = {}

(* Mutant: the manifests of the sources are written as they were generated.*)
DeployableUnfiltered(manifests, types) ==
  [merged |-> Filtered(Merged(Range(manifests)), types),
   sources |-> manifests, empty |-> [i \in DOMAIN manifests |-> IsEmpty(manifests[i])]]

(* generateDeployableManifest: each source is retrieved with its own       *)
(* manifest, and not at all when that is empty; both under the merged one. *)
Deployable(manifests, types) ==
  LET own == [i \in DOMAIN manifests |-> Filtered(manifests[i], types)]
  IN [merged |-> Filtered(Merged(Range(manifests)), types),
      sources |-> own, empty |-> [i \in DOMAIN own |-> IsEmpty(own[i])]]

-----------------------------------------------------------------------------
(* A package.xml: a sequence of entries [type, members].                   *)
Selected(components, type) == {c.name : c \in {x \in Range(components) : x.type = type}}

(* Mutant: every component has an entry of its own.                        *)
RenderedOneByOne(components) ==
  [i \in DOMAIN components |-> [type |-> components[i].type, members |-> {components[i].name}]]

(* normalizeSelectedComponents, renderSelectedManifest: grouped by type.   *)
Rendered(components) ==
  SetToSeq({[type |-> c.type, members |-> Selected(components, c.type)] : c \in Range(components)})

(* parseManifest: of two entries of one type the last one counts.          *)
Parsed(entries) ==
  [t \in {entries[i].type : i \in DOMAIN entries} |->
     entries[CHOOSE i \in DOMAIN entries :
               entries[i].type = t /\ \A j \in DOMAIN entries : entries[j].type = t => j <= i].members]
=============================================================================
