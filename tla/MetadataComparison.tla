--------------------------- MODULE MetadataComparison ---------------------------
(***************************************************************************)
(* The comparison of two snapshots of metadata, from the bottom up.        *)
(*                                                                         *)
(* compareFile: the verdict about one file of a component, and the two     *)
(* comparisons of metadata XML below it: compareXml walks both trees of a  *)
(* small pair, compareLargeXml streams a large pair into digests.  A       *)
(* document is the sequence of the elements of one repeated name under its *)
(* root; elements of different names do not influence each other.  An      *)
(* element is a function from child names to values.                       *)
(*                                                                         *)
(* compareSnapshots: two snapshots retrieved with one manifest are         *)
(* projected (children such as fields live inside the file of their        *)
(* parent), reduced to the selected and not excluded components, and       *)
(* compared component by component, or only listed when there are too many *)
(* files.                                                                  *)
(***************************************************************************)
EXTENDS Naturals, Sequences, FiniteSets, SequencesExt, TLC

CONSTANTS Values, Absent,       \* a value of a child or a member; no such one
          Fields,               \* child names, in the order of the identity keys
          Docs, Layouts, Policy,        \* files: documents and ways of writing them down
          Parents, Members, Singles,    \* names of components
          Everything,                   \* no selection
          Packaged(_),                  \* has the prefix of an excluded namespace (belongsToPackage)
          Orgs, Ids, NoNamespace        \* the orgs, the packages they may have installed

Elements == [Range(Fields) -> Values \cup {Absent}]
Documents(n) == UNION {[1 .. k -> Elements] : k \in 0 .. n}

(* findXmlCollectionPolicy and hasXmlSemanticPolicy: `registered` types    *)
(* have a table of collections; one it does not list is positional, and a  *)
(* type without a table falls back on a list of usual keys.                *)
Policies ==
  [registered : {TRUE}, ordered : BOOLEAN, keys : {{Head(Fields)}, Range(Fields)}]
  \cup [registered : BOOLEAN, ordered : {TRUE}, keys : {{}}]

Generic(policy) == ~policy.registered
Children(e) == {f \in Range(Fields) : e[f] # Absent}

(* findIdentity: all the keys of a collection policy that are there, the   *)
(* first one of the usual keys; {} when there is none.                     *)
Identity(e, policy) ==
  LET keys  == IF Generic(policy) THEN Range(Fields) ELSE policy.keys
      found == SelectSeq(Fields, LAMBDA f : f \in Children(e) \cap keys)
  IN {<<f, e[f]>> : f \in IF Generic(policy) /\ found # <<>> THEN {Head(found)} ELSE Range(found)}

Identities(doc, policy) == {Identity(doc[i], policy) : i \in DOMAIN doc}
Unique(doc, policy) == /\ {} \notin Identities(doc, policy)
                       /\ Cardinality(Identities(doc, policy)) = Len(doc)

ByIdentity(doc, policy, id) == {doc[i] : i \in {k \in DOMAIN doc : Identity(doc[k], policy) = id}}

(* Mutant: one side with unique identities is enough.                      *)
KeyedOnOneSide(left, right, policy) == Unique(left, policy)

(* canMatchByIdentity, uniqueIdentities of both sides.                     *)
Keyed(left, right, policy) == Unique(left, policy) /\ Unique(right, policy)

Reordered(left, right, policy) ==
  /\ policy.ordered
  /\ Len(left) = Len(right) /\ Identities(left, policy) = Identities(right, policy)
  /\ \E i \in DOMAIN left : Identity(left[i], policy) # Identity(right[i], policy)

At(doc, i) == IF i \in DOMAIN doc THEN {doc[i]} ELSE {}

(* Mutant: what only the right side has is not looked for.                 *)
PairsOfLeft(left, right, policy) ==
  IF Keyed(left, right, policy)
  THEN {<<id, ByIdentity(left, policy, id), ByIdentity(right, policy, id)>> : id \in Identities(left, policy)}
  ELSE {<<i, At(left, i), At(right, i)>> : i \in DOMAIN left}

(* The pairs that are compared: by identity, or by position.               *)
Pairs(left, right, policy) ==
  IF Keyed(left, right, policy)
  THEN {<<id, ByIdentity(left, policy, id), ByIdentity(right, policy, id)>> :
          id \in Identities(left, policy) \cup Identities(right, policy)}
  ELSE {<<i, At(left, i), At(right, i)>> : i \in DOMAIN left \cup DOMAIN right}

Kind(before, after) == CASE before = {} -> "ADDED" [] after = {} -> "REMOVED" [] OTHER -> "MODIFIED"

Reordering(left, right, policy) ==
  IF Keyed(left, right, policy) /\ Reordered(left, right, policy) THEN {<<"REORDERED", "order">>} ELSE {}

(* diffValue: a pair of elements is compared child by child, unless one of *)
(* them is a scalar (no child at all).                                     *)
Differing(before, after) ==
  LET b == CHOOSE e \in before : TRUE  a == CHOOSE e \in after : TRUE
  IN IF before = {} \/ after = {} \/ Children(b) = {} \/ Children(a) = {}
     THEN IF before = after THEN {} ELSE {"itself"}
     ELSE {f \in Range(Fields) : b[f] # a[f]}

(* compareXml: diffArray, also for a lone element of a keyed collection; a *)
(* pair of lone elements of another collection is compared directly.       *)
Lone(left, right, policy) == Len(left) <= 1 /\ Len(right) <= 1 /\ policy.keys = {}

TreePairs(left, right, policy) ==
  IF Lone(left, right, policy)
  THEN {<<"lone", At(left, 1), At(right, 1)>>} \ {<<"lone", {}, {}>>}
  ELSE Pairs(left, right, policy)

TreeChanges(left, right, policy) ==
  UNION {{<<Kind(p[2], p[3]), p[1], f>> : f \in Differing(p[2], p[3])} :
           p \in TreePairs(left, right, policy)}
  \cup (IF Lone(left, right, policy) THEN {} ELSE Reordering(left, right, policy))

(* Mutant: the digests of an unordered collection are sorted whether or    *)
(* not its elements can be told apart.                                     *)
SortedDigest(doc, policy) ==
  IF policy.ordered THEN <<"ordered", doc>>
  ELSE <<"sorted", [e \in Range(doc) |-> Cardinality({i \in DOMAIN doc : doc[i] = e})]>>

(* summarizeXml: the digests of a collection are sorted when its order     *)
(* does not count and its elements can be told apart.                      *)
Digest(doc, policy) ==
  IF policy.ordered \/ ~Unique(doc, policy) THEN <<"ordered", doc>>
  ELSE <<"sorted", [e \in Range(doc) |-> Cardinality({i \in DOMAIN doc : doc[i] = e})]>>

(* Two hashes are equal when the hashed sequences are: a sorted one may    *)
(* equal an unsorted one only if both are sorted; digests sort uniformly.  *)
SameDigest(left, right, policy) == Digest(left, policy) = Digest(right, policy)

(* compareLargeXml names elements, not their children.                     *)
StreamChanges(left, right, policy) ==
  IF SameDigest(left, right, policy) THEN {}
  ELSE {<<Kind(p[2], p[3]), p[1]>> : p \in {q \in Pairs(left, right, policy) : q[2] # q[3]}}
       \cup Reordering(left, right, policy)

(* What either comparison has to find: equal sequences, and equal sets for *)
(* a collection without order whose elements can be told apart.            *)
Equivalent(left, right, policy) ==
  \/ left = right
  \/ ~policy.ordered /\ Keyed(left, right, policy) /\ Range(left) = Range(right)

-----------------------------------------------------------------------------
(* Files of more than a megabyte are compared by hashes and streams,       *)
(* smaller ones in memory; the verdict should not depend on which it was.  *)
(* `broken` are bytes that are no UTF-8 text: decoded leniently they all   *)
(* read the same.  `markup` starts with a declaration or the type's tag.   *)
Contents == [doc : Docs, layout : Layouts, eol : {"lf", "crlf"}, broken : 0 .. 2, markup : BOOLEAN]

Decodable(c) == c.broken = 0
Text(c) == [doc |-> c.doc, layout |-> c.layout, replaced |-> c.broken > 0, markup |-> c.markup]

(* detectFileKind on the names' suffixes and what is known of the contents.*)
FileKind(suffix, left, right, readable) ==
  IF suffix = "xml" \/ (left.markup /\ right.markup) THEN "xml"
  ELSE IF suffix = "text" \/ readable THEN "text" ELSE "binary"

Verdict(status, kind, shown) == [status |-> status, kind |-> kind, shown |-> shown]

(* Mutant: a difference of the texts alone leaves nothing to show.         *)
XmlVerdictUnshown(equal, textChanged, diff) ==
  Verdict(IF equal /\ ~textChanged THEN "IDENTICAL" ELSE "MODIFIED", "xml",
          IF equal THEN {} ELSE {"changes"})

XmlVerdict(equal, textChanged, diff) ==
  Verdict(IF equal /\ ~textChanged THEN "IDENTICAL" ELSE "MODIFIED", "xml",
          (IF equal THEN {} ELSE {"changes"}) \cup (IF textChanged THEN {diff} ELSE {}))

(* In memory: contents, then texts decoded leniently, then documents.      *)
SmallVerdict(suffix, strict, left, right) ==
  LET kind == FileKind(suffix, left, right, Decodable(left) /\ Decodable(right))
      same == Text(left) = Text(right)
  IN IF left = right THEN Verdict("IDENTICAL", kind, {})
     ELSE IF kind = "binary" THEN Verdict("MODIFIED", kind, {})
     ELSE IF kind = "xml"
     THEN XmlVerdict((left.broken > 0) = (right.broken > 0)
                       /\ TreeChanges(left.doc, right.doc, Policy) = {}, strict /\ ~same, "diff")
     ELSE IF same THEN Verdict("IDENTICAL", kind, {}) ELSE Verdict("MODIFIED", kind, {"diff"})

(* Mutant: of large files only the bytes are compared.                     *)
BytesVerdict(suffix, strict, prefix, left, right) ==
  LET kind == FileKind(suffix, left, right, prefix)
  IN Verdict(IF left = right THEN "IDENTICAL" ELSE "MODIFIED", kind,
             IF left = right \/ kind = "binary" THEN {} ELSE {"omitted"})

(* By hashes: of the bytes, then of the strictly decoded and normalised    *)
(* text, which also corrects the kind guessed from the first bytes: these  *)
(* may end inside a character, and need not reach what cannot be decoded   *)
(* (`prefix`: they read as text).  XML that differs is streamed.           *)
LargeVerdict(suffix, strict, prefix, left, right) ==
  LET guess    == FileKind(suffix, left, right, prefix)
      readable == Decodable(left) /\ Decodable(right)
      kind     == IF left = right THEN guess
                  ELSE IF ~readable THEN "binary"
                  ELSE IF guess = "binary" THEN "text" ELSE guess
      same     == left = right \/ (readable /\ Text(left) = Text(right))
  IN IF kind = "xml" /\ left # right
     THEN XmlVerdict(SameDigest(left.doc, right.doc, Policy), strict /\ ~same, "omitted")
     ELSE IF same THEN Verdict("IDENTICAL", kind, {})
     ELSE Verdict("MODIFIED", kind, IF kind = "binary" THEN {} ELSE {"omitted"})

-----------------------------------------------------------------------------
(* The projections of a snapshot, and what is compared of them.            *)
ParentKey(p)   == <<"parent", p>>
ChildKey(p, m) == <<"child", p, m>>
SingleKey(s)   == <<"single", s>>
Keys == {ParentKey(p) : p \in Parents} \cup {SingleKey(s) : s \in Singles}
        \cup {ChildKey(p, m) : p \in Parents, m \in Members}

(* A package: the files of the parents with their members, and the rest.   *)
Snapshots == [parent : [Parents -> [Members -> Values \cup {Absent}] \cup {Absent}],
              single : [Singles -> Values \cup {Absent}]]

HasParent(s, p) == s.parent[p] # Absent
HasMember(s, k) == k[1] = "child" /\ HasParent(s, k[2]) /\ s.parent[k[2]][k[3]] # Absent
TypesOf(keys) == {k[1] : k \in keys}

(* filterPackageChildren: the members that are cut out of the copy of a    *)
(* parent; of one that was not selected only those that were.              *)
CutKeys(p, excluded, selected) ==
  IF selected = Everything \/ ParentKey(p) \in selected THEN excluded ELSE excluded \cap selected

WithoutMembers(s, cut) ==
  [s EXCEPT !.parent = [p \in Parents |->
     IF ~HasParent(s, p) THEN Absent
     ELSE [m \in Members |-> IF ChildKey(p, m) \in cut[p] THEN Absent ELSE s.parent[p][m]]]]

(* Mutant: a child the parent of which is compared is left in it.          *)
ProjectionUncut(s, types, excluded, selected) ==
  LET children == "child" \in types  parents == ~children \/ types # {"child"}
  IN [parents |-> parents, children |-> children, content |-> s, source |-> s, filtered |-> {}]

(* projectChildMetadata: children become components of their own when      *)
(* their type is compared; parents come along unless only children are.    *)
Projection(s, types, excluded, selected) ==
  LET children == "child" \in types
      parents  == ~children \/ types # {"child"}
      cut      == [p \in Parents |-> CutKeys(p, excluded, selected)]
  IN [parents |-> parents, children |-> children,
      content |-> IF parents THEN WithoutMembers(s, cut) ELSE s,
      source |-> s,
      filtered |-> IF parents THEN {k \in Keys : HasMember(s, k) /\ k \in cut[k[2]]} ELSE {}]

(* projectFile: the file of a child holds its element and nothing else.    *)
ChildFile(s, k) == <<s.parent[k[2]][k[3]]>>

(* resolveMetadataComponents on the projection: key -> what is compared.   *)
Components(t) ==
  LET keys == {k \in Keys : CASE k[1] = "parent" -> t.parents /\ HasParent(t.content, k[2])
                              [] k[1] = "single" -> t.parents /\ t.content.single[k[2]] # Absent
                              [] OTHER -> t.children /\ HasMember(t.source, k)}
  IN [k \in keys |-> CASE k[1] = "parent" -> t.content.parent[k[2]]
                       [] k[1] = "single" -> <<t.content.single[k[2]]>>
                       [] OTHER -> ChildFile(t.source, k)]

Pick(f, keys) == [k \in DOMAIN f \cap keys |-> f[k]]

(* Mutant: what the left side lacks counts as changed.                     *)
StatusUnpaired(left, right, k) ==
  CASE k \notin DOMAIN left  -> "MODIFIED"
    [] k \notin DOMAIN right -> "REMOVED"
    [] left[k] = right[k]    -> "IDENTICAL"
    [] OTHER                 -> "MODIFIED"

Status(left, right, k) ==
  CASE k \notin DOMAIN left  -> "ADDED"
    [] k \notin DOMAIN right -> "REMOVED"
    [] left[k] = right[k]    -> "IDENTICAL"
    [] OTHER                 -> "MODIFIED"

(* summarize: what is only listed counts in the total alone.               *)
Summary(statuses) ==
  [total |-> Cardinality(DOMAIN statuses)] @@
  [s \in {"ADDED", "REMOVED", "MODIFIED", "IDENTICAL"} |->
     Cardinality({k \in DOMAIN statuses : statuses[k] = s})]

(* comparePreparedSnapshots.  Every component is one file here.            *)
Compare(left, right, o) ==
  LET types == IF o.selected = Everything THEN o.types ELSE TypesOf(o.selected)
      l     == Projection(left, types, o.excluded, o.selected)
      r     == Projection(right, types, o.excluded, o.selected)
      wanted == IF o.selected = Everything THEN Keys ELSE o.selected
      lc    == Pick(Components(l), wanted)
      rc    == Pick(Components(r), wanted)
      out   == {k \in DOMAIN lc \cup DOMAIN rc : k \in o.excluded \/ (o.namespaces /\ Packaged(k))}
      ls    == Pick(lc, Keys \ out)
      rs    == Pick(rc, Keys \ out)
      over  == Cardinality(DOMAIN ls \cup DOMAIN rs) > o.maximum
      statuses == IF over THEN [k \in DOMAIN rs |-> "SOURCE"]
                  ELSE [k \in DOMAIN ls \cup DOMAIN rs |-> Status(ls, rs, k)]
  IN [components |-> statuses, exceeded |-> over, summary |-> Summary(statuses),
      removed |-> Cardinality(out \cup l.filtered \cup r.filtered)]

-----------------------------------------------------------------------------
(* Which components of the installed packages a comparison leaves out:     *)
(* whole namespaces where a namespace tells the package, exact component   *)
(* keys where it does not.                                                 *)

(* What is installed: org -> id -> the package in that org.  `name` and    *)
(* `namespace` are the package's own; `keys` are its components there.     *)
In(installed, id) == {o \in Orgs : id \in DOMAIN installed[o]}
Installed(installed) == {id \in Ids : In(installed, id) # {}}
Spaces(installed, id) == {installed[o][id].namespace : o \in In(installed, id)}
NamesOf(installed, id) == {installed[o][id].name : o \in In(installed, id)}

(* listInstalledPackages refuses a package with two namespaces.            *)
Listable(installed) == \A id \in Installed(installed) : Cardinality(Spaces(installed, id)) = 1
Namespace(installed, id) == CHOOSE n \in Spaces(installed, id) : TRUE

(* Mutant: a namespace is taken to be the package's own.                   *)
SharedNever(installed, id) == FALSE

Shared(installed, id) ==
  \E other \in Installed(installed) \ {id} :
    Namespace(installed, other) = Namespace(installed, id)

(* exclusionUnavailableReason: only its components tell this package.      *)
NeedsComponents(installed, id) == Namespace(installed, id) = NoNamespace \/ Shared(installed, id)

(* Components are retrieved by the package's name.                         *)
Ambiguous(installed, id) ==
  \E other \in Installed(installed) \ {id} :
    /\ NamesOf(installed, other) = NamesOf(installed, id)
    /\ In(installed, other) \cap In(installed, id) # {}

(* retrievePackageComponents: the members of whatever has that name.       *)
Retrieved(installed, org, names) ==
  UNION {installed[org][id].keys : id \in {x \in DOMAIN installed[org] : installed[org][x].name \in names}}

(* Mutant: packages without a namespace are passed over in silence.        *)
ExcludeAllSilently(installed) ==
  [namespaces |-> {Namespace(installed, id) : id \in Installed(installed)} \ {NoNamespace}, keys |-> {},
   unnamespaced |-> {}]

(* resolvePackageExclusion of all packages: namespaces, and the names of   *)
(* those that have none.                                                   *)
ExcludeAll(installed) ==
  [namespaces |-> {Namespace(installed, id) : id \in Installed(installed)} \ {NoNamespace}, keys |-> {},
   unnamespaced |-> {id \in Installed(installed) : Namespace(installed, id) = NoNamespace}]

(* Of the selected ones: `loaded` are those whose components are at hand,  *)
(* in every org they are installed in.                                     *)
Refused(installed, selected, loaded) ==
  \/ ~Listable(installed)
  \/ ~selected \subseteq Installed(installed)
  \/ \E id \in selected : NeedsComponents(installed, id) /\ (Ambiguous(installed, id) \/ id \notin loaded)

ExcludeSelected(installed, selected) ==
  LET exact == {id \in selected : NeedsComponents(installed, id)}
  IN [namespaces |-> {Namespace(installed, id) : id \in selected \ exact} \ {NoNamespace},
      keys |-> UNION {UNION {Retrieved(installed, o, NamesOf(installed, id)) : o \in In(installed, id)} : id \in exact},
      unnamespaced |-> {}]

(* A component as its full name tells it: `namespace` is that of its last  *)
(* part, `within` that of what comes before it, if anything does.          *)
(* Mutant: the first part counts, so that what a managed parent contains   *)
(* is taken for the package's own.                                         *)
FirstPart(c) == IF c.within = NoNamespace THEN c.namespace ELSE c.within

(* belongsToPackage: of the types that have parents or folders the last    *)
(* part counts, of any other type a name of one part.                      *)
MemberNamespace(c) == IF c.type = "other" /\ c.within # NoNamespace THEN NoNamespace ELSE c.namespace

(* compareSnapshots: the prefix of the member, or the exact key.           *)
LeavesOut(exclusion, c) ==
  \/ MemberNamespace(c) # NoNamespace /\ MemberNamespace(c) \in exclusion.namespaces
  \/ c.key \in exclusion.keys
=============================================================================
