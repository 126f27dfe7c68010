------------------------------- MODULE Patcher --------------------------------
(***************************************************************************)
(* The patch between two policies (internal/aclmodel/patch.go): Plan       *)
(* compares the document with what the editor sent and lists operations of *)
(* a JSON patch, which Apply carries out one by one on the syntax tree.    *)
(*                                                                         *)
(* A document is a function on the keys it has; a value is PtNull, a       *)
(* sequence or a function of nodes, or a node.  A node is what it says and *)
(* whether it is still the one that was read, with its comments.  The      *)
(* lists of the policy are handled alike, and so are its objects: acls and *)
(* groups stand for them.  A rule is its fingerprint.                      *)
(***************************************************************************)
EXTENDS Lists, SequencesExt

CONSTANTS
  PtNull,    \* null, as the value of a key
  PtRules,   \* fingerprints of rules
  PtNames,   \* names of groups and prefixes of routes
  PtOwners,  \* what an entry or the exit node says
  PtCases    \* inputs: documents, each with what the editor sends

VARIABLE ptSave  \* the save under way, if any: what was read and asked, the patched document, the operations left

Node(is) == [is |-> is, old |-> FALSE]
PtHas(d, k) == k \in DOMAIN d /\ d[k] # PtNull
PtWith(d, k, v) == [x \in DOMAIN d \cup {k} |-> IF x = k THEN v ELSE d[x]]
PtWithout(d, k) == [x \in DOMAIN d \ {k} |-> d[x]]
PtIs(nodes) == [k \in DOMAIN nodes |-> nodes[k].is]

\* What a key may have as its value, and what was read and sent.
PtNodes(S) == [is : S, old : BOOLEAN]
PtMaps(S) == UNION {[names -> S] : names \in SUBSET PtNames}
PtKeys == {"acls", "groups", "autoApprovers", "routes", "exitNode", "randomize"}
PtValues(k) ==
  CASE k = "acls" -> Seq(PtNodes(PtRules))
    [] k \in {"groups", "routes"} -> PtMaps(PtNodes(PtOwners))
    [] k = "exitNode" -> PtNodes(PtOwners)
    [] k = "randomize" -> PtNodes(BOOLEAN)
    [] k = "autoApprovers" -> {<<>>}

PtDocument(d) ==
  /\ d = [k \in DOMAIN d |-> d[k]] /\ DOMAIN d \subseteq PtKeys
  /\ \A k \in DOMAIN d : d[k] = PtNull \/ d[k] \in PtValues(k)
  /\ DOMAIN d \cap {"routes", "exitNode"} # {} => PtHas(d, "autoApprovers")

\* All its nodes are the ones that were read.
PtAllOld(d) == PtHas(d, "acls") => \A i \in DOMAIN d.acls : d.acls[i].old

PtInput(in) ==
  /\ in.rules # <<>> => in.rules[1] \in Seq([is : PtRules, enabled : BOOLEAN])
  /\ in.groups # <<>> => in.groups[1] \in PtMaps(PtOwners)
  /\ in.approvers # <<>> => in.approvers[1] \in [routes : PtMaps(PtOwners), exitNode : PtOwners]
  /\ in.randomize # <<>> => in.randomize[1] \in BOOLEAN

ASSUME PatcherAssumption ==
  /\ IsFiniteSet(PtNames) /\ \A k \in PtKeys : PtNull \notin PtValues(k)
  /\ \A c \in PtCases : PtDocument(c.doc) /\ PtAllOld(c.doc) /\ PtInput(c.in)

\* The model of a document: absent, null and empty sections are the same.
PtModel(d) ==
  [acls |-> IF PtHas(d, "acls") THEN PtIs(d.acls) ELSE <<>>,
   groups |-> IF PtHas(d, "groups") THEN PtIs(d.groups) ELSE <<>>,
   routes |-> IF PtHas(d, "routes") THEN PtIs(d.routes) ELSE <<>>,
   exitNode |-> IF PtHas(d, "exitNode") THEN d.exitNode.is ELSE {},
   randomize |-> PtHas(d, "randomize") /\ d.randomize.is]

\* What the editor sent of a section, if it sent it: disabled rules are not
\* part of the policy.
PtEnabled(rules) == PtIs(Sublist(rules, {i \in DOMAIN rules : rules[i].enabled}))

\* ModelFromInput: sections that were not sent are kept.
PtRequested(d, in) ==
  LET was == PtModel(d)
  IN  [acls |-> IF in.rules # <<>> THEN PtEnabled(in.rules[1]) ELSE was.acls,
       groups |-> IF in.groups # <<>> THEN in.groups[1] ELSE was.groups,
       routes |-> IF in.approvers # <<>> THEN in.approvers[1].routes ELSE was.routes,
       exitNode |-> IF in.approvers # <<>> THEN in.approvers[1].exitNode ELSE was.exitNode,
       randomize |-> IF in.randomize # <<>> THEN in.randomize[1] ELSE was.randomize]

-----------------------------------------------------------------------------
(* Planning.                                                               *)

Op(do, path, value) == [do |-> do, path |-> path, value |-> value]

\* The cells of the table: a place of each list, up to one past its end.
Cells(a, b) == (1..Len(a) + 1) \X (1..Len(b) + 1)
AtEnd(a, b, c) == c[1] > Len(a) \/ c[2] > Len(b)
Both(c) == <<c[1] + 1, c[2] + 1>>
Below(c) == <<c[1] + 1, c[2]>>
Beside(c) == <<c[1], c[2] + 1>>

\* Mutant of Lcs: each element is kept at the first place that is left for it.
LcsGreedy(a, b) ==
  LET kept[c \in Cells(a, b)] ==
        IF AtEnd(a, b, c) THEN {}
        ELSE IF a[c[1]] = b[c[2]] THEN {c} \cup kept[Both(c)]
        ELSE IF \E k \in c[2]..Len(b) : a[c[1]] = b[k] THEN kept[Beside(c)] ELSE kept[Below(c)]
  IN  kept[<<1, 1>>]

\* lcs: the pairs of indices of one longest common subsequence.
Lengths(a, b) ==
  LET dp[c \in Cells(a, b)] ==
        IF AtEnd(a, b, c) THEN 0
        ELSE IF a[c[1]] = b[c[2]] THEN dp[Both(c)] + 1
        ELSE IF dp[Below(c)] >= dp[Beside(c)] THEN dp[Below(c)] ELSE dp[Beside(c)]
  IN  dp

Lcs(a, b) ==
  LET dp == Lengths(a, b)
      kept[c \in Cells(a, b)] ==
        IF AtEnd(a, b, c) THEN {}
        ELSE IF a[c[1]] = b[c[2]] THEN {c} \cup kept[Both(c)]
        ELSE IF dp[Below(c)] >= dp[Beside(c)] THEN kept[Below(c)] ELSE kept[Beside(c)]
  IN  kept[<<1, 1>>]

\* Mutant of RemoveOps: in the order of the list.
RemoveOpsAscending(k, gone) ==
  [n \in 1..Cardinality(gone) |-> Op("remove", <<k, NthOf(gone, n)>>, <<>>)]

\* diffSeq: removals from the end, then additions from the front.
RemoveOps(k, gone) ==
  [n \in 1..Cardinality(gone) |-> Op("remove", <<k, NthOf(gone, Cardinality(gone) + 1 - n)>>, <<>>)]
AddOps(k, fresh, new) ==
  [n \in 1..Cardinality(fresh) |-> Op("add", <<k, NthOf(fresh, n)>>, Node(new[NthOf(fresh, n)]))]

DiffSeq(k, d, new) ==
  IF ~PtHas(d, k)
  THEN IF new = <<>> THEN <<>> ELSE <<Op("add", <<k>>, [j \in DOMAIN new |-> Node(new[j])])>>
  ELSE LET kept == Lcs(PtIs(d[k]), new)
       IN  RemoveOps(k, {i \in DOMAIN d[k] : \A p \in kept : p[1] # i})
           \o AddOps(k, {j \in DOMAIN new : \A p \in kept : p[2] # j}, new)

\* diffListMap, diffStringMap: the order of the keys does not matter.
DiffMap(k, d, new) ==
  IF ~PtHas(d, k)
  THEN IF DOMAIN new = {} THEN <<>> ELSE <<Op("add", <<k>>, [n \in DOMAIN new |-> Node(new[n])])>>
  ELSE LET gone == SetToSeq(DOMAIN d[k] \ DOMAIN new)
           set == SetToSeq({n \in DOMAIN new : n \in DOMAIN d[k] => d[k][n].is # new[n]})
       IN  [i \in DOMAIN gone |-> Op("remove", <<k, gone[i]>>, <<>>)]
           \o [i \in DOMAIN set |-> Op(IF set[i] \in DOMAIN d[k] THEN "replace" ELSE "add", <<k, set[i]>>, Node(new[set[i]]))]

\* diffAutoApprovers: a new section holds its non-empty members only.
DiffApprovers(d, new) ==
  LET members == (IF DOMAIN new.routes = {} THEN {} ELSE {"routes"}) \cup (IF new.exitNode = {} THEN {} ELSE {"exitNode"})
      fresh == [k \in members |-> IF k = "exitNode" THEN Node(new.exitNode)
                                  ELSE [n \in DOMAIN new.routes |-> Node(new.routes[n])]]
      was == IF PtHas(d, "exitNode") THEN d.exitNode.is ELSE {}
  IN  IF ~PtHas(d, "autoApprovers")
      THEN IF members = {} THEN <<>> ELSE <<Op("add", <<"autoApprovers">>, fresh)>>
      ELSE (IF "routes" \in DOMAIN d /\ d.routes = PtNull /\ "routes" \in members
            THEN <<Op("replace", <<"routes">>, fresh.routes)>>
            ELSE DiffMap("routes", d, new.routes))
           \o (IF "exitNode" \in DOMAIN d
               THEN IF was # new.exitNode THEN <<Op("replace", <<"exitNode">>, Node(new.exitNode))>> ELSE <<>>
               ELSE IF "exitNode" \in members THEN <<Op("add", <<"exitNode">>, Node(new.exitNode))>> ELSE <<>>)

\* FALSE is written by dropping the key.
DiffRandomize(d, want) ==
  IF want
  THEN IF ~PtHas(d, "randomize") THEN <<Op("add", <<"randomize">>, Node(TRUE))>>
       ELSE IF d.randomize.is THEN <<>> ELSE <<Op("replace", <<"randomize">>, Node(TRUE))>>
  ELSE IF PtHas(d, "randomize") THEN <<Op("remove", <<"randomize">>, <<>>)>> ELSE <<>>

Plan(d, in) ==
  (IF in.groups = <<>> THEN <<>> ELSE DiffMap("groups", d, in.groups[1]))
  \o (IF in.rules = <<>> THEN <<>> ELSE DiffSeq("acls", d, PtEnabled(in.rules[1])))
  \o (IF in.approvers = <<>> THEN <<>> ELSE DiffApprovers(d, in.approvers[1]))
  \o (IF in.randomize = <<>> THEN <<>> ELSE DiffRandomize(d, in.randomize[1]))

-----------------------------------------------------------------------------
(* Applying: RFC 6902, as the library does it.  A member of autoApprovers  *)
(* needs it, an index or key to remove or replace must exist, "add" on an  *)
(* existing key replaces it.  Indices are those of sequences.              *)

Applicable(d, o) ==
  LET k == o.path[1]
  IN  IF Len(o.path) = 1
      THEN /\ k \in {"routes", "exitNode"} => PtHas(d, "autoApprovers")
           /\ o.do # "add" => k \in DOMAIN d
      ELSE /\ PtHas(d, k)
           /\ IF k = "acls" THEN o.path[2] \in 1..(Len(d.acls) + (IF o.do = "add" THEN 1 ELSE 0))
              ELSE o.do # "add" => o.path[2] \in DOMAIN d[k]

Applied(d, o) ==
  LET k == o.path[1]
  IN  IF Len(o.path) = 1
      THEN IF o.do = "remove" THEN PtWithout(d, k)
           ELSE IF k = "autoApprovers"
           THEN [x \in DOMAIN d \cup {k} \cup DOMAIN o.value |->
                   IF x = k THEN <<>> ELSE IF x \in DOMAIN o.value THEN o.value[x] ELSE d[x]]
           ELSE PtWith(d, k, o.value)
      ELSE [d EXCEPT ![k] = IF k = "acls"
                            THEN IF o.do = "remove" THEN RemoveAt(@, o.path[2]) ELSE InsertAt(@, o.path[2], o.value)
                            ELSE IF o.do = "remove" THEN PtWithout(@, o.path[2]) ELSE PtWith(@, o.path[2], o.value)]

-----------------------------------------------------------------------------
PtInit == ptSave = <<>>

\* ParseDocument and Plan, in SaveModel.
PtPlan ==
  /\ ptSave = <<>>
  /\ \E c \in PtCases : ptSave' = <<[was |-> c.doc, in |-> c.in, doc |-> c.doc, ops |-> Plan(c.doc, c.in)]>>

PtApply ==
  /\ ptSave # <<>> /\ ptSave[1].ops # <<>> /\ Applicable(ptSave[1].doc, Head(ptSave[1].ops))
  /\ ptSave' = <<[ptSave[1] EXCEPT !.doc = Applied(@, Head(ptSave[1].ops)), !.ops = Tail(@)]>>

\* The document is checked and saved.
PtDone == ptSave # <<>> /\ ptSave[1].ops = <<>> /\ ptSave' = <<>>

PtNext == PtPlan \/ PtApply \/ PtDone
PtSpec == PtInit /\ [][PtNext]_ptSave

-----------------------------------------------------------------------------
\* "Never ship a document that differs from what the user reviewed" (model.go):
\* every operation of a plan applies where those before it have left the
\* document, and together they give what was asked for, section by section.
\* SaveModel's two internal errors do not happen.
PatchGivesRequest ==
  ptSave # <<>> =>
    /\ ptSave[1].ops # <<>> => Applicable(ptSave[1].doc, Head(ptSave[1].ops))
    /\ ptSave[1].ops = <<>> => PtModel(ptSave[1].doc) = PtRequested(ptSave[1].was, ptSave[1].in)

\* The old elements with these indices could stay where they are.
CouldStay(old, new, at) ==
  \E to \in [at -> DOMAIN new] :
    /\ \A i \in at : new[to[i]] = old[i]
    /\ \A i, j \in at : i < j => to[i] < to[j]

\* "Untouched keys and rules emit no operation, so their comments survive"
\* (patch.go): of a list as many elements stay as can stay in any way; an entry
\* with the same value stays; sections that were not sent stay as they are.
\* randomizeClientPort is excused: an explicit false is dropped.
UntouchedStays ==
  ptSave # <<>> /\ ptSave[1].ops = <<>> =>
    LET was == ptSave[1].was
        doc == ptSave[1].doc
        in == ptSave[1].in
        want == PtRequested(was, in)
        staying == {i \in DOMAIN doc.acls : doc.acls[i].old}
    IN  /\ \A k \in {"groups", "routes"} : PtHas(was, k) =>
             \A n \in DOMAIN was[k] \cap DOMAIN want[k] : was[k][n].is = want[k][n] => doc[k][n] = was[k][n]
        /\ PtHas(was, "exitNode") /\ was.exitNode.is = want.exitNode => doc.exitNode = was.exitNode
        /\ PtHas(was, "acls") =>
             \A at \in SUBSET DOMAIN was.acls :
               CouldStay(PtIs(was.acls), want.acls, at) => Cardinality(at) <= Cardinality(staying)
        /\ in.rules = <<>> /\ "acls" \in DOMAIN was => doc.acls = was.acls
        /\ in.groups = <<>> /\ "groups" \in DOMAIN was => doc.groups = was.groups
=============================================================================
