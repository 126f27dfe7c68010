------------------------------- MODULE MCPanel --------------------------------
(* The smaller components side by side: a behaviour picks one of them at     *)
(* first, and only that one moves.                                           *)
EXTENDS MCDraft, RawEditor, NodePages, Sessions, HealthMonitor, RuleForm, Patcher, KeysPage

VARIABLE shown  \* the component that moves

panelVars == <<shown, editorVars, rawVars, ndVars, sesVars, hmVars, rfVars, ptSave, kpVars>>

PanelInit ==
  /\ shown \in {"editor", "raw", "nodes", "session", "health", "form", "patch", "keys"}
  /\ EditorInit /\ RawInit /\ SesInit /\ RfInit /\ PtInit
  /\ IF shown = "nodes" THEN NdInit ELSE NdInit /\ ndNode.approved = {}
  /\ IF shown = "health" THEN HmInit ELSE HmInit /\ hmActual = "up"
  /\ KpInit /\ kpOwn = "k1"

Editor(A)  == shown = "editor"  /\ A /\ UNCHANGED <<shown, rawVars, ndVars, sesVars, hmVars, rfVars, ptSave, kpVars>>
Raw(A)     == shown = "raw"     /\ A /\ UNCHANGED <<shown, editorVars, ndVars, sesVars, hmVars, rfVars, ptSave, kpVars>>
Nodes(A)   == shown = "nodes"   /\ A /\ UNCHANGED <<shown, editorVars, rawVars, sesVars, hmVars, rfVars, ptSave, kpVars>>
Session(A) == shown = "session" /\ A /\ UNCHANGED <<shown, editorVars, rawVars, ndVars, hmVars, rfVars, ptSave, kpVars>>
Health(A)  == shown = "health"  /\ A /\ UNCHANGED <<shown, editorVars, rawVars, ndVars, sesVars, rfVars, ptSave, kpVars>>
Form(A)    == shown = "form"    /\ A /\ UNCHANGED <<shown, editorVars, rawVars, ndVars, sesVars, hmVars, ptSave, kpVars>>
Patch(A)   == shown = "patch"   /\ A /\ UNCHANGED <<shown, editorVars, rawVars, ndVars, sesVars, hmVars, rfVars, kpVars>>
Keys(A)    == shown = "keys"    /\ A /\ UNCHANGED <<shown, editorVars, rawVars, ndVars, sesVars, hmVars, rfVars, ptSave>>

PanelNext ==
  \/ Editor(EditorNext) \/ Raw(RawNext) \/ Nodes(NdNext) \/ Session(SesNext) \/ Health(HmNext)
  \/ Form(RfNext) \/ Patch(PtNext) \/ Keys(KpNext)

Answering(t) == SesLookup(t) \/ SesDrop(t) \/ SesRenew(t) \/ SesLogout(t) \/ SesLogin(t)
Probing(p) == HmVersion(p) \/ HmHealth(p) \/ HmEnd(p)

\* The fairness of the components.  Steps of different components are never
\* enabled together, so they share a conjunct: TLC's work doubles with each
\* strong one.
PanelFairness ==
  /\ SF_panelVars(Editor(ServeFetch) \/ Raw(RawServePoll) \/ Session(Answering("t1")))
  /\ SF_panelVars(Editor(FetchArrives) \/ Raw(RawPollArrives) \/ Session(SesAnswered("t1")))
  /\ SF_panelVars(Session(Answering("t2")))
  /\ SF_panelVars(Session(SesAnswered("t2")))
  /\ WF_panelVars(Editor(StartFetch) \/ Raw(RawStartPoll) \/ Session(SesAsk("t1")) \/ Health(HmTick))
  /\ WF_panelVars(Editor(ServeSave) \/ Raw(RawChecked) \/ Session(SesPoll("t1")) \/ Health(Probing(HmTicker)))
  /\ WF_panelVars(Editor(SaveAnswered) \/ Raw(RawPut) \/ Session(SesAsk("t2")) \/ Health(Probing("t1")))
  /\ WF_panelVars(Raw(RawSaved \/ RawSaveFailed) \/ Session(SesPoll("t2")) \/ Health(Probing("t2")))
  /\ WF_panelVars(Health(HmPoll("t1"))) /\ WF_panelVars(Health(HmPoll("t2")))

PanelSpec == PanelInit /\ [][PanelNext]_panelVars /\ PanelFairness

-----------------------------------------------------------------------------
(* The liveness properties, each for the behaviours of its component.        *)

\* DraftCatchesUp: a structured editor that is left alone ends up on the
\* server's policy.
EditorCatchesUp == shown = "editor" => DraftCatchesUp

\* RawEditorFollows: a pristine raw editor ends up on the server's policy.
RawFollows == shown = "raw" => RawEditorFollows

\* TabsLeaveWithTheirSession: a tab whose session is gone shows the login.
TabsLeave == shown = "session" => TabsLeaveWithTheirSession

\* BannerSettles: the banner of every tab ends up showing headscale's state.
BannersSettle == shown = "health" => BannerSettles

-----------------------------------------------------------------------------
\* Rules of one to three destinations, some with a target listed twice.
SmallEntries == [target : {"a", "b"}, ports : {{"22"}, {"443"}, {"22", "443"}, {"*"}}]
SmallDestinations ==
  {<<d>> : d \in SmallEntries} \cup {<<d, e>> : d, e \in SmallEntries}
  \cup {<<[target |-> "a", ports |-> {"22"}], d, [target |-> "a", ports |-> {"443"}]>> : d \in SmallEntries}
SmallRules == [proto : {"tcp", "icmp"}, dst : SmallDestinations]

\* Patches: the rules, the groups or the approvers vary while the rest is sent
\* as it was read, and some patches of several sections.
AsRead(v) == [k \in DOMAIN v |-> [is |-> v[k], old |-> TRUE]]
Rules(s) == [i \in DOMAIN s |-> [is |-> s[i], enabled |-> TRUE]]
Variants(doc, k, values) == {PtWithout(doc, k), PtWith(doc, k, PtNull)} \cup {PtWith(doc, k, v) : v \in values}
Optional(values) == {<<>>} \cup {<<v>> : v \in values}

SmallLists == SeqOf({"a", "b"}, 4) \cup SeqOf({"a", "b", "c"}, 3)
SmallMaps == UNION {[ks -> {{U1}, {U2}}] : ks \in SUBSET {G1, G2}}
SmallApprovers == [routes : UNION {[ks -> {{U1}, {U2}}] : ks \in SUBSET {"net"}}, exitNode : SUBSET {U1}]

ReadDoc == [acls |-> AsRead(<<"a", "b">>), groups |-> AsRead(G1 :> {U1}), autoApprovers |-> <<>>]
SentBack == [rules |-> <<Rules(<<"a", "b">>)>>, groups |-> <<G1 :> {U1}>>,
             approvers |-> <<[routes |-> <<>>, exitNode |-> {}]>>, randomize |-> <<FALSE>>]

RuleCases == [doc : Variants(ReadDoc, "acls", {AsRead(s) : s \in SmallLists}),
              in : {[SentBack EXCEPT !.rules = r] : r \in Optional({Rules(s) : s \in SmallLists})}]
GroupCases == [doc : Variants(ReadDoc, "groups", {AsRead(m) : m \in SmallMaps}),
               in : {[SentBack EXCEPT !.groups = m] : m \in Optional(SmallMaps)}]
ApproverDocs ==
  Variants(ReadDoc, "autoApprovers", {})
  \cup UNION {Variants(d, "exitNode", {[is |-> x, old |-> TRUE] : x \in SUBSET {U1}}) :
                d \in Variants(ReadDoc, "routes", {AsRead(m) : m \in {<<>>, "net" :> {U1}, "net" :> {U2}}})}
ApproverCases == [doc : ApproverDocs, in : {[SentBack EXCEPT !.approvers = a] : a \in Optional(SmallApprovers)}]
MixedCases ==
  [doc : Variants(ReadDoc, "randomize", {[is |-> v, old |-> TRUE] : v \in BOOLEAN}),
   in : {[rules |-> <<[Rules(<<"b", "a", "c">>) EXCEPT ![i].enabled = FALSE]>>, groups |-> <<m>>,
          approvers |-> <<a>>, randomize |-> v] :
           i \in 1..3, m \in SmallMaps, a \in SmallApprovers, v \in Optional(BOOLEAN)}]
RuleNames == {"a", "b", "c"}
EntryNames == {G1, G2, "net"}
Owners == SUBSET {U1, U2}
SmallCases == RuleCases \cup GroupCases \cup ApproverCases \cup MixedCases
=============================================================================
