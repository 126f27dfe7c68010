------------------------------ MODULE PanelProofs ------------------------------
(***************************************************************************)
(* The smaller parts of the panel, each for any number of tabs, requests   *)
(* and changes from outside.  The machine pages: a write makes of what the *)
(* user saw what the user confirmed, and a page never falls behind its own *)
(* changes.  Sessions: logging out is final.  API keys: Head-Control's own *)
(* key is ended by those only who typed its prefix.  Rule forms: what is   *)
(* submitted reaches what the form shows.                                  *)
(***************************************************************************)
EXTENDS NodePages, Sessions, KeysPage, RuleForm, FiniteSetTheorems, TLAPS, ListProofs

-----------------------------------------------------------------------------
(* The machine pages.                                                      *)

\* The exit routes come and go together.
Pairs == {routes \in SUBSET NdRoutes : NdPaired(routes) = routes}

Node == [alive : BOOLEAN, available : SUBSET NdRoutes, approved : Pairs,
         tags : NdTagSets, name : NdNames, at : Nat]
Maybe(S) == {<<>>} \cup {<<x>> : x \in S}

Form == [node : Node, ticked : Pairs, sent : BOOLEAN]

\* Approve and revoke lead from the expected set to the goal.
RouteCall == {c \in [step : {"routes", "replace"}, approve : SUBSET NdRoutes, revoke : SUBSET NdRoutes,
                     expected : Pairs, goal : Pairs, read : SUBSET NdRoutes] :
                /\ c.approve = c.goal \ c.expected /\ c.revoke = c.expected \ c.goal
                /\ c.step = "replace" => c.read = c.expected}
OtherCall == [step : {"name"}, value : NdNames] \cup [step : {"tags"}, value : NdTagSets] \cup [step : {"delete"}]
Answer == [step : {"ok"}, at : Nat] \cup [step : {"conflict", "failed"}]
Call == RouteCall \cup OtherCall \cup Answer

NdTyped ==
  /\ ndNode \in Node
  /\ ndSeen \in [NdTabs -> Maybe(Node)]
  /\ ndPoll \in [NdTabs -> Maybe(Maybe(Node))]
  /\ ndForm \in [NdTabs -> Maybe(Form)]
  /\ ndCall \in [NdTabs -> Maybe(Call)]
  /\ ndOwn \in [NdTabs -> Nat]

\* A tab knows of no change that is not in the node, and no poll it waits for
\* read the node before the tab's own last change.
NdInOrder ==
  \A t \in NdTabs :
    /\ ndOwn[t] <= ndNode.at
    /\ (ndPoll[t] # <<>> /\ ndPoll[t][1] # <<>>) => ndPoll[t][1][1].at >= ndOwn[t]
    /\ (ndCall[t] # <<>> /\ ndCall[t][1].step = "ok") => ndCall[t][1].at <= ndNode.at

NdInv == NdTyped /\ NdInOrder

-----------------------------------------------------------------------------
(* Sets of routes.                                                         *)

LEMMA RoutesAreFinite == \A routes \in SUBSET NdRoutes : IsFiniteSet(routes)
  <1>1. IsFiniteSet(NdExit)
    <2>1. NdExit = ({} \cup {"0.0.0.0/0"}) \cup {"::/0"}  BY DEF NdExit
    <2>. QED  BY <2>1, FS_EmptySet, FS_AddElement
  <1>2. IsFiniteSet(NdRoutes)
    BY <1>1, NdAssumption, FS_Union DEF NdRoutes
  <1>. QED  BY <1>2, FS_Subset

\* sameRouteSet tells sets apart.
LEMMA SameSetIsEqual ==
  ASSUME NEW a \in SUBSET NdRoutes, NEW b \in SUBSET NdRoutes, NdSameRouteSet(a, b)
  PROVE  a = b
  <1>1. IsFiniteSet(a)  BY RoutesAreFinite
  <1>. QED  BY <1>1, FS_Subset DEF NdSameRouteSet

LEMMA PairedIsClosed ==
  ASSUME NEW routes \in SUBSET NdRoutes
  PROVE  NdPaired(routes) \in Pairs
  BY DEF NdPaired, Pairs, NdRoutes

\* A tick, and a change from outside, keep pairs.
LEMMA ToggleKeepsPairs ==
  ASSUME NEW routes \in Pairs, NEW r \in NdRoutes
  PROVE  NdToggled(routes, NdBox(r)) \in Pairs
  <1>1. CASE r \in NdExit  BY <1>1 DEF NdToggled, NdBox, NdPaired, Pairs, NdRoutes
  <1>2. CASE r \notin NdExit  BY <1>2 DEF NdToggled, NdBox, NdPaired, Pairs, NdRoutes
  <1>. QED  BY <1>1, <1>2

\* The merge of what the user saw with approve and revoke is what the user
\* confirmed, exit routes included.
LEMMA MergeIsGoal ==
  ASSUME NEW goal \in Pairs, NEW seen \in Pairs
  PROVE  NdPaired(NdDesired(seen, goal \ seen, seen \ goal)) = goal
  <1>1. NdPaired(goal \ seen) = goal \ seen /\ NdPaired(seen \ goal) = seen \ goal
    BY DEF NdPaired, Pairs
  <1>2. NdDesired(seen, goal \ seen, seen \ goal) = goal
    BY <1>1 DEF NdDesired
  <1>. QED  BY <1>2 DEF Pairs

LEMMA ToggledIsSubset ==
  ASSUME NEW routes \in SUBSET NdRoutes, NEW r \in NdRoutes
  PROVE  NdToggled(routes, NdBox(r)) \in SUBSET NdRoutes
  BY DEF NdToggled, NdBox, NdRoutes

-----------------------------------------------------------------------------
(* The steps.                                                              *)

LEMMA NodeInit == NdInit => NdInv
  <1>. SUFFICES ASSUME NdInit PROVE NdInv
    OBVIOUS
  <1>1. PICK approved \in Pairs : ndNode = [alive |-> TRUE, available |-> NdRoutes, approved |-> approved,
                                            tags |-> NdNoTags, name |-> NdName, at |-> 0]
    BY PairedIsClosed DEF NdInit
  <1>2. ndNode \in Node  BY <1>1, NdAssumption DEF Node
  <1>. QED  BY <1>1, <1>2 DEF NdInit, NdInv, NdTyped, NdInOrder, Maybe

LEMMA Polling ==
  ASSUME NdInv, NEW t \in NdTabs, NdStartPoll(t) \/ NdServePoll(t) \/ NdPollArrives(t) \/ NdPollFails(t)
  PROVE  NdInv'
  <1>. USE DEF NdInv, NdTyped, NdInOrder
  <1>1. UNCHANGED <<ndNode, ndForm, ndCall, ndOwn>>
    BY DEF NdStartPoll, NdServePoll, NdPollArrives, NdPollFails
  <1>2. CASE NdStartPoll(t)
    BY <1>1, <1>2 DEF NdStartPoll, Maybe
  <1>3. CASE NdServePoll(t)
    <2>1. ndNode \in Node /\ ndNode.at >= ndOwn[t]  BY DEF Node
    <2>2. ndPoll' = [ndPoll EXCEPT ![t] = <<<<ndNode>>>>] /\ ndSeen' = ndSeen  BY <1>3 DEF NdServePoll
    <2>3. <<<<ndNode>>>> \in Maybe(Maybe(Node))  BY <2>1 DEF Maybe
    <2>4. ndPoll' \in [NdTabs -> Maybe(Maybe(Node))]  BY <2>2, <2>3
    <2>. QED  BY <1>1, <2>1, <2>2, <2>4
  <1>4. CASE NdPollArrives(t)
    <2>1. ndPoll[t][1] \in Maybe(Node)  BY <1>4 DEF NdPollArrives, Maybe
    <2>. QED  BY <1>1, <1>4, <2>1 DEF NdPollArrives, Maybe
  <1>5. CASE NdPollFails(t)
    BY <1>1, <1>5 DEF NdPollFails, Maybe
  <1>. QED  BY <1>2, <1>3, <1>4, <1>5

LEMMA Dialogs ==
  ASSUME NdInv, NEW t \in NdTabs, NdOpenRoutes(t) \/ NdTick(t) \/ NdClose(t)
  PROVE  NdInv'
  <1>. USE DEF NdInv, NdTyped, NdInOrder
  <1>1. UNCHANGED <<ndNode, ndSeen, ndPoll, ndCall, ndOwn>>
    BY DEF NdOpenRoutes, NdTick, NdClose, ndPage
  <1>2. CASE NdOpenRoutes(t)
    <2>1. ndSeen[t][1] \in Node  BY <1>2 DEF NdOpenRoutes, NdShows, Maybe
    <2>2. [node |-> ndSeen[t][1], ticked |-> ndSeen[t][1].approved, sent |-> FALSE] \in Form
      BY <2>1 DEF Form, Node
    <2>. QED  BY <1>1, <1>2, <2>2 DEF NdOpenRoutes, Maybe
  <1>3. CASE NdTick(t)
    <2>1. PICK f \in Form : ndForm[t] = <<f>>  BY <1>3 DEF NdTick, Maybe
    <2>2. PICK r \in NdListed(ndForm[t][1].node) : ndForm' = [ndForm EXCEPT ![t][1].ticked = NdToggled(@, NdBox(r))]
      BY <1>3 DEF NdTick
    <2>3. r \in NdRoutes  BY <2>1, <2>2 DEF NdListed, Form, Node, Pairs
    <2>4. NdToggled(f.ticked, NdBox(r)) \in Pairs  BY <2>1, <2>3, ToggleKeepsPairs DEF Form
    <2>5. [f EXCEPT !.ticked = NdToggled(f.ticked, NdBox(r))] \in Form  BY <2>1, <2>4 DEF Form
    <2>6. ndForm'[t] = <<[f EXCEPT !.ticked = NdToggled(f.ticked, NdBox(r))]>>
      <3>1. ndForm'[t] = [<<f>> EXCEPT ![1].ticked = NdToggled(@, NdBox(r))]  BY <2>1, <2>2
      <3>. QED  BY <3>1
    <2>7. ndForm' \in [NdTabs -> Maybe(Form)]  BY <2>2, <2>5, <2>6 DEF Maybe
    <2>. QED  BY <1>1, <2>7
  <1>4. CASE NdClose(t)
    BY <1>1, <1>4 DEF NdClose, Maybe
  <1>. QED  BY <1>2, <1>3, <1>4

LEMMA SetInOne ==
  ASSUME NEW f, NEW x
  PROVE  [<<f>> EXCEPT ![1].sent = x] = <<[f EXCEPT !.sent = x]>>
  OBVIOUS

LEMMA Sending ==
  ASSUME NdInv, NEW t \in NdTabs, NEW node \in Node, NEW goal \in Pairs, NdSend(t, node, goal)
  PROVE  /\ ndCall' \in [NdTabs -> Maybe(Call)]
         /\ ndCall'[t][1].step = "routes" /\ \A u \in NdTabs \ {t} : ndCall'[u] = ndCall[u]
  <1>. DEFINE c == [step |-> "routes", approve |-> {r \in goal : r \notin node.approved},
                    revoke |-> {r \in node.approved : r \notin goal},
                    expected |-> node.approved, goal |-> goal, read |-> {}]
  <1>1. ndCall' = [ndCall EXCEPT ![t] = <<c>>]  BY DEF NdSend
  <1>2. c \in RouteCall  BY DEF RouteCall, Pairs, Node
  <1>3. c.step = "routes"  OBVIOUS
  <1>. HIDE DEF c
  <1>. QED  BY <1>1, <1>2, <1>3 DEF NdInv, NdTyped, Maybe, Call

LEMMA Submitting ==
  ASSUME NdInv, NEW t \in NdTabs, NdSubmitRoutes(t) \/ NdClickRoute(t) \/ NdSubmitOther(t)
  PROVE  NdInv'
  <1>1. UNCHANGED <<ndNode, ndSeen, ndPoll, ndOwn>>
    BY DEF NdSubmitRoutes, NdClickRoute, NdSubmitOther, ndPage
  <1>2. CASE NdSubmitRoutes(t)
    <2>1. PICK f \in Form : ndForm[t] = <<f>>  BY <1>2 DEF NdSubmitRoutes, NdInv, NdTyped, Maybe
    <2>2. NdSend(t, f.node, f.ticked) /\ f.node \in Node /\ f.ticked \in Pairs
      BY <1>2, <2>1 DEF NdSubmitRoutes, Form
    <2>3. /\ ndCall' \in [NdTabs -> Maybe(Call)]
          /\ ndCall'[t][1].step = "routes" /\ \A u \in NdTabs \ {t} : ndCall'[u] = ndCall[u]
      BY <2>2, Sending
    <2>4. ndForm' \in [NdTabs -> Maybe(Form)]
      <3>1. ndForm' = [ndForm EXCEPT ![t][1].sent = TRUE]  BY <1>2 DEF NdSubmitRoutes
      <3>2. [<<f>> EXCEPT ![1].sent = TRUE] = <<[f EXCEPT !.sent = TRUE]>>  BY SetInOne
      <3>3. [f EXCEPT !.sent = TRUE] \in Form  BY DEF Form
      <3>. QED  BY <2>1, <3>1, <3>2, <3>3 DEF NdInv, NdTyped, Maybe
    <2>. QED  BY <1>1, <2>3, <2>4 DEF NdInv, NdTyped, NdInOrder
  <1>3. CASE NdClickRoute(t)
    <2>1. ndSeen[t][1] \in Node  BY <1>3 DEF NdClickRoute, NdShows, NdInv, NdTyped, Maybe
    <2>2. PICK r \in NdListed(ndSeen[t][1]) :
            NdSend(t, ndSeen[t][1], NdToggled(ndSeen[t][1].approved, NdBox(r)))
      BY <1>3 DEF NdClickRoute
    <2>3. r \in NdRoutes  BY <2>1, <2>2 DEF NdListed, Node, Pairs
    <2>4. NdToggled(ndSeen[t][1].approved, NdBox(r)) \in Pairs
      BY <2>1, <2>3, ToggleKeepsPairs DEF Node
    <2>5. /\ ndCall' \in [NdTabs -> Maybe(Call)]
          /\ ndCall'[t][1].step = "routes" /\ \A u \in NdTabs \ {t} : ndCall'[u] = ndCall[u]
      BY <2>1, <2>2, <2>4, Sending
    <2>6. ndForm' = ndForm  BY <1>3 DEF NdClickRoute
    <2>. QED  BY <1>1, <2>5, <2>6 DEF NdInv, NdTyped, NdInOrder
  <1>4. CASE NdSubmitOther(t)
    <2>1. PICK c \in OtherCall : ndCall' = [ndCall EXCEPT ![t] = <<c>>]
      BY <1>4 DEF NdSubmitOther, NdReplacements, OtherCall
    <2>2. c.step # "ok" /\ c \in Call  BY DEF OtherCall, Call
    <2>3. ndForm' = ndForm  BY <1>4 DEF NdSubmitOther
    <2>. QED  BY <1>1, <2>1, <2>2, <2>3 DEF NdInv, NdTyped, NdInOrder, Maybe
  <1>. QED  BY <1>2, <1>3, <1>4

\* handleSetRoutes goes on only if what it reads is what the user saw.
LEMMA Reading ==
  ASSUME NdInv, NEW t \in NdTabs, NdReadRoutes(t)
  PROVE  NdInv'
  <1>1. PICK c \in RouteCall : ndCall[t] = <<c>>
    BY DEF NdReadRoutes, NdInv, NdTyped, Maybe, Call, OtherCall, Answer
  <1>2. PICK d \in Call : ndCall' = [ndCall EXCEPT ![t] = <<d>>] /\ d.step # "ok"
    <2>1. CASE ndNode.alive /\ NdSameRouteSet(ndNode.approved, c.expected)
      <3>1. ndNode.approved \in Pairs /\ c.expected \in Pairs
        BY DEF NdInv, NdTyped, Node, RouteCall
      <3>2. ndNode.approved = c.expected
        BY <2>1, <3>1, SameSetIsEqual DEF Pairs
      <3>3. [c EXCEPT !.step = "replace", !.read = ndNode.approved] \in RouteCall
        BY <3>1, <3>2 DEF RouteCall, Pairs
      <3>4. ndCall' = [ndCall EXCEPT ![t] = <<[c EXCEPT !.step = "replace", !.read = ndNode.approved]>>]
        BY <1>1, <2>1 DEF NdReadRoutes
      <3>5. [c EXCEPT !.step = "replace", !.read = ndNode.approved].step = "replace"
        BY DEF RouteCall
      <3>. QED  BY <3>3, <3>4, <3>5 DEF Call
    <2>2. CASE ~(ndNode.alive /\ NdSameRouteSet(ndNode.approved, c.expected))
      <3>2. CASE ndNode.alive
        <4>1. ndCall' = [ndCall EXCEPT ![t] = <<[step |-> "conflict"]>>]
          BY <1>1, <2>2, <3>2 DEF NdReadRoutes
        <4>2. [step |-> "conflict"] \in Call /\ [step |-> "conflict"].step # "ok"  BY DEF Call, Answer
        <4>. QED  BY <4>1, <4>2
      <3>3. CASE ~ndNode.alive
        <4>1. ndCall' = [ndCall EXCEPT ![t] = <<[step |-> "failed"]>>]
          BY <1>1, <2>2, <3>3 DEF NdReadRoutes
        <4>2. [step |-> "failed"] \in Call /\ [step |-> "failed"].step # "ok"  BY DEF Call, Answer
        <4>. QED  BY <4>1, <4>2
      <3>. QED  BY <3>2, <3>3
    <2>. QED  BY <2>1, <2>2
  <1>3. UNCHANGED <<ndNode, ndSeen, ndPoll, ndForm, ndOwn>>  BY DEF NdReadRoutes, ndPage
  <1>. QED  BY <1>2, <1>3 DEF NdInv, NdTyped, NdInOrder, Maybe

\* What a request writes is a node, one change later.
LEMMA WrittenIsNode ==
  ASSUME NdInv, NEW c \in Call, c.step \in {"replace", "name", "tags", "delete"}
  PROVE  [NdWritten(c) EXCEPT !.at = @ + 1] \in Node /\ [NdWritten(c) EXCEPT !.at = @ + 1].at = ndNode.at + 1
  <1>1. ndNode \in Node  BY DEF NdInv, NdTyped
  <1>2. NdWritten(c) \in Node /\ NdWritten(c).at = ndNode.at
    <2>1. CASE c.step = "replace"
      <3>1. c \in RouteCall  BY <2>1 DEF Call, OtherCall, Answer
      <3>2. NdPaired(NdDesired(c.read, c.approve, c.revoke)) \in Pairs
        BY <3>1, PairedIsClosed DEF RouteCall, NdDesired, NdPaired, NdRoutes
      <3>. QED  BY <1>1, <2>1, <3>2 DEF NdWritten, Node
    <2>2. CASE c.step = "name"
      BY <1>1, <2>2 DEF NdWritten, Node, Call, RouteCall, OtherCall, Answer
    <2>3. CASE c.step = "tags"
      BY <1>1, <2>3 DEF NdWritten, Node, Call, RouteCall, OtherCall, Answer
    <2>4. CASE c.step = "delete"
      BY <1>1, <2>4 DEF NdWritten, Node
    <2>. QED  BY <2>1, <2>2, <2>3, <2>4
  <1>. QED  BY <1>2 DEF Node

LEMMA Writing ==
  ASSUME NdInv, NEW t \in NdTabs, NdWrite(t)
  PROVE  NdInv'
  <1>1. PICK c \in Call : ndCall[t] = <<c>> /\ c.step \in {"replace", "name", "tags", "delete"}
    BY DEF NdWrite, NdInv, NdTyped, Maybe
  <1>2. ndNode' \in Node /\ ndNode'.at >= ndNode.at
    <2>1. ndNode \in Node  BY DEF NdInv, NdTyped
    <2>2. CASE ndNode' = [NdWritten(ndCall[t][1]) EXCEPT !.at = @ + 1]
      BY <1>1, <2>1, <2>2, WrittenIsNode DEF Node
    <2>3. CASE UNCHANGED ndNode
      BY <2>1, <2>3 DEF Node
    <2>. QED  BY <2>2, <2>3 DEF NdWrite
  <1>3. PICK d \in Answer : ndCall' = [ndCall EXCEPT ![t] = <<d>>] /\ (d.step = "ok" => d.at <= ndNode'.at)
    <2>1. ndNode'.at \in Nat  BY <1>2 DEF Node
    <2>2. [step |-> "ok", at |-> ndNode'.at] \in Answer /\ [step |-> "failed"] \in Answer
      BY <2>1 DEF Answer
    <2>3. \/ ndCall' = [ndCall EXCEPT ![t] = <<[step |-> "ok", at |-> ndNode'.at]>>]
          \/ ndCall' = [ndCall EXCEPT ![t] = <<[step |-> "failed"]>>]
      BY DEF NdWrite
    <2>. QED  BY <2>1, <2>2, <2>3
  <1>4. UNCHANGED <<ndSeen, ndPoll, ndForm, ndOwn>>  BY DEF NdWrite, ndPage
  <1>5. NdTyped'
    BY <1>2, <1>3, <1>4 DEF NdInv, NdTyped, Maybe, Call
  <1>6. NdInOrder'
    <2>. SUFFICES ASSUME NEW u \in NdTabs
                  PROVE  /\ ndOwn[u] <= ndNode'.at
                         /\ (ndCall'[u] # <<>> /\ ndCall'[u][1].step = "ok") => ndCall'[u][1].at <= ndNode'.at
      BY <1>4 DEF NdInv, NdInOrder
    <2>1. ndNode.at \in Nat /\ ndNode'.at \in Nat /\ ndOwn[u] \in Nat
      BY <1>2 DEF NdInv, NdTyped, Node
    <2>2. CASE u = t  BY <1>2, <1>3, <2>1, <2>2 DEF NdInv, NdTyped, NdInOrder
    <2>3. CASE u # t
      <3>1. ndCall'[u] = ndCall[u]  BY <1>3, <2>3 DEF NdInv, NdTyped
      <3>2. ndCall[u] # <<>> /\ ndCall[u][1].step = "ok" => ndCall[u][1].at \in Nat
        BY DEF NdInv, NdTyped, Maybe, Call, RouteCall, OtherCall, Answer
      <3>. QED  BY <1>2, <2>1, <3>1, <3>2 DEF NdInv, NdInOrder
    <2>. QED  BY <2>2, <2>3
  <1>. QED  BY <1>5, <1>6 DEF NdInv

LEMMA Answered ==
  ASSUME NdInv, NEW t \in NdTabs, NdAnswered(t)
  PROVE  NdInv'
  <1>1. UNCHANGED <<ndNode, ndSeen>> /\ ndCall' = [ndCall EXCEPT ![t] = <<>>] /\ ndPoll' = [ndPoll EXCEPT ![t] = <<<<>>>>]
    BY DEF NdAnswered, NdRefetch
  <1>2. ndForm' \in [NdTabs -> Maybe(Form)]
    <2>1. CASE ndForm' = ndForm  BY <2>1 DEF NdInv, NdTyped
    <2>2. CASE ndForm' = [ndForm EXCEPT ![t] = <<>>]  BY <2>2 DEF NdInv, NdTyped, Maybe
    <2>3. CASE ndForm[t] # <<>> /\ ndForm' = [ndForm EXCEPT ![t][1].sent = FALSE]
      <3>1. PICK f \in Form : ndForm[t] = <<f>>  BY <2>3 DEF NdInv, NdTyped, Maybe
      <3>2. [<<f>> EXCEPT ![1].sent = FALSE] = <<[f EXCEPT !.sent = FALSE]>>  BY SetInOne
      <3>3. [f EXCEPT !.sent = FALSE] \in Form  BY DEF Form
      <3>. QED  BY <2>3, <3>1, <3>2, <3>3 DEF NdInv, NdTyped, Maybe
    <2>. QED  BY <2>1, <2>2, <2>3 DEF NdAnswered
  <1>3. \A u \in NdTabs : ndOwn'[u] \in Nat /\ ndOwn'[u] <= ndNode.at /\ (u # t => ndOwn'[u] = ndOwn[u])
    <2>1. CASE ndOwn' = ndOwn  BY <2>1 DEF NdInv, NdTyped, NdInOrder
    <2>2. CASE ndCall[t] # <<>> /\ ndCall[t][1].step = "ok" /\ ndOwn' = [ndOwn EXCEPT ![t] = ndCall[t][1].at]
      <3>1. ndCall[t][1].at \in Nat /\ ndCall[t][1].at <= ndNode.at
        <4>1. PICK c \in Call : ndCall[t] = <<c>>  BY <2>2 DEF NdInv, NdTyped, Maybe
        <4>2. c.step = "ok"  BY <2>2, <4>1
        <4>3. c \notin RouteCall /\ c \notin OtherCall  BY <4>2 DEF RouteCall, OtherCall
        <4>4. c \in [step : {"ok"}, at : Nat]  BY <4>2, <4>3 DEF Call, Answer
        <4>5. ndCall[t][1].at <= ndNode.at  BY <2>2 DEF NdInv, NdInOrder
        <4>. QED  BY <4>1, <4>4, <4>5
      <3>. QED  BY <2>2, <3>1 DEF NdInv, NdTyped, NdInOrder
    <2>. QED  BY <2>1, <2>2 DEF NdAnswered
  <1>4. ndOwn' \in [NdTabs -> Nat]
    <2>1. ndOwn' = ndOwn \/ ndOwn' = [ndOwn EXCEPT ![t] = ndCall[t][1].at]  BY DEF NdAnswered
    <2>. QED  BY <1>3, <2>1 DEF NdInv, NdTyped
  <1>5. NdTyped'  BY <1>1, <1>2, <1>4 DEF NdInv, NdTyped, Maybe
  <1>6. NdInOrder'  BY <1>1, <1>3 DEF NdInv, NdTyped, NdInOrder
  <1>. QED  BY <1>5, <1>6 DEF NdInv

LEMMA AdvertisedIsNode ==
  ASSUME NEW node \in Node, NEW x \in SUBSET NdRoutes
  PROVE  /\ [node EXCEPT !.available = x, !.at = @ + 1] \in Node
         /\ [node EXCEPT !.available = x, !.at = @ + 1].at = node.at + 1
  <1>. DEFINE k == node.at + 1
  <1>1. k \in Nat  BY DEF Node
  <1>. HIDE DEF k
  <1>2. [node EXCEPT !.available = x, !.at = k] \in Node /\ [node EXCEPT !.available = x, !.at = k].at = k
    BY <1>1 DEF Node
  <1>. QED  BY <1>2 DEF k

LEMMA ApprovedIsNode ==
  ASSUME NEW node \in Node, NEW x \in Pairs
  PROVE  /\ [node EXCEPT !.approved = x, !.at = @ + 1] \in Node
         /\ [node EXCEPT !.approved = x, !.at = @ + 1].at = node.at + 1
  <1>. DEFINE k == node.at + 1
  <1>1. k \in Nat  BY DEF Node
  <1>. HIDE DEF k
  <1>2. [node EXCEPT !.approved = x, !.at = k] \in Node /\ [node EXCEPT !.approved = x, !.at = k].at = k
    BY <1>1 DEF Node
  <1>. QED  BY <1>2 DEF k

LEMMA Outside ==
  ASSUME NdInv, NdOutside
  PROVE  NdInv'
  <1>1. PICK r \in NdRoutes :
          \/ ndNode' = [ndNode EXCEPT !.available = NdToggled(@, NdBox(r)), !.at = @ + 1]
          \/ ndNode' = [ndNode EXCEPT !.approved = NdToggled(@, NdBox(r)), !.at = @ + 1]
    BY DEF NdOutside
  <1>2. ndNode \in Node  BY DEF NdInv, NdTyped
  <1>3. NdToggled(ndNode.available, NdBox(r)) \in SUBSET NdRoutes
    BY <1>2, ToggledIsSubset DEF Node
  <1>4. NdToggled(ndNode.approved, NdBox(r)) \in Pairs
    BY <1>2, ToggleKeepsPairs DEF Node
  <1>5. ndNode' \in Node /\ ndNode'.at = ndNode.at + 1
    <2>1. CASE ndNode' = [ndNode EXCEPT !.available = NdToggled(@, NdBox(r)), !.at = @ + 1]
      BY <1>2, <1>3, <2>1, AdvertisedIsNode
    <2>2. CASE ndNode' = [ndNode EXCEPT !.approved = NdToggled(@, NdBox(r)), !.at = @ + 1]
      BY <1>2, <1>4, <2>2, ApprovedIsNode
    <2>. QED  BY <1>1, <2>1, <2>2
  <1>6. UNCHANGED <<ndSeen, ndPoll, ndForm, ndCall, ndOwn>>  BY DEF NdOutside, ndPage
  <1>7. NdTyped'  BY <1>5, <1>6 DEF NdInv, NdTyped
  <1>8. NdInOrder'
    <2>. SUFFICES ASSUME NEW u \in NdTabs
                  PROVE  /\ ndOwn[u] <= ndNode'.at
                         /\ (ndCall[u] # <<>> /\ ndCall[u][1].step = "ok") => ndCall[u][1].at <= ndNode'.at
      BY <1>6 DEF NdInv, NdInOrder
    <2>1. ndNode.at \in Nat /\ ndOwn[u] \in Nat
      BY <1>2 DEF NdInv, NdTyped, Node
    <2>2. ndCall[u] # <<>> /\ ndCall[u][1].step = "ok" => ndCall[u][1].at \in Nat
      BY DEF NdInv, NdTyped, Maybe, Call, RouteCall, OtherCall, Answer
    <2>. QED  BY <1>5, <2>1, <2>2 DEF NdInv, NdInOrder
  <1>. QED  BY <1>7, <1>8 DEF NdInv

LEMMA NodeStep == NdInv /\ [NdNext]_ndVars => NdInv'
  <1>. SUFFICES ASSUME NdInv, [NdNext]_ndVars PROVE NdInv'
    OBVIOUS
  <1>1. CASE UNCHANGED ndVars
    BY <1>1 DEF NdInv, NdTyped, NdInOrder, ndVars, ndPage
  <1>2. CASE NdNext
    BY <1>2, Polling, Dialogs, Submitting, Reading, Writing, Answered, Outside DEF NdNext
  <1>. QED  BY <1>1, <1>2

-----------------------------------------------------------------------------
\* A step that both moves a request and changes the node is its write.
LEMMA OnlyWritesMove ==
  ASSUME NdInv, NdNext, NEW t \in NdTabs, ndCall'[t] # ndCall[t], ndNode' # ndNode
  PROVE  NdWrite(t)
  <1>1. ~NdOutside  BY DEF NdOutside
  <1>2. PICK u \in NdTabs :
          \/ NdStartPoll(u) \/ NdServePoll(u) \/ NdPollArrives(u) \/ NdPollFails(u)
          \/ NdOpenRoutes(u) \/ NdTick(u) \/ NdClose(u)
          \/ NdSubmitRoutes(u) \/ NdClickRoute(u) \/ NdSubmitOther(u)
          \/ NdReadRoutes(u) \/ NdWrite(u) \/ NdAnswered(u)
    BY <1>1 DEF NdNext
  <1>3. NdWrite(u)
    BY <1>2 DEF NdStartPoll, NdServePoll, NdPollArrives, NdPollFails, NdOpenRoutes, NdTick, NdClose,
         NdSubmitRoutes, NdClickRoute, NdSubmitOther, NdReadRoutes, NdAnswered
  <1>4. PICK d : ndCall' = [ndCall EXCEPT ![u] = d]  BY <1>3 DEF NdWrite
  <1>5. u = t  BY <1>4 DEF NdInv, NdTyped
  <1>. QED  BY <1>3, <1>5

\* A write turns exactly the routes that the user saw into exactly those that
\* the user confirmed, exit routes as a pair, unless they change between the
\* handler's own read and write (handleSetRoutes).
THEOREM RoutesAreWrittenAsConfirmed == NdSpec => RoutesAsConfirmed
  <1>. DEFINE Confirmed ==
         \A t \in NdTabs :
           LET call == ndCall[t][1]
           IN  ndCall[t] # <<>> /\ call.step = "replace" /\ ndCall'[t] # ndCall[t] /\ ndNode' # ndNode
               /\ ndNode.approved = call.read
               => ndNode.approved = call.expected /\ ndNode'.approved = call.goal
  <1>1. ASSUME NdInv, NdNext PROVE Confirmed
    <2>. SUFFICES ASSUME NEW t \in NdTabs, ndCall[t] # <<>>, ndCall[t][1].step = "replace",
                         ndCall'[t] # ndCall[t], ndNode' # ndNode, ndNode.approved = ndCall[t][1].read
                  PROVE  ndNode.approved = ndCall[t][1].expected /\ ndNode'.approved = ndCall[t][1].goal
      OBVIOUS
    <2>1. PICK c \in RouteCall : ndCall[t] = <<c>> /\ c.step = "replace"
      BY <1>1 DEF NdInv, NdTyped, Maybe, Call, OtherCall, Answer
    <2>2. /\ ndNode.approved = c.expected /\ c.read = c.expected
          /\ c.approve = c.goal \ c.expected /\ c.revoke = c.expected \ c.goal
          /\ c.goal \in Pairs /\ c.expected \in Pairs
      BY <2>1 DEF RouteCall
    <2>3. NdPaired(NdDesired(c.read, c.approve, c.revoke)) = c.goal
      BY <2>2, MergeIsGoal
    <2>4. ndNode' = [NdWritten(c) EXCEPT !.at = @ + 1]
      BY <1>1, <2>1, OnlyWritesMove DEF NdWrite
    <2>5. ndNode'.approved = c.goal
      BY <1>1, <2>1, <2>3, <2>4 DEF NdWritten, NdInv, NdTyped, Node
    <2>. QED  BY <2>1, <2>2, <2>5
  <1>2. NdInv /\ [NdNext]_ndVars => [Confirmed]_ndVars
    BY <1>1
  <1>. QED  BY <1>2, NodeInit, NodeStep, PTL DEF NdSpec, RoutesAsConfirmed

\* A tab never shows the node as it was before the tab's own last answered
\* change: invalidateQueries cancels the poll that may have read it.
THEOREM OwnChangesAreShown == NdSpec => OwnChangesStayShown
  <1>. DEFINE Shows == \A t \in NdTabs : ndSeen'[t] # ndSeen[t] => ndSeen'[t][1].at >= ndOwn[t]
  <1>1. ASSUME NdInv, NdNext PROVE Shows
    <2>. SUFFICES ASSUME NEW t \in NdTabs, ndSeen'[t] # ndSeen[t]
                  PROVE  ndSeen'[t][1].at >= ndOwn[t]
      OBVIOUS
    <2>1. PICK u \in NdTabs : NdPollArrives(u)
      BY <1>1 DEF NdNext, NdStartPoll, NdServePoll, NdPollFails, NdOpenRoutes, NdTick, NdClose, NdSubmitRoutes,
           NdClickRoute, NdSubmitOther, NdReadRoutes, NdWrite, NdAnswered, NdOutside, ndPage
    <2>2. u = t /\ ndSeen'[t] = ndPoll[t][1]
      BY <1>1, <2>1 DEF NdPollArrives, NdInv, NdTyped
    <2>. QED  BY <1>1, <2>1, <2>2 DEF NdPollArrives, NdInv, NdInOrder
  <1>2. NdInv /\ [NdNext]_ndVars => [Shows]_ndVars
    BY <1>1
  <1>. QED  BY <1>2, NodeInit, NodeStep, PTL DEF NdSpec, OwnChangesStayShown

-----------------------------------------------------------------------------
(* Sessions.                                                               *)

Numbered(n) == 0..n
SesSteps == {"sent", "drop", "renew", "delete", "ok", "unauthenticated", "forbidden", "refused"}
CallsUpTo(n) ==
  [kind : {"session", "get", "write", "logout", "login"}, session : Numbered(n), csrf : Numbered(n), step : SesSteps]
Requests(n) == {<<>>} \cup {<<c>> : c \in CallsUpTo(n)}

\* Nobody holds the number of a session that was not created yet.
SesIssued ==
  /\ sesLast \in Nat
  /\ sesRows \subseteq Numbered(sesLast) /\ sesEnded \subseteq Numbered(sesLast)
  /\ sesCookie \in Numbered(sesLast)
  /\ sesTab \in [SesTabs -> [auth : {"checking", "in", "out"}, csrf : Numbered(sesLast)]]
  /\ sesCall \in [SesTabs -> Requests(sesLast)]

SesInv == SesIssued /\ EndedSessionsStayEnded

-----------------------------------------------------------------------------
LEMMA MoreNumbers ==
  ASSUME NEW n \in Nat
  PROVE  Numbered(n) \subseteq Numbered(n + 1) /\ n + 1 \in Numbered(n + 1) /\ n + 1 \notin Numbered(n)
         /\ Requests(n) \subseteq Requests(n + 1)
  <1>1. Numbered(n) \subseteq Numbered(n + 1) /\ n + 1 \in Numbered(n + 1) /\ n + 1 \notin Numbered(n)
    BY DEF Numbered
  <1>2. CallsUpTo(n) \subseteq CallsUpTo(n + 1)  BY <1>1 DEF CallsUpTo
  <1>. QED  BY <1>1, <1>2 DEF Requests

LEMMA CallTyped ==
  ASSUME NEW n, NEW r \in Requests(n), r # <<>>
  PROVE  r[1] \in CallsUpTo(n) /\ r = <<r[1]>> /\ r[1].session \in Numbered(n)
  BY DEF Requests, CallsUpTo

\* A request that goes on stays a request, with its session.
LEMMA CallGoesOn ==
  ASSUME NEW n, NEW r \in Requests(n), r # <<>>, NEW step \in SesSteps
  PROVE  [r EXCEPT ![1].step = step] \in Requests(n)
  <1>1. PICK c \in CallsUpTo(n) : r = <<c>>  BY DEF Requests
  <1>2. [r EXCEPT ![1].step = step] = <<[c EXCEPT !.step = step]>>  BY <1>1
  <1>3. [c EXCEPT !.step = step] \in CallsUpTo(n)  BY DEF CallsUpTo
  <1>. QED  BY <1>1, <1>2, <1>3 DEF Requests

LEMMA ToKeepsCalls ==
  ASSUME SesIssued, NEW t \in SesTabs, sesCall[t] # <<>>, NEW step \in SesSteps, SesTo(t, step)
  PROVE  sesCall' \in [SesTabs -> Requests(sesLast)]
  BY CallGoesOn DEF SesIssued, SesTo

-----------------------------------------------------------------------------
LEMMA SessionsInit == SesInit => SesInv
  BY DEF SesInit, SesInv, SesIssued, EndedSessionsStayEnded, Numbered, Requests, SesLoading

LEMMA TabsAsk ==
  ASSUME SesInv, NEW t \in SesTabs, SesAsk(t) \/ SesPoll(t) \/ SesClick(t) \/ SesSubmit(t)
  PROVE  SesInv'
  <1>1. PICK kind \in {"session", "get", "write", "logout", "login"} : SesSend(t, kind) /\ UNCHANGED sesLast
    BY DEF SesAsk, SesPoll, SesClick, SesSubmit
  <1>2. sesTab[t].csrf \in Numbered(sesLast) /\ sesCookie \in Numbered(sesLast)  BY DEF SesInv, SesIssued
  <1>3. [kind |-> kind, session |-> sesCookie, csrf |-> sesTab[t].csrf, step |-> "sent"] \in CallsUpTo(sesLast)
    BY <1>2 DEF CallsUpTo, SesSteps
  <1>4. sesCall' \in [SesTabs -> Requests(sesLast)]
    BY <1>1, <1>3 DEF SesSend, Requests, SesInv, SesIssued
  <1>. QED  BY <1>1, <1>4 DEF SesInv, SesIssued, EndedSessionsStayEnded, SesSend, sesServer

LEMMA TabsReload ==
  ASSUME SesInv, NEW t \in SesTabs, SesReload(t)
  PROVE  SesInv'
  <1>1. SesLoading \in [auth : {"checking", "in", "out"}, csrf : Numbered(sesLast)]
    BY DEF SesLoading, Numbered, SesInv, SesIssued
  <1>. QED  BY <1>1 DEF SesInv, SesIssued, EndedSessionsStayEnded, SesReload, sesServer, Requests

\* A renewal and the removal of a row add none; a log-out ends what it removes.
LEMMA ServerAnswers ==
  ASSUME SesInv, NEW t \in SesTabs, SesLookup(t) \/ SesDrop(t) \/ SesRenew(t) \/ SesLogout(t)
  PROVE  SesInv'
  <1>1. PICK step \in SesSteps : sesCall[t] # <<>> /\ SesTo(t, step)
    <2>1. CASE SesLookup(t)  BY <2>1 DEF SesLookup, SesAt, SesSteps
    <2>2. CASE SesDrop(t)  BY <2>2 DEF SesDrop, SesAt, SesSteps
    <2>3. CASE SesRenew(t)  BY <2>3 DEF SesRenew, SesAt, SesSteps
    <2>4. CASE SesLogout(t)  BY <2>4 DEF SesLogout, SesAt, SesSteps
    <2>. QED  BY <2>1, <2>2, <2>3, <2>4
  <1>2. sesCall' \in [SesTabs -> Requests(sesLast)]  BY <1>1, ToKeepsCalls DEF SesInv
  <1>3. sesCall[t][1].session \in Numbered(sesLast)
    BY <1>1, CallTyped DEF SesInv, SesIssued
  <1>4. UNCHANGED <<sesLast, sesCookie, sesTab>>
    BY DEF SesLookup, SesDrop, SesRenew, SesLogout
  <1>5. sesRows' \subseteq sesRows /\ sesEnded' \subseteq Numbered(sesLast) /\ sesEnded' \cap sesRows' = {}
    BY <1>3 DEF SesInv, SesIssued, EndedSessionsStayEnded, SesLookup, SesDrop, SesRenew, SesLogout, SesTouch, sesServer
  <1>. QED  BY <1>2, <1>4, <1>5 DEF SesInv, SesIssued, EndedSessionsStayEnded

\* A new session has a number that was not ended.
LEMMA LoggingIn ==
  ASSUME SesInv, NEW t \in SesTabs, SesLogin(t)
  PROVE  SesInv'
  <1>1. sesCall[t] # <<>> /\ UNCHANGED <<sesCookie, sesTab>>  BY DEF SesLogin, SesAt
  <1>2. CASE SesTo(t, "refused") /\ UNCHANGED <<sesServer, sesLast>>
    <2>1. sesCall' \in [SesTabs -> Requests(sesLast)]
      BY <1>1, <1>2, ToKeepsCalls DEF SesInv, SesSteps
    <2>. QED  BY <1>1, <1>2, <2>1 DEF SesInv, SesIssued, EndedSessionsStayEnded, sesServer
  <1>3. CASE /\ sesLast' = sesLast + 1
             /\ sesCall' = [sesCall EXCEPT ![t][1].session = sesLast', ![t][1].step = "ok"]
             /\ sesRows' = sesRows \cup {sesLast'} /\ UNCHANGED <<sesStale, sesEnded>>
    <2>1. sesLast \in Nat  BY DEF SesInv, SesIssued
    <2>2. PICK c \in CallsUpTo(sesLast) : sesCall[t] = <<c>>  BY <1>1 DEF SesInv, SesIssued, Requests
    <2>3. [c EXCEPT !.session = sesLast', !.step = "ok"] \in CallsUpTo(sesLast')
      <3>1. sesLast' \in Numbered(sesLast') /\ Numbered(sesLast) \subseteq Numbered(sesLast')
        BY <1>3, <2>1, MoreNumbers
      <3>. QED  BY <3>1 DEF CallsUpTo, SesSteps
    <2>4. sesCall'[t] = <<[c EXCEPT !.session = sesLast', !.step = "ok"]>>
      BY <1>3, <2>2 DEF SesInv, SesIssued
    <2>5. sesCall' \in [SesTabs -> Requests(sesLast')]
      BY <1>3, <2>1, <2>3, <2>4, MoreNumbers DEF SesInv, SesIssued, Requests
    <2>6. Numbered(sesLast) \subseteq Numbered(sesLast') /\ sesLast' \in Numbered(sesLast') /\ sesLast' \notin sesEnded
      BY <1>3, <2>1, MoreNumbers DEF SesInv, SesIssued
    <2>. QED  BY <1>1, <1>3, <2>1, <2>5, <2>6 DEF SesInv, SesIssued, EndedSessionsStayEnded
  <1>. QED  BY <1>2, <1>3 DEF SesLogin

LEMMA TimePasses ==
  ASSUME SesInv, SesExpire \/ SesPrune
  PROVE  SesInv'
  BY DEF SesInv, SesIssued, EndedSessionsStayEnded, SesExpire, SesPrune

LEMMA AnswersArrive ==
  ASSUME SesInv, NEW t \in SesTabs, SesAnswered(t) \/ SesAnswerLost(t)
  PROVE  SesInv'
  <1>1. sesCall[t] # <<>> /\ UNCHANGED <<sesServer, sesLast>> /\ sesCall' = [sesCall EXCEPT ![t] = <<>>]
    BY DEF SesAnswered, SesAnswerLost
  <1>2. sesCall[t][1].session \in Numbered(sesLast)
    BY <1>1, CallTyped DEF SesInv, SesIssued
  <1>3. PICK step : sesTab' = [sesTab EXCEPT ![t] = SesAfter(@, sesCall[t][1], step)]
    BY DEF SesAnswered, SesAnswerLost
  <1>4. SesAfter(sesTab[t], sesCall[t][1], step) \in [auth : {"checking", "in", "out"}, csrf : Numbered(sesLast)]
    BY <1>2 DEF SesAfter, SesLoading, SesIn, SesOut, SesInv, SesIssued, Numbered
  <1>5. sesCookie' \in Numbered(sesLast)
    BY <1>2 DEF SesAnswered, SesAnswerLost, SesInv, SesIssued, Numbered
  <1>. QED  BY <1>1, <1>3, <1>4, <1>5 DEF SesInv, SesIssued, EndedSessionsStayEnded, sesServer, Requests

LEMMA SessionsStep == SesInv /\ [SesNext]_sesVars => SesInv'
  <1>. SUFFICES ASSUME SesInv, [SesNext]_sesVars PROVE SesInv'
    OBVIOUS
  <1>1. CASE UNCHANGED sesVars
    BY <1>1 DEF SesInv, SesIssued, EndedSessionsStayEnded, sesVars, sesServer
  <1>2. CASE SesNext
    BY <1>2, TabsAsk, TabsReload, ServerAnswers, LoggingIn, TimePasses, AnswersArrive DEF SesNext
  <1>. QED  BY <1>1, <1>2

-----------------------------------------------------------------------------
\* A session that was logged out is in the table never again: neither a
\* renewal decided on before the log-out nor a later log-in brings it back
\* (GetSession, DeleteSession, CreateSession).
THEOREM LoggingOutIsFinal == SesSpec => []EndedSessionsStayEnded
  <1>1. SesInv => EndedSessionsStayEnded  BY DEF SesInv
  <1>. QED  BY <1>1, SessionsInit, SessionsStep, PTL DEF SesSpec

-----------------------------------------------------------------------------
(* API keys.                                                               *)

KpDialogs == [kind : {"create", "confirm", "lockout", "secret"}, op : KpOps \cup {"create"},
              key : KpKeys \cup {KpText}, typed : KpKeys \cup {KpText}]

\* A request says that it may end Head-Control's own key only if the prefix it
\* names was typed.
KpRequests ==
  {c \in [key : KpKeys \cup {KpText}, confirm : BOOLEAN, typed : KpKeys \cup {KpText},
          answer : {"none", "ok", "error", "self_lockout"}] : c.confirm => c.typed = c.key}

KpInv ==
  /\ kpWorking \subseteq KpKeys /\ kpExpired \subseteq KpKeys /\ kpListed \subseteq KpKeys
  /\ kpDialog \in Maybe(KpDialogs)
  /\ kpCalls \in [KpOps -> Maybe(KpRequests)]

LEMMA NewDialog ==
  ASSUME NEW kind \in {"create", "confirm", "lockout", "secret"},
         NEW op \in KpOps \cup {"create"}, NEW key \in KpKeys \cup {KpText}
  PROVE  KpNew(kind, <<op, key>>) \in Maybe(KpDialogs)
  BY DEF KpNew, KpDialogs, Maybe

LEMMA ChangedDialog ==
  ASSUME NEW d \in KpDialogs, NEW key \in KpKeys \cup {KpText}
  PROVE  <<[d EXCEPT !.key = key]>> \in Maybe(KpDialogs) /\ <<[d EXCEPT !.typed = key]>> \in Maybe(KpDialogs)
  BY DEF KpDialogs, Maybe

LEMMA AnsweredRequest ==
  ASSUME NEW op \in KpOps, KpInv, kpCalls[op] # <<>>,
         NEW a \in {"none", "ok", "error", "self_lockout"}
  PROVE  /\ kpCalls[op][1] \in KpRequests
         /\ [kpCalls[op] EXCEPT ![1].answer = a] \in Maybe(KpRequests)
         /\ <<[kpCalls[op][1] EXCEPT !.answer = a]>> \in Maybe(KpRequests)
  <1>1. PICK c \in KpRequests : kpCalls[op] = <<c>>  BY DEF KpInv, Maybe
  <1>2. [c EXCEPT !.answer = a] \in KpRequests  BY DEF KpRequests
  <1>3. [kpCalls[op] EXCEPT ![1].answer = a] = <<[c EXCEPT !.answer = a]>>  BY <1>1
  <1>. QED  BY <1>1, <1>2, <1>3 DEF Maybe

LEMMA KeysInit == KpInit => KpInv
  BY DEF KpInit, KpInv, Maybe

LEMMA DialogsStep ==
  ASSUME KpInv, KpPoll \/ KpOpen \/ KpCancel \/ KpDone \/ KpType \/ KpAskNew \/ KpCreated
  PROVE  KpInv'
  <1>1. UNCHANGED kpCalls /\ kpWorking' \subseteq KpKeys /\ kpExpired' \subseteq KpKeys
    BY DEF KpPoll, KpOpen, KpCancel, KpDone, KpType, KpAskNew, KpCreated, KpInv
  <1>2. kpListed' \subseteq KpKeys
    BY DEF KpPoll, KpOpen, KpCancel, KpDone, KpType, KpAskNew, KpCreated, KpInv, KpKnown
  <1>3. kpDialog' \in Maybe(KpDialogs)
    <2>1. CASE KpOpen
      <3>1. KpOps \subseteq KpOps \cup {"create"} /\ kpListed \subseteq KpKeys \cup {KpText}  BY DEF KpInv
      <3>. QED  BY <2>1, <3>1, NewDialog DEF KpOpen
    <2>2. CASE KpType
      <3>1. kpDialog[1] \in KpDialogs  BY <2>2 DEF KpType, KpInv, Maybe
      <3>. QED  BY <2>2, <3>1, ChangedDialog DEF KpType
    <2>3. CASE KpCreated
      BY <2>3, NewDialog DEF KpCreated, KpInv
    <2>4. CASE KpPoll \/ KpCancel \/ KpDone \/ KpAskNew
      BY <2>4 DEF KpPoll, KpCancel, KpDone, KpAskNew, KpInv, Maybe
    <2>. QED  BY <2>1, <2>2, <2>3, <2>4
  <1>. QED  BY <1>1, <1>2, <1>3 DEF KpInv

\* The second dialog lets through only the prefix of its key.
LEMMA ConfirmStep == ASSUME KpInv, KpConfirm PROVE KpInv'
  <1>1. PICK d \in KpDialogs : kpDialog = <<d>>  BY DEF KpConfirm, KpInv, Maybe
  <1>2. [key |-> d.key, confirm |-> d.kind = "lockout", typed |-> d.typed, answer |-> "none"] \in KpRequests
    BY <1>1 DEF KpConfirm, KpUnblocked, KpDialogs, KpRequests
  <1>3. kpCalls' \in [KpOps -> Maybe(KpRequests)]
    BY <1>1, <1>2 DEF KpConfirm, KpInv, Maybe
  <1>. QED  BY <1>3 DEF KpConfirm, KpInv

LEMMA ServeStep == ASSUME KpInv, NEW op \in KpOps, KpServe(op) PROVE KpInv'
  <1>1. PICK a \in {"ok", "error", "self_lockout"} : kpCalls' = [kpCalls EXCEPT ![op][1].answer = a]
    BY DEF KpServe
  <1>2. kpCalls[op] # <<>> /\ kpCalls[op][1] \in KpRequests
    BY AnsweredRequest DEF KpServe
  <1>3. kpCalls' \in [KpOps -> Maybe(KpRequests)]
    BY <1>1, <1>2, AnsweredRequest DEF KpInv
  <1>4. kpWorking' \subseteq KpKeys /\ kpExpired' \subseteq KpKeys
    BY DEF KpServe, KpInv, KpKnown
  <1>. QED  BY <1>3, <1>4 DEF KpServe, KpInv

LEMMA AnswerStep == ASSUME KpInv, NEW op \in KpOps, KpAnswered(op) PROVE KpInv'
  <1>1. kpCalls[op] # <<>> /\ kpCalls[op][1] \in KpRequests
    BY AnsweredRequest DEF KpAnswered
  <1>2. KpLockout(op, kpCalls[op][1].key) \in Maybe(KpDialogs)
    <2>1. kpCalls[op][1].key \in KpKeys \cup {KpText}  BY <1>1 DEF KpRequests
    <2>2. kpDialog # <<>> => kpDialog[1] \in KpDialogs  BY DEF KpInv, Maybe
    <2>. QED  BY <2>1, <2>2, NewDialog, ChangedDialog DEF KpLockout
  <1>3. kpDialog' \in Maybe(KpDialogs)
    <2>1. kpCalls[op][1].answer \in {"ok", "error", "self_lockout"}
      BY <1>1 DEF KpAnswered, KpRequests
    <2>. QED  BY <1>2, <2>1 DEF KpAnswered, KpInv, Maybe
  <1>4. kpCalls' \in [KpOps -> Maybe(KpRequests)]  BY DEF KpAnswered, KpInv, Maybe
  <1>. QED  BY <1>3, <1>4 DEF KpAnswered, KpInv

LEMMA OthersStep == ASSUME KpInv, KpOutside PROVE KpInv'
  <1>1. kpCalls' \in [KpOps -> Maybe(KpRequests)]
    BY AnsweredRequest DEF KpOutside, KpInv
  <1>. QED  BY <1>1 DEF KpOutside, KpInv

LEMMA KeysStep == KpInv /\ [KpNext]_kpVars => KpInv'
  <1>. SUFFICES ASSUME KpInv, [KpNext]_kpVars PROVE KpInv'
    OBVIOUS
  <1>1. CASE UNCHANGED kpVars  BY <1>1 DEF KpInv, kpVars
  <1>2. CASE KpNext
    BY <1>2, DialogsStep, ConfirmStep, ServeStep, AnswerStep, OthersStep DEF KpNext
  <1>. QED  BY <1>1, <1>2

\* A request ends the key Head-Control works with only if the user typed the
\* prefix of that very key, whichever dialogs its answers opened over others
\* and whichever key became Head-Control's own meanwhile.
THEOREM OwnKeyIsEndedOnPurpose == KpSpec => LockoutIsConfirmed
  <1>1. ASSUME KpInv, [KpNext]_kpVars, NEW op \in KpOps, kpCalls[op] # <<>>,
               kpCalls'[op] # kpCalls[op], kpOwn \in kpWorking \ kpWorking'
        PROVE  kpCalls[op][1].key = kpOwn /\ kpCalls[op][1].typed = kpOwn
    <2>1. PICK served \in KpOps : KpServe(served)
      BY <1>1 DEF KpNext, kpVars, KpPoll, KpOpen, KpCancel, KpDone, KpType, KpConfirm, KpAskNew,
                  KpCreated, KpAnswered, KpOutside
    <2>2. op = served
      <3>1. PICK a : kpCalls' = [kpCalls EXCEPT ![served][1].answer = a]  BY <2>1 DEF KpServe
      <3>. QED  BY <1>1, <3>1 DEF KpInv
    <2>3. kpCalls[op][1].key = kpOwn /\ kpCalls[op][1].confirm
      BY <1>1, <2>1, <2>2 DEF KpServe
    <2>4. kpCalls[op][1] \in KpRequests  BY <1>1, AnsweredRequest
    <2>. QED  BY <2>3, <2>4 DEF KpRequests
  <1>2. KpInv /\ [KpNext]_kpVars =>
          [\A op \in KpOps :
             kpCalls[op] # <<>> /\ kpCalls'[op] # kpCalls[op] /\ kpOwn \in kpWorking \ kpWorking'
               => kpCalls[op][1].key = kpOwn /\ kpCalls[op][1].typed = kpOwn]_kpVars
    BY <1>1
  <1>. QED  BY <1>2, KeysInit, KeysStep, PTL DEF KpSpec, LockoutIsConfirmed

-----------------------------------------------------------------------------
(* The form of a rule.                                                     *)

Destinations == Seq([target : RfTargets, ports : RfSpecs])

\* RfReach of the first n destinations.
ReachOf(dst, n, t) ==
  LET all == UNION {dst[i].ports : i \in {j \in 1..n : dst[j].target = t}}
  IN  IF "*" \in all THEN RfAll ELSE all

Owns == UNION {[targets -> RfSpecs] : targets \in SUBSET RfTargets}

LEMMA MergedSpec == \A a, b \in RfSpecs : RfMergePorts(a, b) \in RfSpecs
  BY DEF RfMergePorts, RfSpecs, RfAll

LEMMA ADestination ==
  ASSUME NEW dst \in Destinations
  PROVE  Len(dst) \in Nat /\ \A n \in 1..Len(dst) : dst[n] \in [target : RfTargets, ports : RfSpecs]
  <1>. DEFINE D == [target : RfTargets, ports : RfSpecs]
  <1>1. dst \in Seq(D)  BY DEF Destinations
  <1>. HIDE DEF D
  <1>2. Len(dst) \in Nat /\ \A n \in 1..Len(dst) : dst[n] \in D  BY <1>1
  <1>. QED  BY <1>2 DEF D

LEMMA WithPortsTyped ==
  ASSUME NEW own \in Owns, NEW d \in [target : RfTargets, ports : RfSpecs]
  PROVE  RfWithPorts(own, d) \in Owns
  <1>1. PICK targets \in SUBSET RfTargets : own \in [targets -> RfSpecs]  BY DEF Owns
  <1>2. targets \cup {d.target} \in SUBSET RfTargets  OBVIOUS
  <1>3. RfWithPorts(own, d) \in [targets \cup {d.target} -> RfSpecs]
    BY <1>1, MergedSpec DEF RfWithPorts
  <1>. QED  BY <1>2, <1>3 DEF Owns

\* The loop that collects the ports has a state after each destination.
LEMMA OwnLoop ==
  ASSUME NEW dst \in Destinations
  PROVE  \E own : /\ own[0] = <<>> /\ \A n \in 1..Len(dst) : own[n] = RfWithPorts(own[n - 1], dst[n])
                  /\ RfOwn(dst) = own[Len(dst)]
  <1>. DEFINE N == Len(dst)
              step == [own \in Owns |-> [n \in 1..N |-> RfWithPorts(own, dst[n])]]
              Loop(own) == own = [n \in 0..N |-> IF n = 0 THEN <<>> ELSE RfWithPorts(own[n - 1], dst[n])]
  <1>1. N \in Nat /\ \A n \in 1..N : dst[n] \in [target : RfTargets, ports : RfSpecs]
    BY ADestination
  <1>2. <<>> \in Owns
    <2>1. <<>> \in [{} -> RfSpecs]  OBVIOUS
    <2>. QED  BY <2>1 DEF Owns
  <1>3. step \in [Owns -> [1..N -> Owns]]
    BY <1>1, WithPortsTyped
  <1>4. PICK own \in [0..N -> Owns] : IsRun(own, <<>>, N, step)
    <2>. HIDE DEF step, N, Loop
    <2>. QED  BY <1>1, <1>2, <1>3, Iteration
  <1>5. Loop(own)
    <2>1. ASSUME NEW n \in 1..N PROVE own[n] = RfWithPorts(own[n - 1], dst[n])
      <3>1. n - 1 \in 0..N  BY <1>1
      <3>2. own[n - 1] \in Owns  BY <1>4, <3>1
      <3>3. own[n] = step[own[n - 1]][n]  BY <1>4 DEF IsRun
      <3>. HIDE DEF N, Loop
      <3>. QED  BY <3>2, <3>3
    <2>2. \A n \in 0..N : n = 0 \/ n \in 1..N  BY <1>1
    <2>. QED  BY <1>4, <2>1, <2>2 DEF IsRun
  <1>. DEFINE chosen == CHOOSE f : Loop(f)
  <1>6. Loop(chosen)
    <2>. HIDE DEF Loop
    <2>. QED  BY <1>5, Zenon
  <1>7. RfOwn(dst) = chosen[N]
    BY Zenon DEF RfOwn
  <1>. HIDE DEF chosen
  <1>8. chosen[0] = <<>> /\ \A n \in 1..N : chosen[n] = RfWithPorts(chosen[n - 1], dst[n])
    BY <1>1, <1>6
  <1>. QED  BY <1>7, <1>8

LEMMA ReachOfMore ==
  ASSUME NEW dst \in Destinations, NEW n \in Nat, n + 1 <= Len(dst),
         NEW t
  PROVE  LET d == dst[n + 1]
             before == {dst[i].target : i \in 1..n}
         IN  /\ t # d.target => ReachOf(dst, n + 1, t) = ReachOf(dst, n, t)
             /\ t = d.target /\ t \in before => ReachOf(dst, n + 1, t) = RfMergePorts(ReachOf(dst, n, t), d.ports)
             /\ t = d.target /\ t \notin before => ReachOf(dst, n + 1, t) = d.ports
  <1>. DEFINE d == dst[n + 1]
              before == {dst[i].target : i \in 1..n}
              At(m) == {i \in 1..m : dst[i].target = t}
              All(m) == UNION {dst[i].ports : i \in At(m)}
  <1>1. d \in [target : RfTargets, ports : RfSpecs]
    <2>1. n + 1 \in 1..Len(dst)  BY ADestination
    <2>. QED  BY <2>1, ADestination
  <1>2. d.ports \in RfSpecs /\ ("*" \in d.ports => d.ports = RfAll)
    BY <1>1, RfAssumption DEF RfSpecs, RfAll
  <1>3. \A m : ReachOf(dst, m, t) = IF "*" \in All(m) THEN RfAll ELSE All(m)
    BY DEF ReachOf
  <1>4. CASE t # d.target
    <2>1. At(n + 1) = At(n)  BY <1>4
    <2>. QED  BY <1>3, <1>4, <2>1
  <1>5. CASE t = d.target
    <2>1. At(n + 1) = At(n) \cup {n + 1}  BY <1>5
    <2>2. All(n + 1) = All(n) \cup d.ports
      <3>. HIDE DEF At
      <3>. QED  BY <2>1
    <2>3. CASE t \in before
      <3>1. ReachOf(dst, n + 1, t) = RfMergePorts(ReachOf(dst, n, t), d.ports)
        <4>. HIDE DEF All, d
        <4>. QED  BY <1>2, <1>3, <2>2 DEF RfMergePorts, RfAll
      <3>. QED  BY <1>5, <2>3, <3>1
    <2>4. CASE t \notin before
      <3>1. At(n) = {}  BY <1>5, <2>4
      <3>2. All(n) = {}  BY <3>1
      <3>3. ReachOf(dst, n + 1, t) = d.ports
        <4>. HIDE DEF All, d
        <4>. QED  BY <1>2, <1>3, <2>2, <3>2
      <3>. QED  BY <1>5, <2>4, <3>3
    <2>. QED  BY <2>3, <2>4
  <1>. QED  BY <1>4, <1>5

\* The form knows for every target of the rule what the rule lets through to it.
LEMMA OwnIsReach ==
  ASSUME NEW dst \in Destinations
  PROVE  /\ DOMAIN RfOwn(dst) = RfTargetsOf(dst)
         /\ \A t \in RfTargetsOf(dst) : RfOwn(dst)[t] = RfReach(dst, t)
  <1>. DEFINE N == Len(dst)
              Before(n) == {dst[i].target : i \in 1..n}
  <1>1. PICK own : /\ own[0] = <<>> /\ \A n \in 1..N : own[n] = RfWithPorts(own[n - 1], dst[n])
                   /\ RfOwn(dst) = own[N]
    BY OwnLoop
  <1>. DEFINE Known(n) == DOMAIN own[n] = Before(n) /\ \A t \in Before(n) : own[n][t] = ReachOf(dst, n, t)
              T == {n \in Nat : n <= N => Known(n)}
  <1>2. N \in Nat /\ DOMAIN dst = 1..N
    BY ADestination DEF Destinations
  <1>3. 0 \in T
    <2>1. Before(0) = {}  OBVIOUS
    <2>2. DOMAIN own[0] = {}  BY <1>1
    <2>. HIDE DEF Before
    <2>. QED  BY <2>1, <2>2
  <1>4. ASSUME NEW n \in Nat, n \in T PROVE n + 1 \in T
    <2>. SUFFICES ASSUME n + 1 <= N PROVE Known(n + 1)
      OBVIOUS
    <2>1. Known(n)  BY <1>2, <1>4
    <2>. DEFINE d == dst[n + 1]
    <2>2. own[n + 1] = RfWithPorts(own[n], d)  BY <1>1, <1>2
    <2>3. Before(n + 1) = Before(n) \cup {d.target}  OBVIOUS
    <2>4. DOMAIN own[n + 1] = Before(n + 1)
      <3>. HIDE DEF Before, d
      <3>. QED  BY <2>1, <2>2, <2>3 DEF RfWithPorts
    <2>5. ASSUME NEW t \in Before(n + 1) PROVE own[n + 1][t] = ReachOf(dst, n + 1, t)
      <3>1. own[n + 1][t] = IF t # d.target THEN own[n][t]
                            ELSE IF t \in Before(n) THEN RfMergePorts(own[n][t], d.ports) ELSE d.ports
        <4>. HIDE DEF Before, d
        <4>. QED  BY <2>1, <2>2, <2>3 DEF RfWithPorts
      <3>2. /\ t # d.target => ReachOf(dst, n + 1, t) = ReachOf(dst, n, t)
            /\ t = d.target /\ t \in Before(n) => ReachOf(dst, n + 1, t) = RfMergePorts(ReachOf(dst, n, t), d.ports)
            /\ t = d.target /\ t \notin Before(n) => ReachOf(dst, n + 1, t) = d.ports
        BY ReachOfMore
      <3>3. t \in Before(n) => own[n][t] = ReachOf(dst, n, t)  BY <2>1
      <3>4. t \in Before(n) \/ t = d.target  BY <2>3
      <3>. HIDE DEF Before, d
      <3>. QED  BY <3>1, <3>2, <3>3, <3>4
    <2>. QED  BY <2>4, <2>5
  <1>5. Nat \subseteq T
    <2>. HIDE DEF T
    <2>. QED  BY <1>3, <1>4, AllNumbers
  <1>6. Known(N)  BY <1>2, <1>5
  <1>7. Before(N) = RfTargetsOf(dst)  BY <1>2 DEF RfTargetsOf
  <1>8. \A t : ReachOf(dst, N, t) = RfReach(dst, t)  BY <1>2 DEF ReachOf, RfReach
  <1>. QED  BY <1>1, <1>6, <1>7, <1>8

LEMMA ChipsLoop ==
  ASSUME NEW dst \in Destinations
  PROVE  \E chips : /\ chips[0] = <<>>
                    /\ \A n \in 1..Len(dst) : /\ chips[n - 1] \in Seq(RfTargets)
                                              /\ chips[n] = RfWithChip(chips[n - 1], dst[n])
                    /\ RfChips(dst) = chips[Len(dst)]
  <1>. DEFINE N == Len(dst)
              Lists == Seq(RfTargets)
              step == [chips \in Lists |-> [n \in 1..N |-> RfWithChip(chips, dst[n])]]
              Loop(chips) == chips = [n \in 0..N |-> IF n = 0 THEN <<>> ELSE RfWithChip(chips[n - 1], dst[n])]
  <1>1. N \in Nat /\ \A n \in 1..N : dst[n] \in [target : RfTargets, ports : RfSpecs]
    BY ADestination
  <1>2. <<>> \in Lists  OBVIOUS
  <1>3. step \in [Lists -> [1..N -> Lists]]
    <2>1. ASSUME NEW chips \in Lists, NEW n \in 1..N PROVE RfWithChip(chips, dst[n]) \in Lists
      <3>1. dst[n].target \in RfTargets  BY <1>1
      <3>. QED  BY <3>1 DEF RfWithChip
    <2>. HIDE DEF Lists
    <2>. QED  BY <2>1
  <1>4. PICK chips \in [0..N -> Lists] : IsRun(chips, <<>>, N, step)
    <2>. HIDE DEF step, N, Loop, Lists
    <2>. QED  BY <1>1, <1>2, <1>3, Iteration
  <1>. HIDE DEF Lists
  <1>5. Loop(chips)
    <2>1. ASSUME NEW n \in 1..N PROVE chips[n] = RfWithChip(chips[n - 1], dst[n])
      <3>1. n - 1 \in 0..N  BY <1>1
      <3>2. chips[n - 1] \in Lists  BY <1>4, <3>1
      <3>3. chips[n] = step[chips[n - 1]][n]  BY <1>4 DEF IsRun
      <3>. HIDE DEF N, Loop
      <3>. QED  BY <3>2, <3>3
    <2>2. \A n \in 0..N : n = 0 \/ n \in 1..N  BY <1>1
    <2>. QED  BY <1>4, <2>1, <2>2 DEF IsRun
  <1>. DEFINE chosen == CHOOSE f : Loop(f)
  <1>6. Loop(chosen)
    <2>. HIDE DEF Loop
    <2>. QED  BY <1>5, Zenon
  <1>7. RfChips(dst) = chosen[N]
    BY Zenon DEF RfChips
  <1>. HIDE DEF chosen
  <1>8. chosen[0] = <<>> /\ \A n \in 1..N : chosen[n] = RfWithChip(chosen[n - 1], dst[n])
    BY <1>1, <1>6
  <1>. DEFINE T == {n \in Nat : n <= N => chosen[n] \in Lists}
  <1>9. 0 \in T  BY <1>2, <1>8
  <1>10. ASSUME NEW n \in Nat, n \in T PROVE n + 1 \in T
    <2>. SUFFICES ASSUME n + 1 <= N PROVE chosen[n + 1] \in Lists
      OBVIOUS
    <2>1. chosen[n] \in Lists  BY <1>1, <1>10
    <2>2. dst[n + 1].target \in RfTargets /\ n + 1 \in 1..N  BY <1>1
    <2>3. chosen[n + 1] = RfWithChip(chosen[n], dst[n + 1])  BY <1>8, <2>2
    <2>. QED  BY <2>1, <2>2, <2>3 DEF RfWithChip, Lists
  <1>11. Nat \subseteq T
    <2>. HIDE DEF T
    <2>. QED  BY <1>9, <1>10, AllNumbers
  <1>12. \A n \in 1..N : chosen[n - 1] \in Lists  BY <1>1, <1>11
  <1>. QED  BY <1>7, <1>8, <1>12 DEF Lists

Elements(s) == {s[i] : i \in DOMAIN s}

LEMMA OneMoreElement == \A s \in Seq(RfTargets), x \in RfTargets : Elements(Append(s, x)) = Elements(s) \cup {x}
  <1>. SUFFICES ASSUME NEW s \in Seq(RfTargets), NEW x \in RfTargets
               PROVE  Elements(Append(s, x)) = Elements(s) \cup {x}
    OBVIOUS
  <1>1. DOMAIN s = 1..Len(s) /\ Len(s) \in Nat  OBVIOUS
  <1>2. DOMAIN Append(s, x) = 1..(Len(s) + 1)  OBVIOUS
  <1>3. \A i \in 1..(Len(s) + 1) : Append(s, x)[i] = IF i \in DOMAIN s THEN s[i] ELSE x
    BY <1>1
  <1>4. Len(s) + 1 \in DOMAIN Append(s, x) /\ Len(s) + 1 \notin DOMAIN s
    BY <1>1, <1>2
  <1>5. \A i \in DOMAIN s : i \in DOMAIN Append(s, x)  BY <1>1, <1>2
  <1>. QED  BY <1>2, <1>3, <1>4, <1>5 DEF Elements

\* The chips of the form are the targets of the rule.
LEMMA ChipsAreTargets ==
  ASSUME NEW dst \in Destinations
  PROVE  Elements(RfChips(dst)) = RfTargetsOf(dst)
  <1>. DEFINE N == Len(dst)
              Before(n) == {dst[i].target : i \in 1..n}
  <1>1. PICK chips : /\ chips[0] = <<>>
                     /\ \A n \in 1..N : /\ chips[n - 1] \in Seq(RfTargets)
                                         /\ chips[n] = RfWithChip(chips[n - 1], dst[n])
                     /\ RfChips(dst) = chips[N]
    BY ChipsLoop
  <1>. DEFINE Same(n) == Elements(chips[n]) = Before(n)
              T == {n \in Nat : n <= N => Same(n)}
  <1>2. N \in Nat /\ DOMAIN dst = 1..N
    BY ADestination DEF Destinations
  <1>3. 0 \in T
    <2>1. Before(0) = {}  OBVIOUS
    <2>2. Elements(chips[0]) = {}  BY <1>1 DEF Elements
    <2>. HIDE DEF Before
    <2>. QED  BY <2>1, <2>2
  <1>4. ASSUME NEW n \in Nat, n \in T PROVE n + 1 \in T
    <2>. SUFFICES ASSUME n + 1 <= N PROVE Same(n + 1)
      <3>. HIDE DEF Same
      <3>. QED  OBVIOUS
    <2>. DEFINE d == dst[n + 1]
    <2>1. Same(n)
      <3>. HIDE DEF Same
      <3>. QED  BY <1>2, <1>4
    <2>2. chips[n] \in Seq(RfTargets) /\ chips[n + 1] = RfWithChip(chips[n], d)  BY <1>1, <1>2
    <2>3. Before(n + 1) = Before(n) \cup {d.target}  OBVIOUS
    <2>4. Range(chips[n]) = Elements(chips[n])  BY DEF Range, Elements
    <2>5. CASE d.target \in Before(n)
      <3>. HIDE DEF Before, d
      <3>. QED  BY <2>1, <2>2, <2>3, <2>4, <2>5 DEF RfWithChip
    <2>6. CASE d.target \notin Before(n)
      <3>1. chips[n + 1] = Append(chips[n], d.target)
        <4>. HIDE DEF Before, d
        <4>. QED  BY <2>1, <2>2, <2>4, <2>6 DEF RfWithChip
      <3>2. Elements(Append(chips[n], d.target)) = Elements(chips[n]) \cup {d.target}
        <4>1. d.target \in RfTargets  BY <1>2, ADestination
        <4>. HIDE DEF d
        <4>. QED  BY <2>2, <4>1, OneMoreElement
      <3>. HIDE DEF Before, d
      <3>. QED  BY <2>1, <2>3, <3>1, <3>2
    <2>. QED  BY <2>5, <2>6
  <1>5. Nat \subseteq T
    <2>. HIDE DEF T
    <2>. QED  BY <1>3, <1>4, AllNumbers
  <1>6. Same(N)
    <2>. HIDE DEF Same
    <2>. QED  BY <1>2, <1>5
  <1>7. Before(N) = RfTargetsOf(dst)  BY <1>2 DEF RfTargetsOf
  <1>. HIDE DEF Before
  <1>. QED  BY <1>1, <1>6, <1>7

OwnOf(rule) == IF rule = <<>> THEN <<>> ELSE RfOwn(rule[1].dst)
AForm(chips, ports, proto) ==
  <<[fields |-> [chips |-> chips, own |-> OwnOf(rfRule), ports |-> ports], proto |-> proto]>>

\* Nothing in the form touches the ports its targets had in the rule.
FormInv ==
  /\ rfRule = <<>> \/ \E rule \in RfRules : rfRule = <<rule>>
  /\ rfForm = <<>> \/ \E chips, ports, proto : rfForm = AForm(chips, ports, proto)

LEMMA FormInit == RfInit => FormInv
  BY DEF RfInit, FormInv

LEMMA OpenStep == ASSUME RfOpen PROVE FormInv'
  <1>1. CASE \E rule \in RfRules : /\ rfRule' = <<rule>>
                                   /\ rfForm' = <<[fields |-> RfFields(rule.dst), proto |-> rule.proto]>>
    <2>1. PICK rule \in RfRules : /\ rfRule' = <<rule>>
                                  /\ rfForm' = <<[fields |-> RfFields(rule.dst), proto |-> rule.proto]>>
      BY <1>1
    <2>2. PICK ports : RfFields(rule.dst) = [chips |-> RfChips(rule.dst), own |-> RfOwn(rule.dst), ports |-> ports]
      BY DEF RfFields
    <2>3. OwnOf(rfRule') = RfOwn(rule.dst)  BY <2>1 DEF OwnOf
    <2>4. rfForm' = <<[fields |-> [chips |-> RfChips(rule.dst), own |-> OwnOf(rfRule'), ports |-> ports],
                       proto |-> rule.proto]>>
      BY <2>1, <2>2, <2>3
    <2>. QED  BY <2>1, <2>4 DEF FormInv, AForm
  <1>2. CASE \E proto \in RfProtocols \ RfPortless :
               rfRule' = <<>> /\ rfForm' = <<[fields |-> RfEmptyFields, proto |-> proto]>>
    BY <1>2 DEF FormInv, AForm, RfEmptyFields, OwnOf
  <1>. QED  BY <1>1, <1>2 DEF RfOpen

LEMMA EditStep ==
  ASSUME FormInv, RfAddTarget \/ RfRemoveTarget \/ RfTypePorts \/ RfChooseProtocol
  PROVE  FormInv'
  <1>1. rfForm # <<>> /\ rfRule' = rfRule
    BY DEF RfAddTarget, RfRemoveTarget, RfTypePorts, RfChooseProtocol
  <1>2. PICK chips, ports, proto : rfForm = AForm(chips, ports, proto)
    BY <1>1 DEF FormInv
  <1>. DEFINE form == [fields |-> [chips |-> chips, own |-> OwnOf(rfRule), ports |-> ports], proto |-> proto]
  <1>3. rfForm[1] = form  BY <1>2 DEF AForm
  <1>4. \E chips2, ports2, proto2 : rfForm' = AForm(chips2, ports2, proto2)
    <2>1. CASE RfAddTarget
      <3>1. PICK t \in RfTargets : rfForm' = <<[form EXCEPT !.fields.chips = Append(@, t)]>>
        BY <2>1, <1>3 DEF RfAddTarget
      <3>. DEFINE more == Append(chips, t)
      <3>2. rfForm' = <<[form EXCEPT !.fields.chips = more]>>  BY <3>1
      <3>. HIDE DEF more
      <3>3. rfForm' = AForm(more, ports, proto)  BY <3>2 DEF AForm
      <3>. QED  BY <3>3
    <2>2. CASE RfRemoveTarget
      <3>1. PICK i : rfForm' = <<[form EXCEPT !.fields.chips = RemoveAt(@, i)]>>
        BY <2>2, <1>3 DEF RfRemoveTarget
      <3>2. rfForm' = AForm(RemoveAt(chips, i), ports, proto)  BY <3>1 DEF AForm
      <3>. QED  BY <3>2
    <2>3. CASE RfTypePorts
      <3>1. PICK spec \in RfTyped : rfForm' = <<[form EXCEPT !.fields.ports = spec]>>
        BY <2>3, <1>3 DEF RfTypePorts
      <3>2. rfForm' = AForm(chips, spec, proto)  BY <3>1 DEF AForm
      <3>. QED  BY <3>2
    <2>4. CASE RfChooseProtocol
      <3>1. PICK chosen \in RfProtocols : \E spec :
              rfForm' = <<[form EXCEPT !.proto = chosen, !.fields.ports = spec]>>
        BY <2>4, <1>3 DEF RfChooseProtocol
      <3>2. PICK spec : rfForm' = <<[form EXCEPT !.proto = chosen, !.fields.ports = spec]>>
        BY <3>1
      <3>3. rfForm' = <<[[form EXCEPT !.proto = chosen] EXCEPT !.fields.ports = spec]>>
        BY <3>2
      <3>. DEFINE other == [fields |-> [chips |-> chips, own |-> OwnOf(rfRule), ports |-> ports], proto |-> chosen]
      <3>4. [form EXCEPT !.proto = chosen] = other
        OBVIOUS
      <3>5. rfForm' = <<[other EXCEPT !.fields.ports = spec]>>
        <4>. HIDE DEF other, form
        <4>. QED  BY <3>3, <3>4
      <3>6. rfForm' = AForm(chips, spec, chosen)  BY <3>5 DEF AForm
      <3>. QED  BY <3>6
    <2>. QED  BY <2>1, <2>2, <2>3, <2>4
  <1>5. \E chips2, ports2, proto2 : rfForm' = AForm(chips2, ports2, proto2)'
    BY <1>1, <1>4 DEF AForm
  <1>. QED  BY <1>1, <1>5 DEF FormInv

LEMMA FormStep == FormInv /\ [RfNext]_rfVars => FormInv'
  <1>. SUFFICES ASSUME FormInv, [RfNext]_rfVars PROVE FormInv'
    OBVIOUS
  <1>1. CASE RfOpen  BY <1>1, OpenStep
  <1>2. CASE RfAddTarget \/ RfRemoveTarget \/ RfTypePorts \/ RfChooseProtocol
    BY <1>2, EditStep
  <1>3. CASE RfSubmit \/ RfClose  BY <1>3 DEF RfSubmit, RfClose, FormInv
  <1>4. CASE UNCHANGED rfVars  BY <1>4 DEF rfVars, FormInv, AForm
  <1>. QED  BY <1>1, <1>2, <1>3, <1>4 DEF RfNext

\* A form whose destinations are untouched says what the rule says.
LEMMA UntouchedFields ==
  ASSUME NEW dst \in Destinations, NEW f, f = RfFields(dst)
  PROVE  /\ RfTargetsOf(dst) = Elements(f.chips)
         /\ f.ports # {} => \A t \in RfTargetsOf(dst) : RfReach(dst, t) = f.ports
  <1>. DEFINE specs == {RfOwn(dst)[t] : t \in DOMAIN RfOwn(dst)}
  <1>1. /\ f.chips = RfChips(dst)
        /\ f.ports = IF \E spec \in specs : specs = {spec} THEN CHOOSE spec \in specs : TRUE ELSE {}
    BY DEF RfFields
  <1>2. f.ports # {} => specs = {f.ports}
    <2>. HIDE DEF specs
    <2>. QED  BY <1>1
  <1>. QED  BY <1>1, <1>2, ChipsAreTargets, OwnIsReach

\* What is written otherwise: every entry of a target has the same ports.
LEMMA SameEntries ==
  ASSUME NEW dst, NEW spec, RfParses(spec), NEW t \in RfTargetsOf(dst),
         \A i \in DOMAIN dst : dst[i].target = t => dst[i].ports = spec
  PROVE  RfReach(dst, t) = spec
  <1>. DEFINE at == {j \in DOMAIN dst : dst[j].target = t}
              all == UNION {dst[i].ports : i \in at}
  <1>1. all = spec  BY DEF RfTargetsOf
  <1>2. RfReach(dst, t) = IF "*" \in all THEN RfAll ELSE all  BY DEF RfReach
  <1>. QED  BY <1>1, <1>2 DEF RfParses

LEMMA SubmitStep ==
  ASSUME FormInv, RfSubmit
  PROVE  LET f == rfForm[1].fields
             dst == rfSaved'[1]
         IN  /\ RfTargetsOf(dst) = {f.chips[i] : i \in DOMAIN f.chips}
             /\ \A t \in RfTargetsOf(dst) :
                  RfReach(dst, t) = IF f.ports # {} THEN f.ports ELSE RfReach(rfRule[1].dst, t)
  <1>. DEFINE f == rfForm[1].fields
              dst == rfSaved'[1]
  <1>1. rfForm # <<>> /\ RfValid(rfForm[1]) /\ dst = RfWritten(rfRule, rfForm[1])
    BY DEF RfSubmit
  <1>2. f.own = OwnOf(rfRule)  BY <1>1 DEF FormInv, AForm
  <1>3. rfRule # <<>> => rfRule[1].dst \in Destinations
    <2>1. \A rule \in RfRules : rule.dst \in Destinations  BY RfAssumption, Zenon DEF Destinations
    <2>2. rfRule = <<>> \/ \E rule \in RfRules : rfRule = <<rule>>  BY DEF FormInv
    <2>. QED  BY <2>1, <2>2
  <1>4. CASE rfRule # <<>> /\ f = RfFields(rfRule[1].dst)
    <2>1. dst = rfRule[1].dst  BY <1>1, <1>4 DEF RfWritten
    <2>. HIDE DEF f, dst
    <2>2. RfTargetsOf(dst) = Elements(f.chips) /\ (f.ports # {} => \A t \in RfTargetsOf(dst) : RfReach(dst, t) = f.ports)
      BY <1>3, <1>4, <2>1, UntouchedFields
    <2>. QED  BY <2>1, <2>2 DEF Elements, f, dst
  <1>5. CASE ~(rfRule # <<>> /\ f = RfFields(rfRule[1].dst))
    <2>1. dst = [i \in DOMAIN f.chips |-> [target |-> f.chips[i], ports |-> RfShared(f, f.chips[i])]]
      BY <1>1, <1>5 DEF RfWritten
    <2>2. \A i \in DOMAIN f.chips : RfParses(RfShared(f, f.chips[i]))
      BY <1>1 DEF RfValid
    <2>. HIDE DEF f, dst
    <2>3. RfTargetsOf(dst) = {f.chips[i] : i \in DOMAIN f.chips}
      BY <2>1 DEF RfTargetsOf
    <2>4. ASSUME NEW t \in RfTargetsOf(dst)
          PROVE  RfReach(dst, t) = IF f.ports # {} THEN f.ports ELSE RfReach(rfRule[1].dst, t)
      <3>1. RfParses(RfShared(f, t))  BY <2>2, <2>3
      <3>2. \A i \in DOMAIN dst : dst[i].target = t => dst[i].ports = RfShared(f, t)
        BY <2>1
      <3>3. RfReach(dst, t) = RfShared(f, t)
        BY <3>1, <3>2, SameEntries
      <3>4. CASE f.ports = {}
        <4>1. t \in DOMAIN f.own /\ RfShared(f, t) = f.own[t]
          BY <3>1, <3>4 DEF RfShared, RfParses
        <4>2. rfRule # <<>>  BY <1>2, <4>1 DEF OwnOf
        <4>3. f.own = RfOwn(rfRule[1].dst)  BY <1>2, <4>2 DEF OwnOf
        <4>. QED  BY <1>3, <3>3, <3>4, <4>1, <4>2, <4>3, OwnIsReach
      <3>5. CASE f.ports # {}  BY <3>3, <3>5 DEF RfShared
      <3>. QED  BY <3>4, <3>5
    <2>. QED  BY <2>3, <2>4 DEF f, dst
  <1>. QED  BY <1>4, <1>5

\* After any sequence of edits the submitted rule reaches exactly the targets
\* of the form, each on the ports the field shows or, when it is empty, on those
\* the edited rule gave it, whatever lists of destinations there are and however
\* often one of them repeats a target.
THEOREM FormsKeepAccess == RfSpec => FormKeepsAccess
  <1>1. ASSUME FormInv, [RfNext]_rfVars, rfForm # <<>>, rfSaved' # rfSaved
        PROVE  LET f == rfForm[1].fields
                   dst == rfSaved'[1]
               IN  /\ RfTargetsOf(dst) = {f.chips[i] : i \in DOMAIN f.chips}
                   /\ \A t \in RfTargetsOf(dst) :
                        RfReach(dst, t) = IF f.ports # {} THEN f.ports ELSE RfReach(rfRule[1].dst, t)
    <2>1. RfSubmit
      BY <1>1 DEF RfNext, rfVars, RfOpen, RfAddTarget, RfRemoveTarget, RfTypePorts, RfChooseProtocol, RfClose
    <2>. QED  BY <1>1, <2>1, SubmitStep
  <1>2. FormInv /\ [RfNext]_rfVars =>
          [rfForm # <<>> /\ rfSaved' # rfSaved
             => LET f == rfForm[1].fields
                    dst == rfSaved'[1]
                IN  /\ RfTargetsOf(dst) = {f.chips[i] : i \in DOMAIN f.chips}
                    /\ \A t \in RfTargetsOf(dst) :
                         RfReach(dst, t) = IF f.ports # {} THEN f.ports ELSE RfReach(rfRule[1].dst, t)]_rfVars
    BY <1>1
  <1>. QED  BY <1>2, FormInit, FormStep, PTL DEF RfSpec, FormKeepsAccess
=============================================================================
