------------------------------ MODULE NodePages ------------------------------
(***************************************************************************)
(* A node in the Machines and Routes pages of several browser tabs         *)
(* (frontend/src/pages/MachinesPage.tsx, RoutesPage.tsx) and its handlers  *)
(* (internal/server/handlers_nodes.go): dialogs that keep the node as it   *)
(* was when they were opened, the guarded replacement of the approved      *)
(* routes, and the list that is polled and refetched after a change.       *)
(*                                                                         *)
(* Nodes do not affect each other: one is modelled.  A name, an expiry and *)
(* a set of tags are replaced by a request as a whole.                     *)
(***************************************************************************)
EXTENDS Naturals, Sequences, FiniteSets

CONSTANTS
  NdTabs,       \* browser tabs
  NdSubnets,    \* subnet routes the device may advertise
  NdTagSets,    \* inputs: sets of tags
  NdNames,      \* inputs: names and expiries, taken together
  NdNoTags, NdName,  \* the tags and the name at first
  NdFaults,     \* requests may fail, answers may get lost
  NdMaxCalls,   \* bound: requests that change the node
  NdMaxOutside  \* bound: changes by the device, an autoApprover or the CLI

NdExit == {"0.0.0.0/0", "::/0"}
NdRoutes == NdSubnets \cup NdExit

ASSUME NdAssumption ==
  /\ IsFiniteSet(NdSubnets)
  /\ NdNoTags \in NdTagSets /\ NdName \in NdNames
  /\ NdMaxCalls \in Nat /\ NdMaxOutside \in Nat

VARIABLES
  ndNode,   \* headscale: the node
  ndSeen,   \* each tab: the node as it was polled last
  ndPoll,   \* each tab: the poll under way, if any, and what it has read
  ndForm,   \* each tab: the open dialog, if any
  ndCall,   \* each tab: the request under way, if any
  ndOwn,    \* history, each tab: the node after the tab's last answered change
  ndUsed    \* how much of each bound is used

ndPage == <<ndSeen, ndPoll>>
ndVars == <<ndNode, ndPage, ndForm, ndCall, ndOwn, ndUsed>>

NdUse(bound, limit) == ndUsed[bound] < limit /\ ndUsed' = [ndUsed EXCEPT ![bound] = @ + 1]

\* headscale approves the exit routes as a pair.
NdPaired(routes) == IF routes \cap NdExit # {} THEN routes \cup NdExit ELSE routes

NdBox(r) == IF r \in NdExit THEN NdExit ELSE {r}
NdToggled(routes, S) == IF S \subseteq routes THEN routes \ S ELSE routes \cup S

NdInit ==
  /\ \E approved \in {NdPaired(routes) : routes \in SUBSET NdRoutes} :
       ndNode = [alive |-> TRUE, available |-> NdRoutes, approved |-> approved,
                 tags |-> NdNoTags, name |-> NdName, at |-> 0]
  /\ ndSeen = [t \in NdTabs |-> <<>>] /\ ndPoll = [t \in NdTabs |-> <<>>]
  /\ ndForm = [t \in NdTabs |-> <<>>] /\ ndCall = [t \in NdTabs |-> <<>>]
  /\ ndOwn = [t \in NdTabs |-> 0]
  /\ ndUsed = [calls |-> 0, outside |-> 0]

-----------------------------------------------------------------------------
(* The list of nodes.                                                      *)

NdStartPoll(t) ==
  /\ ndPoll[t] = <<>> /\ ndPoll' = [ndPoll EXCEPT ![t] = <<<<>>>>]
  /\ UNCHANGED <<ndNode, ndSeen, ndForm, ndCall, ndOwn, ndUsed>>

NdServePoll(t) ==
  /\ ndPoll[t] = <<<<>>>> /\ ndPoll' = [ndPoll EXCEPT ![t] = <<<<ndNode>>>>]
  /\ UNCHANGED <<ndNode, ndSeen, ndForm, ndCall, ndOwn, ndUsed>>

NdPollArrives(t) ==
  /\ ndPoll[t] # <<>> /\ ndPoll[t][1] # <<>>
  /\ ndSeen' = [ndSeen EXCEPT ![t] = ndPoll[t][1]]
  /\ ndPoll' = [ndPoll EXCEPT ![t] = <<>>]
  /\ UNCHANGED <<ndNode, ndForm, ndCall, ndOwn, ndUsed>>

NdPollFails(t) ==
  /\ NdFaults /\ ndPoll[t] # <<>> /\ ndPoll' = [ndPoll EXCEPT ![t] = <<>>]
  /\ UNCHANGED <<ndNode, ndSeen, ndForm, ndCall, ndOwn, ndUsed>>

-----------------------------------------------------------------------------
(* Dialogs and buttons.  subnetRoutesOf and nodeIsExitNode of the node     *)
(* shown: a route is listed when it is advertised or approved.             *)

NdListed(node) == node.available \cup node.approved
NdShows(t) == ndSeen[t] # <<>> /\ ndSeen[t][1].alive

NdOpenRoutes(t) ==
  /\ NdShows(t) /\ ndForm[t] = <<>>
  /\ ndForm' = [ndForm EXCEPT ![t] =
       <<[node |-> ndSeen[t][1], ticked |-> ndSeen[t][1].approved, sent |-> FALSE]>>]
  /\ UNCHANGED <<ndNode, ndPage, ndCall, ndOwn, ndUsed>>

\* One check box for the exit routes, one for every other route listed.
NdTick(t) ==
  /\ ndForm[t] # <<>>
  /\ \E r \in NdListed(ndForm[t][1].node) :
       ndForm' = [ndForm EXCEPT ![t][1].ticked = NdToggled(@, NdBox(r))]
  /\ UNCHANGED <<ndNode, ndPage, ndCall, ndOwn, ndUsed>>

NdClose(t) ==
  /\ ndForm[t] # <<>> /\ ndForm' = [ndForm EXCEPT ![t] = <<>>]
  /\ UNCHANGED <<ndNode, ndPage, ndCall, ndOwn, ndUsed>>

\* A request about the node as it is shown; "goal": what the user confirmed.
NdSend(t, node, goal) ==
  LET approve == {r \in goal : r \notin node.approved}
      revoke == {r \in node.approved : r \notin goal}
  IN  /\ approve \cup revoke # {}
      /\ ndCall[t] = <<>> /\ NdUse("calls", NdMaxCalls)
      /\ ndCall' = [ndCall EXCEPT ![t] =
           <<[step |-> "routes", approve |-> approve, revoke |-> revoke, expected |-> node.approved,
              goal |-> goal, read |-> {}]>>]

NdSubmitRoutes(t) ==
  /\ ndForm[t] # <<>> /\ NdSend(t, ndForm[t][1].node, ndForm[t][1].ticked)
  /\ ndForm' = [ndForm EXCEPT ![t][1].sent = TRUE]
  /\ UNCHANGED <<ndNode, ndPage, ndOwn>>

\* The approve and revoke buttons of the Routes page.
NdClickRoute(t) ==
  /\ NdShows(t) /\ ndForm[t] = <<>>
  /\ LET node == ndSeen[t][1]
     IN  \E r \in NdListed(node) : NdSend(t, node, NdToggled(node.approved, NdBox(r)))
  /\ UNCHANGED <<ndNode, ndPage, ndForm, ndOwn>>

NdReplacements == {[step |-> "name", value |-> n] : n \in NdNames}
                  \cup {[step |-> "tags", value |-> s] : s \in NdTagSets}

\* Rename, tags, expiry and delete: one request, nothing compared.
NdSubmitOther(t) ==
  /\ NdShows(t) /\ ndForm[t] = <<>> /\ ndCall[t] = <<>> /\ NdUse("calls", NdMaxCalls)
  /\ \E call \in NdReplacements \cup {[step |-> "delete"]} : ndCall' = [ndCall EXCEPT ![t] = <<call>>]
  /\ UNCHANGED <<ndNode, ndPage, ndForm, ndOwn>>

-----------------------------------------------------------------------------
(* The handlers.                                                           *)

\* Mutant of NdSameRouteSet: nothing that was expected is missing.
NdCoversRouteSet(a, b) == b \subseteq a

NdSameRouteSet(a, b) == Cardinality(a) = Cardinality(b) /\ b \subseteq a

\* handleSetRoutes reads the node and compares ...
NdReadRoutes(t) ==
  /\ ndCall[t] # <<>> /\ ndCall[t][1].step = "routes"
  /\ ndCall' = [ndCall EXCEPT ![t] =
       IF ndNode.alive /\ NdSameRouteSet(ndNode.approved, ndCall[t][1].expected)
       THEN <<[ndCall[t][1] EXCEPT !.step = "replace", !.read = ndNode.approved]>>
       ELSE <<[step |-> IF ndNode.alive THEN "conflict" ELSE "failed"]>>]
  /\ UNCHANGED <<ndNode, ndPage, ndForm, ndOwn, ndUsed>>

NdDesired(read, approve, revoke) == (read \cup NdPaired(approve)) \ NdPaired(revoke)

\* ... and replaces the whole set by the merge with what it has read.  The
\* other handlers replace one attribute.
NdWritten(call) ==
  CASE call.step = "replace" -> [ndNode EXCEPT !.approved = NdPaired(NdDesired(call.read, call.approve, call.revoke))]
    [] call.step = "name"    -> [ndNode EXCEPT !.name = call.value]
    [] call.step = "tags"    -> [ndNode EXCEPT !.tags = call.value]
    [] call.step = "delete"  -> [ndNode EXCEPT !.alive = FALSE]

NdWrite(t) ==
  /\ ndCall[t] # <<>> /\ ndCall[t][1].step \in {"replace", "name", "tags", "delete"}
  /\ \/ /\ ndNode.alive
        /\ ndNode' = [NdWritten(ndCall[t][1]) EXCEPT !.at = @ + 1]
        /\ \E answer \in {[step |-> "ok", at |-> ndNode'.at]} \cup (IF NdFaults THEN {[step |-> "failed"]} ELSE {}) :
             ndCall' = [ndCall EXCEPT ![t] = <<answer>>]
     \/ /\ ~ndNode.alive \/ NdFaults
        /\ ndCall' = [ndCall EXCEPT ![t] = <<[step |-> "failed"]>>]
        /\ UNCHANGED ndNode
  /\ UNCHANGED <<ndPage, ndForm, ndOwn, ndUsed>>

\* Mutant of NdRefetch: a poll under way is left alone.
NdRefetchUnlessPolling(t) == ndPoll' = IF ndPoll[t] = <<>> THEN [ndPoll EXCEPT ![t] = <<<<>>>>] ELSE ndPoll

\* invalidateQueries: a poll under way is cancelled and a new one starts.
NdRefetch(t) == ndPoll' = [ndPoll EXCEPT ![t] = <<<<>>>>]

\* A success and a 409 close the dialog that is waiting for them.
NdAnswered(t) ==
  /\ ndCall[t] # <<>> /\ ndCall[t][1].step \in {"ok", "conflict", "failed"}
  /\ ndCall' = [ndCall EXCEPT ![t] = <<>>]
  /\ NdRefetch(t)
  /\ ndOwn' = IF ndCall[t][1].step = "ok" THEN [ndOwn EXCEPT ![t] = ndCall[t][1].at] ELSE ndOwn
  /\ ndForm' = IF ndForm[t] = <<>> \/ ~ndForm[t][1].sent THEN ndForm
               ELSE IF ndCall[t][1].step = "failed" THEN [ndForm EXCEPT ![t][1].sent = FALSE]
               ELSE [ndForm EXCEPT ![t] = <<>>]
  /\ UNCHANGED <<ndNode, ndSeen, ndUsed>>

\* The device starts or stops advertising; the CLI, another administrator or
\* an autoApprover approves or revokes.
NdOutside ==
  /\ ndNode.alive /\ NdUse("outside", NdMaxOutside)
  /\ \E r \in NdRoutes :
       \/ ndNode' = [ndNode EXCEPT !.available = NdToggled(@, NdBox(r)), !.at = @ + 1]
       \/ ndNode' = [ndNode EXCEPT !.approved = NdToggled(@, NdBox(r)), !.at = @ + 1]
  /\ UNCHANGED <<ndPage, ndForm, ndCall, ndOwn>>

NdNext ==
  \/ \E t \in NdTabs :
       \/ NdStartPoll(t) \/ NdServePoll(t) \/ NdPollArrives(t) \/ NdPollFails(t)
       \/ NdOpenRoutes(t) \/ NdTick(t) \/ NdClose(t)
       \/ NdSubmitRoutes(t) \/ NdClickRoute(t) \/ NdSubmitOther(t)
       \/ NdReadRoutes(t) \/ NdWrite(t) \/ NdAnswered(t)
  \/ NdOutside

NdSpec == NdInit /\ [][NdNext]_ndVars

-----------------------------------------------------------------------------
\* handleSetRoutes, "a guarded read-merge-replace": the write turns exactly
\* the set that the user saw into exactly the set that the user confirmed,
\* the exit routes as a pair; unless the set changes between the handler's
\* own read and write.
RoutesAsConfirmed ==
  [][\A t \in NdTabs :
       LET call == ndCall[t][1]
       IN  ndCall[t] # <<>> /\ call.step = "replace" /\ ndCall'[t] # ndCall[t] /\ ndNode' # ndNode
           /\ ndNode.approved = call.read
           => ndNode.approved = call.expected /\ ndNode'.approved = call.goal]_ndVars

\* A tab that was told of the success of its change never shows the node as
\* it was before: the refetch replaces a poll that may have read earlier.
OwnChangesStayShown ==
  [][\A t \in NdTabs : ndSeen'[t] # ndSeen[t] => ndSeen'[t][1].at >= ndOwn[t]]_ndVars
=============================================================================
