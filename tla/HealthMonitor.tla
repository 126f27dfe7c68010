----------------------------- MODULE HealthMonitor -----------------------------
(***************************************************************************)
(* The cached health of headscale (internal/server/health.go), its probes: *)
(* the ticker's and, before the first one has ended, those of GET          *)
(* /api/meta (internal/server/handlers_meta.go); and the status banner of  *)
(* each tab (frontend/src/components/Layout.tsx).                          *)
(***************************************************************************)
EXTENDS Naturals, Sequences

CONSTANTS
  HmTabs,      \* browser tabs
  HmFaults,    \* a call may fail although headscale is up
  HmMaxChanges,\* bound: changes of headscale's state
  HmMaxFaults  \* bound: failing calls, polls that are given up

ASSUME HmAssumption == HmMaxChanges \in Nat /\ HmMaxFaults \in Nat

VARIABLES
  hmActual,  \* headscale: running, unreachable, or refusing the API key
  hmStatus,  \* the cached status, <<>> before the first probe
  hmProbe,   \* the ticker and each tab's request: the probe under way, if any
  hmShown,   \* each tab: the status polled last, if any
  hmUsed     \* how much of each bound is used

hmVars == <<hmActual, hmStatus, hmProbe, hmShown, hmUsed>>

HmTicker == "ticker"
HmProbers == HmTabs \cup {HmTicker}
HmUse(bound, limit) == hmUsed[bound] < limit /\ hmUsed' = [hmUsed EXCEPT ![bound] = @ + 1]

\* What a probe makes of headscale: GET /version needs no key.
HmTrue == [reachable |-> hmActual # "down", apiKeyValid |-> hmActual = "up"]
HmNothing == [reachable |-> FALSE, apiKeyValid |-> FALSE]

HmInit ==
  /\ hmActual \in {"up", "down", "keyless"} /\ hmStatus = <<>>
  /\ hmProbe = [p \in HmProbers |-> <<>>] /\ hmShown = [t \in HmTabs |-> <<>>]
  /\ hmUsed = [changes |-> 0, faults |-> 0]

\* probe: the version, then the health, then the result is stored.  A call
\* that fails, or whose context is cancelled, counts as unreachable.
HmBegin(p) == hmProbe' = [hmProbe EXCEPT ![p] = <<[step |-> "version", s |-> HmNothing]>>]

HmLearns(p, next, s) ==
  \/ hmProbe' = [hmProbe EXCEPT ![p] = <<[step |-> next, s |-> s]>>] /\ UNCHANGED hmUsed
  \/ /\ HmFaults /\ HmUse("faults", HmMaxFaults)
     /\ hmProbe' = [hmProbe EXCEPT ![p][1].step = next]

HmVersion(p) ==
  /\ hmProbe[p] # <<>> /\ hmProbe[p][1].step = "version"
  /\ HmLearns(p, "health", [HmNothing EXCEPT !.reachable = HmTrue.reachable])
  /\ UNCHANGED <<hmActual, hmStatus, hmShown>>

HmHealth(p) ==
  /\ hmProbe[p] # <<>> /\ hmProbe[p][1].step = "health"
  /\ HmLearns(p, "store", [reachable |-> hmProbe[p][1].s.reachable \/ HmTrue.reachable,
                           apiKeyValid |-> HmTrue.apiKeyValid])
  /\ UNCHANGED <<hmActual, hmStatus, hmShown>>

HmStoreOnce(p) == hmStatus' = IF hmStatus = <<>> THEN <<hmProbe[p][1].s>> ELSE hmStatus
HmStore(p) == hmStatus' = <<hmProbe[p][1].s>>

\* The answer to a tab is what the cache holds after its own probe.
HmEnd(p) ==
  /\ hmProbe[p] # <<>> /\ hmProbe[p][1].step = "store"
  /\ HmStore(p)
  /\ hmProbe' = [hmProbe EXCEPT ![p] = <<>>]
  /\ hmShown' = IF p \in HmTabs THEN [hmShown EXCEPT ![p] = hmStatus'] ELSE hmShown
  /\ UNCHANGED <<hmActual, hmUsed>>

HmTick ==
  /\ hmProbe[HmTicker] = <<>> /\ HmBegin(HmTicker)
  /\ UNCHANGED <<hmActual, hmStatus, hmShown, hmUsed>>

\* GET /api/meta: the cache, or a probe when there has been none.
HmPoll(t) ==
  /\ hmProbe[t] = <<>>
  /\ \/ hmStatus = <<>> /\ HmBegin(t) /\ UNCHANGED hmShown
     \/ hmStatus # <<>> /\ hmShown' = [hmShown EXCEPT ![t] = hmStatus] /\ UNCHANGED hmProbe
  /\ UNCHANGED <<hmActual, hmStatus, hmUsed>>

\* A tab that is closed cancels its request: the calls left fail at once and
\* the result is stored all the same.
HmGiveUp(t) ==
  /\ hmProbe[t] # <<>> /\ hmProbe[t][1].step # "store" /\ HmUse("faults", HmMaxFaults)
  /\ hmProbe' = [hmProbe EXCEPT ![t][1].step = "store"]
  /\ UNCHANGED <<hmActual, hmStatus, hmShown>>

HmChange ==
  /\ HmUse("changes", HmMaxChanges) /\ hmActual' \in {"up", "down", "keyless"} \ {hmActual}
  /\ UNCHANGED <<hmStatus, hmProbe, hmShown>>

HmNext ==
  \/ \E p \in HmProbers : HmVersion(p) \/ HmHealth(p) \/ HmEnd(p)
  \/ \E t \in HmTabs : HmPoll(t) \/ HmGiveUp(t)
  \/ HmTick \/ HmChange

HmSpec == HmInit /\ [][HmNext]_hmVars

\* The ticker goes on, tabs go on polling, calls end within their timeout.
HmFairness ==
  /\ WF_hmVars(HmTick)
  /\ \A p \in HmProbers : WF_hmVars(HmVersion(p) \/ HmHealth(p) \/ HmEnd(p))
  /\ \A t \in HmTabs : WF_hmVars(HmPoll(t))

HmFairSpec == HmSpec /\ HmFairness

\* Once headscale stays as it is, every tab ends up showing its state and
\* goes on showing it: probes that overlap, fail or are cancelled may store
\* older or false results only for a while.
BannerSettles == \A t \in HmTabs : <>[](hmShown[t] = <<HmTrue>>)
=============================================================================
