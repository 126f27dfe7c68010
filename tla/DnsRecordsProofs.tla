-------------------------- MODULE DnsRecordsProofs --------------------------
(***************************************************************************)
(* Proofs about DnsRecords, for any tabs, records and bounds: the lock is  *)
(* held as intended, a save replaces what its tab sent the hash of, and    *)
(* what Head-Control wrote is among the versions.                          *)
(***************************************************************************)
EXTENDS DnsRecords, TLAPS

Requests == [records : Lists, expected : Loadable, force : BOOLEAN]
Bounds == [edits : Nat, saves : Nat, outside : Nat, restarts : Nat]

LockHeld == \A t \in Tabs : pc[t] \in Locked <=> mu = t

\* The parts of the type invariant that steps disturb.
PageOK ==
  /\ flight \in [Tabs -> {NoAnswer} \cup Loadable]
  /\ data \in [Tabs -> Loadable]
  /\ draft \in [Tabs -> Lists]
  /\ dirty \in [Tabs -> BOOLEAN] /\ conflict \in [Tabs -> BOOLEAN]
  /\ base \in [Tabs -> Loadable]

ServerOK ==
  /\ file \in Contents
  /\ mu \in {NoTab} \cup Tabs
  /\ versions \subseteq Lists
  /\ own \in BOOLEAN /\ foreign \in BOOLEAN

RequestOK == pc \in [Tabs -> Labels] /\ req \in [Tabs -> Requests]

\* What a save knows at each of its steps: its list was validated, the file is
\* still what it compared, and after the rename it is what it wrote.
SaveKnows(t) ==
  /\ pc[t] \in {"lock", "load", "write", "record"} => req[t].records \in Valid
  /\ pc[t] = "write" => req[t].force \/ foreign \/ file = req[t].expected
  /\ pc[t] = "record" /\ own => file = req[t].records

\* The inductive invariant.
DnsInv == TypeOK /\ (\A t \in Tabs : SaveKnows(t)) /\ OwnFileIsRecorded

LEMMA TypeParts ==
  TypeOK <=> PageOK /\ ServerOK /\ RequestOK /\ spent \in Bounds /\ LockHeld
BY DEF TypeOK, PageOK, ServerOK, RequestOK, LockHeld, Requests, Bounds

LEMMA TypePartsNext ==
  ASSUME PageOK', ServerOK', RequestOK', spent' \in Bounds, LockHeld'
  PROVE  TypeOK'
BY DEF TypeOK, PageOK, ServerOK, RequestOK, LockHeld, Requests, Bounds

----------------------------------------------------------------------------
(* The helpers keep types.                                                 *)

LEMMA ShownType == ASSUME NEW c \in Loadable PROVE Shown(c) \in Lists
BY DEF Shown, Loadable, Lists

LEMMA NoSaveType == NoSave \in Requests
BY DEF NoSave, Requests, Lists, Loadable

LEMMA LabelFacts ==
  /\ Locked \subseteq Labels /\ Serving \subseteq Labels
  /\ {"idle", "done", "refused", "failed", "validate", "lock"} \subseteq Labels
  /\ {"idle", "done", "refused", "failed", "validate", "lock"} \cap Locked = {}
  /\ {"load", "write", "record"} = Locked
BY DEF Locked, Serving, Labels

LEMMA SpendType ==
  ASSUME spent \in Bounds, NEW b \in {"edits", "saves", "outside", "restarts"},
         NEW limit, Spend(b, limit)
  PROVE  spent' \in Bounds
BY DEF Spend, Bounds

LEMMA FollowType ==
  ASSUME PageOK, NEW t \in Tabs, NEW c \in Loadable, NEW touched, Follow(t, c, touched)
  PROVE  draft' \in [Tabs -> Lists] /\ base' \in [Tabs -> Loadable]
<1>1. Shown(c) \in Lists
  BY ShownType
<1> QED
  BY <1>1 DEF Follow, PageOK

\* A step of one tab outside the lock, to a label outside the lock.
LEMMA UnlockedGoto ==
  ASSUME RequestOK, LockHeld, NEW t \in Tabs, NEW l \in Labels \ Locked,
         pc[t] \notin Locked, Goto(t, l), UNCHANGED mu
  PROVE  pc' \in [Tabs -> Labels] /\ LockHeld'
BY DEF RequestOK, LockHeld, Goto

\* A step of the holder of mu that keeps it.
LEMMA LockedGoto ==
  ASSUME RequestOK, LockHeld, NEW t \in Tabs, NEW l \in Locked,
         pc[t] \in Locked, Goto(t, l), UNCHANGED mu
  PROVE  pc' \in [Tabs -> Labels] /\ LockHeld'
BY LabelFacts DEF RequestOK, LockHeld, Goto

\* The deferred Unlock.
LEMMA ReturnUnlocks ==
  ASSUME RequestOK, LockHeld, NEW t \in Tabs, NEW l \in Labels \ Locked,
         pc[t] \in Locked, Return(t, l)
  PROVE  pc' \in [Tabs -> Labels] /\ LockHeld' /\ mu' = NoTab
BY DnsAssumption DEF RequestOK, LockHeld, Goto, Return

----------------------------------------------------------------------------
(* Type correctness.                                                       *)

LEMMA TypeInit == Init => TypeOK
<1> SUFFICES ASSUME Init PROVE TypeOK
  OBVIOUS
<1>1. file \in Loadable
  BY DnsAssumption DEF Init, Loadable
<1>2. PageOK
  BY <1>1, ShownType DEF Init, PageOK
<1>3. ServerOK
  BY <1>1 DEF Init, ServerOK, Contents
<1>4. RequestOK
  BY NoSaveType, LabelFacts DEF Init, RequestOK
<1>5. spent \in Bounds
  BY DEF Init, Bounds
<1>6. LockHeld
  BY LabelFacts, DnsAssumption DEF Init, LockHeld
<1> QED
  BY <1>2, <1>3, <1>4, <1>5, <1>6, TypeParts

\* The steps of the page leave the server alone, and the other way round.
LEMMA PageStepType ==
  ASSUME TypeOK, NEW t \in Tabs,
         User(t) \/ Poll(t) \/ Polled(t) \/ Succeed(t) \/ Fail(t)
  PROVE  TypeOK'
<1> USE DEF fileVars, tabVars
<1>0. PageOK /\ ServerOK /\ RequestOK /\ spent \in Bounds /\ LockHeld
  BY TypeParts
<1>1. CASE Edit(t)
  <2>1. PageOK'
    BY <1>0, <1>1 DEF Edit, PageOK
  <2>2. spent' \in Bounds
    BY <1>0, <1>1, SpendType DEF Edit
  <2>3. ServerOK' /\ RequestOK' /\ LockHeld'
    BY <1>0, <1>1 DEF Edit, ServerOK, RequestOK, LockHeld
  <2> QED
    BY <2>1, <2>2, <2>3, TypePartsNext
<1>2. ASSUME NEW force \in BOOLEAN, Submit(t, force) PROVE TypeOK'
  <2>1. [records |-> draft[t], expected |-> data[t], force |-> force] \in Requests
    BY <1>0 DEF PageOK, Requests
  <2>2. pc' \in [Tabs -> Labels] /\ LockHeld'
    BY <1>0, <1>2, LabelFacts, UnlockedGoto DEF Submit
  <2>3. RequestOK'
    BY <1>0, <1>2, <2>1, <2>2 DEF Submit, RequestOK
  <2>4. spent' \in Bounds
    BY <1>0, <1>2, SpendType DEF Submit
  <2>5. PageOK' /\ ServerOK'
    BY <1>0, <1>2 DEF Submit, PageOK, ServerOK
  <2> QED
    BY <2>2, <2>3, <2>4, <2>5, TypePartsNext
<1>3. CASE Save(t)
  BY <1>2, <1>3 DEF Save
<1>4. CASE Overwrite(t)
  BY <1>2, <1>4 DEF Overwrite
<1>5. CASE Discard(t)
  <2>1. data[t] \in Loadable
    BY <1>0 DEF PageOK
  <2>2. draft' \in [Tabs -> Lists] /\ base' \in [Tabs -> Loadable]
    BY <1>0, <1>5, <2>1, FollowType DEF Discard
  <2>3. PageOK'
    BY <1>0, <1>5, <2>2 DEF Discard, Invalidate, PageOK
  <2>4. ServerOK' /\ RequestOK' /\ spent' \in Bounds /\ LockHeld'
    BY <1>0, <1>5 DEF Discard, ServerOK, RequestOK, LockHeld
  <2> QED
    BY <2>3, <2>4, TypePartsNext
<1>6. CASE CloseDialog(t)
  <2>1. PageOK' /\ ServerOK' /\ RequestOK' /\ spent' \in Bounds /\ LockHeld'
    BY <1>0, <1>6 DEF CloseDialog, PageOK, ServerOK, RequestOK, LockHeld
  <2> QED
    BY <2>1, TypePartsNext
<1>7. CASE Poll(t)
  <2>1. file \in Loadable
    BY <1>0, <1>7 DEF Poll, ServerOK, Contents
  <2>2. PageOK'
    BY <1>0, <1>7, <2>1 DEF Poll, PageOK
  <2>3. ServerOK' /\ RequestOK' /\ spent' \in Bounds /\ LockHeld'
    BY <1>0, <1>7 DEF Poll, ServerOK, RequestOK, LockHeld
  <2> QED
    BY <2>2, <2>3, TypePartsNext
<1>8. CASE Polled(t)
  <2>1. flight[t] \in Loadable
    BY <1>0, <1>8 DEF Polled, PageOK
  <2>2. draft' \in [Tabs -> Lists] /\ base' \in [Tabs -> Loadable]
    BY <1>0, <1>8, <2>1, FollowType DEF Polled
  <2>3. PageOK'
    BY <1>0, <1>8, <2>1, <2>2 DEF Polled, PageOK
  <2>4. ServerOK' /\ RequestOK' /\ spent' \in Bounds /\ LockHeld'
    BY <1>0, <1>8 DEF Polled, ServerOK, RequestOK, LockHeld
  <2> QED
    BY <2>3, <2>4, TypePartsNext
<1>9. CASE Succeed(t)
  <2>1. data[t] \in Loadable
    BY <1>0 DEF PageOK
  <2>2. draft' \in [Tabs -> Lists] /\ base' \in [Tabs -> Loadable]
    BY <1>0, <1>9, <2>1, FollowType DEF Succeed
  <2>3. PageOK'
    BY <1>0, <1>9, <2>2 DEF Succeed, Invalidate, PageOK
  <2>4. pc' \in [Tabs -> Labels] /\ LockHeld'
    BY <1>0, <1>9, LabelFacts, UnlockedGoto DEF Succeed
  <2>5. ServerOK' /\ RequestOK' /\ spent' \in Bounds
    BY <1>0, <1>9, <2>4, NoSaveType DEF Succeed, ServerOK, RequestOK
  <2> QED
    BY <2>3, <2>4, <2>5, TypePartsNext
<1>10. CASE Fail(t)
  <2>1. PageOK'
    BY <1>0, <1>10 DEF Fail, Invalidate, PageOK
  <2>2. pc[t] \in {"refused", "failed", "done"} /\ Goto(t, "idle") /\ UNCHANGED mu
    BY <1>10 DEF Fail
  <2>3. pc' \in [Tabs -> Labels] /\ LockHeld'
    BY <1>0, <2>2, LabelFacts, UnlockedGoto
  <2>4. ServerOK' /\ RequestOK' /\ spent' \in Bounds
    BY <1>0, <1>10, <2>3, NoSaveType DEF Fail, ServerOK, RequestOK
  <2> QED
    BY <2>1, <2>3, <2>4, TypePartsNext
<1> QED
  BY <1>1, <1>3, <1>4, <1>5, <1>6, <1>7, <1>8, <1>9, <1>10 DEF User

\* One goroutine's step of a save: what it does to pc and mu, and types.
LEMMA SaveStepType ==
  ASSUME TypeOK, NEW t \in Tabs,
         Validate(t) \/ Lock(t) \/ Load(t) \/ Write(t) \/ Record(t)
  PROVE  TypeOK'
<1> USE DEF fileVars, tabVars
<1>0. PageOK /\ ServerOK /\ RequestOK /\ spent \in Bounds /\ LockHeld
  BY TypeParts
<1>1. PageOK' /\ spent' \in Bounds /\ req' = req
  BY <1>0 DEF PageOK, Validate, Lock, Load, Write, Record
<1>2. SUFFICES pc' \in [Tabs -> Labels] /\ LockHeld' /\ ServerOK'
  BY <1>0, <1>1, TypePartsNext DEF RequestOK
<1>3. CASE Validate(t)
  <2>1. PICK l \in {"lock", "failed"} : Goto(t, l)
    BY <1>3 DEF Validate
  <2> QED
    BY <1>0, <1>3, <2>1, LabelFacts, UnlockedGoto DEF Validate, ServerOK
<1>4. CASE Lock(t)
  <2>1. mu = NoTab /\ mu' = t /\ pc' = [pc EXCEPT ![t] = "load"]
    BY <1>4 DEF Lock, Goto
  <2>2. pc' \in [Tabs -> Labels]
    BY <1>0, <2>1, LabelFacts DEF RequestOK
  <2>3. LockHeld'
    BY <1>0, <2>1, LabelFacts, DnsAssumption DEF RequestOK, LockHeld
  <2> QED
    BY <1>0, <1>4, <2>2, <2>3 DEF Lock, ServerOK
<1>5. CASE Load(t)
  <2>1. pc' \in [Tabs -> Labels] /\ LockHeld'
    <3>1. CASE Return(t, "failed") \/ Return(t, "refused")
      BY <1>0, <1>5, <3>1, LabelFacts, ReturnUnlocks DEF Load
    <3>2. CASE Goto(t, "write") /\ UNCHANGED mu
      BY <1>0, <1>5, <3>2, LabelFacts, LockedGoto DEF Load
    <3> QED
      BY <1>5, <3>1, <3>2 DEF Load
  <2>2. ServerOK'
    BY <1>0, <1>5 DEF Load, ServerOK, Return
  <2> QED
    BY <2>1, <2>2
<1>6. CASE Write(t)
  <2>1. pc' \in [Tabs -> Labels] /\ LockHeld'
    <3>1. CASE Return(t, "failed")
      BY <1>0, <1>6, <3>1, LabelFacts, ReturnUnlocks DEF Write
    <3>2. CASE Goto(t, "record") /\ UNCHANGED mu
      BY <1>0, <1>6, <3>2, LabelFacts, LockedGoto DEF Write
    <3> QED
      BY <1>6, <3>1, <3>2 DEF Write
  <2>2. req[t].records \in Contents
    BY <1>0 DEF RequestOK, Requests, Contents, Loadable
  <2>3. ServerOK'
    BY <1>0, <1>6, <2>2 DEF Write, ServerOK, Return
  <2> QED
    BY <2>1, <2>3
<1>7. CASE Record(t)
  <2>1. pc' \in [Tabs -> Labels] /\ LockHeld' /\ mu' = NoTab
    BY <1>0, <1>7, LabelFacts, ReturnUnlocks DEF Record
  <2>2. req[t].records \in Lists
    BY <1>0 DEF RequestOK, Requests
  <2>3. ServerOK'
    BY <1>0, <1>7, <2>1, <2>2 DEF Record, ServerOK
  <2> QED
    BY <2>1, <2>3
<1> QED
  BY <1>3, <1>4, <1>5, <1>6, <1>7

LEMMA OthersType == TypeOK /\ (OutsideEdit \/ Restart) => TypeOK'
<1> SUFFICES ASSUME TypeOK, OutsideEdit \/ Restart PROVE TypeOK'
  OBVIOUS
<1> USE DEF fileVars, tabVars
<1>0. PageOK /\ ServerOK /\ RequestOK /\ spent \in Bounds /\ LockHeld
  BY TypeParts
<1>1. spent' \in Bounds
  BY <1>0, SpendType DEF OutsideEdit, Restart
<1>2. CASE OutsideEdit
  <2>1. PageOK' /\ ServerOK' /\ RequestOK' /\ LockHeld'
    BY <1>0, <1>2 DEF OutsideEdit, PageOK, ServerOK, RequestOK, LockHeld
  <2> QED
    BY <1>1, <2>1, TypePartsNext
<1>3. CASE Restart
  <2>1. PageOK' /\ ServerOK'
    BY <1>0, <1>3 DEF Restart, PageOK, ServerOK
  <2>2. RequestOK'
    BY <1>0, <1>3, LabelFacts DEF Restart, RequestOK
  <2>3. \A t \in Tabs : pc'[t] \notin Locked
    BY <1>0, <1>3, LabelFacts DEF Restart, RequestOK, Serving
  <2>4. LockHeld'
    BY <1>3, <2>3, DnsAssumption DEF Restart, LockHeld
  <2> QED
    BY <1>1, <2>1, <2>2, <2>4, TypePartsNext
<1> QED
  BY <1>2, <1>3

LEMMA TypeStep == TypeOK /\ [Next]_vars => TypeOK'
<1> SUFFICES ASSUME TypeOK, [Next]_vars PROVE TypeOK'
  OBVIOUS
<1>1. CASE UNCHANGED vars
  BY <1>1 DEF vars, fileVars, tabVars, TypeOK
<1>2. CASE Next
  BY <1>2, PageStepType, SaveStepType, OthersType DEF Next, SaveStep
<1> QED
  BY <1>1, <1>2

\* Every variable keeps its type and mu is held by exactly the save that is
\* between its Lock and its deferred Unlock, whatever fails.
THEOREM DnsTypeCorrect == Spec => []TypeOK
BY TypeInit, TypeStep, PTL DEF Spec

----------------------------------------------------------------------------
(* What a save knows.                                                      *)

LEMMA DnsInit == Init => DnsInv
<1> SUFFICES ASSUME Init PROVE DnsInv
  OBVIOUS
<1>1. \A t \in Tabs : SaveKnows(t)
  BY DEF Init, SaveKnows
<1> QED
  BY <1>1, TypeInit DEF DnsInv, Init, OwnFileIsRecorded

\* Steps that touch neither the file nor a save.
LEMMA QuietStep ==
  ASSUME DnsInv, UNCHANGED <<fileVars, versions, pc, req>>
  PROVE  (\A u \in Tabs : SaveKnows(u))' /\ OwnFileIsRecorded'
BY DEF DnsInv, SaveKnows, OwnFileIsRecorded, fileVars

\* A save that begins or ends without having replaced the file.
LEMMA PlainStep ==
  ASSUME DnsInv, NEW t \in Tabs, NEW l \in {"idle", "validate", "done", "refused", "failed"},
         pc[t] # "record", Goto(t, l), UNCHANGED <<fileVars, versions>>,
         \A u \in Tabs \ {t} : req'[u] = req[u]
  PROVE  (\A u \in Tabs : SaveKnows(u))' /\ OwnFileIsRecorded'
<1>1. pc' = [pc EXCEPT ![t] = l] /\ pc \in [Tabs -> Labels]
  BY DEF Goto, DnsInv, TypeOK
<1>2. ASSUME NEW u \in Tabs PROVE SaveKnows(u)'
  <2>1. CASE u = t
    BY <1>1, <2>1 DEF SaveKnows
  <2>2. CASE u # t
    BY <1>1, <2>2 DEF DnsInv, SaveKnows, fileVars
  <2> QED
    BY <2>1, <2>2
<1>3. OwnFileIsRecorded'
  BY <1>1 DEF DnsInv, OwnFileIsRecorded, fileVars
<1> QED
  BY <1>2, <1>3

LEMMA PageStepKnows ==
  ASSUME DnsInv, NEW t \in Tabs,
         User(t) \/ Poll(t) \/ Polled(t) \/ Succeed(t) \/ Fail(t)
  PROVE  (\A u \in Tabs : SaveKnows(u))' /\ OwnFileIsRecorded'
<1>1. CASE Edit(t) \/ Discard(t) \/ CloseDialog(t) \/ Poll(t) \/ Polled(t)
  BY <1>1, QuietStep DEF Edit, Discard, CloseDialog, Poll, Polled
<1>2. ASSUME NEW force, Submit(t, force) PROVE (\A u \in Tabs : SaveKnows(u))' /\ OwnFileIsRecorded'
  <2>1. \A u \in Tabs \ {t} : req'[u] = req[u]
    BY <1>2 DEF Submit, DnsInv, TypeOK
  <2> QED
    BY <1>2, <2>1, PlainStep DEF Submit
<1>3. CASE Succeed(t) \/ Fail(t)
  <2>1. \A u \in Tabs \ {t} : req'[u] = req[u]
    BY <1>3 DEF Succeed, Fail, DnsInv, TypeOK
  <2>2. pc[t] # "record" /\ Goto(t, "idle") /\ UNCHANGED <<fileVars, versions>>
    BY <1>3 DEF Succeed, Fail
  <2> QED
    BY <2>1, <2>2, PlainStep
<1> QED
  BY <1>1, <1>2, <1>3 DEF User, Save, Overwrite

\* While a save is between Lock and Unlock no other save is.
LEMMA Alone ==
  ASSUME TypeOK, NEW t \in Tabs, pc[t] \in Locked, NEW u \in Tabs, u # t
  PROVE  pc[u] \notin Locked
BY DEF TypeOK

LEMMA SaveStepKnows ==
  ASSUME DnsInv, NEW t \in Tabs,
         Validate(t) \/ Lock(t) \/ Load(t) \/ Write(t) \/ Record(t)
  PROVE  (\A u \in Tabs : SaveKnows(u))' /\ OwnFileIsRecorded'
<1>0. TypeOK /\ pc \in [Tabs -> Labels] /\ \A u \in Tabs : SaveKnows(u)
  BY DEF DnsInv, TypeOK
<1>1. ASSUME pc[t] \in Locked
      PROVE  \A u \in Tabs \ {t} : pc[u] \notin {"load", "write", "record"}
  BY <1>0, <1>1, Alone, LabelFacts
<1>2. CASE Validate(t)
  <2>1. CASE req[t].records \notin Valid
    BY <1>2, <2>1, PlainStep DEF Validate
  <2>2. CASE req[t].records \in Valid
    <3>1. pc' = [pc EXCEPT ![t] = "lock"] /\ UNCHANGED <<fileVars, versions, req>>
      BY <1>2, <2>2 DEF Validate, Goto
    <3>2. ASSUME NEW u \in Tabs PROVE SaveKnows(u)'
      BY <1>0, <2>2, <3>1 DEF SaveKnows, fileVars
    <3>3. OwnFileIsRecorded'
      BY <1>0, <1>2, <3>1 DEF Validate, DnsInv, OwnFileIsRecorded, fileVars
    <3> QED
      BY <3>2, <3>3
  <2> QED
    BY <2>1, <2>2
<1>3. CASE Lock(t)
  <2>1. pc[t] = "lock" /\ pc' = [pc EXCEPT ![t] = "load"] /\ UNCHANGED <<fileVars, versions, req>>
    BY <1>3 DEF Lock, Goto
  <2>2. ASSUME NEW u \in Tabs PROVE SaveKnows(u)'
    BY <1>0, <2>1 DEF SaveKnows, fileVars
  <2>3. OwnFileIsRecorded'
    BY <1>0, <2>1 DEF DnsInv, OwnFileIsRecorded, fileVars
  <2> QED
    BY <2>2, <2>3
<1>4. CASE Load(t)
  <2>1. PICK l \in {"failed", "refused", "write"} :
          /\ pc' = [pc EXCEPT ![t] = l]
          /\ l = "write" => req[t].force \/ file = req[t].expected
    BY <1>4 DEF Load, Return, Goto
  <2>2. pc[t] = "load" /\ UNCHANGED <<file, own, versions, req>>
    BY <1>4 DEF Load
  <2>3. \A u \in Tabs \ {t} : pc[u] \notin {"load", "write", "record"}
    BY <1>1, <2>2, LabelFacts
  <2>4. ASSUME NEW u \in Tabs PROVE SaveKnows(u)'
    BY <1>0, <2>1, <2>2, <2>3 DEF SaveKnows
  <2>5. OwnFileIsRecorded'
    BY <1>0, <2>1, <2>2 DEF DnsInv, OwnFileIsRecorded
  <2> QED
    BY <2>4, <2>5
<1>5. CASE Write(t)
  <2>1. CASE Return(t, "failed") /\ UNCHANGED <<file, own>>
    BY <1>5, <2>1, PlainStep DEF Write, Return, fileVars
  <2>2. CASE pc' = [pc EXCEPT ![t] = "record"] /\ file' = req[t].records
    <3>1. pc[t] = "write" /\ UNCHANGED <<foreign, req>>
      BY <1>5 DEF Write
    <3>2. \A u \in Tabs \ {t} : pc[u] \notin {"load", "write", "record"}
      BY <1>1, <3>1, LabelFacts
    <3>3. req[t].records \in Valid
      BY <1>0, <3>1 DEF SaveKnows
    <3>4. ASSUME NEW u \in Tabs PROVE SaveKnows(u)'
      BY <1>0, <2>2, <3>1, <3>2, <3>3 DEF SaveKnows
    <3>5. OwnFileIsRecorded'
      BY <1>0, <2>2, <3>3 DEF OwnFileIsRecorded
    <3> QED
      BY <3>4, <3>5
  <2> QED
    BY <1>5, <2>1, <2>2 DEF Write, Goto
<1>6. CASE Record(t)
  <2>1. pc[t] = "record" /\ pc' = [pc EXCEPT ![t] = "done"] /\ UNCHANGED <<file, foreign, req>>
    BY <1>6 DEF Record, Return, Goto
  <2>2. \A u \in Tabs \ {t} : pc[u] \notin {"load", "write", "record"}
    BY <1>1, <2>1, LabelFacts
  <2>3. ASSUME NEW u \in Tabs PROVE SaveKnows(u)'
    BY <1>0, <2>1, <2>2 DEF SaveKnows
  <2>4. OwnFileIsRecorded'
    <3>1. CASE own' = FALSE
      BY <3>1 DEF OwnFileIsRecorded
    <3>2. CASE own' = own /\ versions' = versions \cup {req[t].records}
      BY <1>0, <2>1, <3>2 DEF DnsInv, SaveKnows, OwnFileIsRecorded
    <3> QED
      BY <1>6, <3>1, <3>2 DEF Record
  <2> QED
    BY <2>3, <2>4
<1> QED
  BY <1>2, <1>3, <1>4, <1>5, <1>6

LEMMA OthersKnow ==
  ASSUME DnsInv, OutsideEdit \/ Restart
  PROVE  (\A u \in Tabs : SaveKnows(u))' /\ OwnFileIsRecorded'
<1>0. pc \in [Tabs -> Labels] /\ \A u \in Tabs : SaveKnows(u)
  BY DEF DnsInv, TypeOK
<1>1. CASE OutsideEdit
  BY <1>0, <1>1 DEF OutsideEdit, SaveKnows, OwnFileIsRecorded
<1>2. CASE Restart
  <2>1. \A u \in Tabs : pc'[u] \notin {"lock", "load", "write", "record"}
    BY <1>0, <1>2 DEF Restart, Serving, Locked
  <2>2. (\A u \in Tabs : SaveKnows(u))'
    BY <2>1 DEF SaveKnows
  <2>3. OwnFileIsRecorded'
    BY <1>2 DEF Restart, DnsInv, OwnFileIsRecorded, fileVars
  <2> QED
    BY <2>2, <2>3
<1> QED
  BY <1>1, <1>2

LEMMA DnsStep == DnsInv /\ [Next]_vars => DnsInv'
<1> SUFFICES ASSUME DnsInv, [Next]_vars PROVE DnsInv'
  OBVIOUS
<1>1. TypeOK'
  BY TypeStep DEF DnsInv
<1>2. (\A u \in Tabs : SaveKnows(u))' /\ OwnFileIsRecorded'
  <2>1. CASE UNCHANGED vars
    BY <2>1, QuietStep DEF vars
  <2>2. CASE Next
    BY <2>2, PageStepKnows, SaveStepKnows, OthersKnow DEF Next, SaveStep
  <2> QED
    BY <2>1, <2>2
<1> QED
  BY <1>1, <1>2 DEF DnsInv

\* A save that is not forced replaces the content whose hash its tab sent; only
\* an edit made outside Head-Control can come between.
THEOREM NoRecordsAreOverwrittenUnseen == Spec => NoUnseenOverwrite
<1>1. DnsInv /\ [Next]_vars
        => [\A t \in Tabs :
              pc[t] = "write" /\ pc'[t] = "record"
                => req[t].force \/ foreign \/ file = req[t].expected]_vars
  BY DEF DnsInv, SaveKnows
<1> QED
  BY <1>1, DnsInit, DnsStep, PTL DEF Spec, NoUnseenOverwrite

\* What Head-Control wrote is valid and, once the save has released mu, among
\* the stored versions.
THEOREM WrittenRecordsAreStored == Spec => []OwnFileIsRecorded
<1>1. DnsInv => OwnFileIsRecorded
  BY DEF DnsInv
<1> QED
  BY <1>1, DnsInit, DnsStep, PTL DEF Spec
=============================================================================
