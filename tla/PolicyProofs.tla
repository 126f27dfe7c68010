---------------------------- MODULE PolicyProofs ----------------------------
(***************************************************************************)
(* Proofs about PolicyManager, for any number of clients and rules and     *)
(* for every configuration the constants describe.  The last part is about *)
(* structured saves as a whole: no rule gets lost between the policy and   *)
(* the table of disabled rules, and seen from outside a save is one step   *)
(* of the register of module PolicyRegister.  The theorems name the        *)
(* failures they need absent.                                              *)
(***************************************************************************)
EXTENDS PolicyProperties, TLAPS

Requests == [op : AllOperations \cup {"none"}, live : Texts, off : Texts,
             base : TextOrUnset, force : BOOLEAN]
States == [text : Texts, stamped : BOOLEAN]
Views  == [base : TextOrUnset, off : Texts]
Rows   == [source : {"ui", "external-snapshot"}, text : Texts]
Budget == [starts : Nat, outside : Nat, restarts : Nat, switches : Nat]

(* The type invariant, by the parts that helpers and actions change together. *)

HsOK ==
  /\ hsMode \in {"database", "file"} /\ dbPolicy \in TextOrUnset
  /\ running \in Texts /\ hupSent \in BOOLEAN /\ late \subseteq Texts
  /\ byUi \in BOOLEAN

ModeOK == mode \in Modes /\ kvMode \in {"database", "file", Unset}

StoreOK == versions \subseteq Rows /\ newest \in TextOrUnset /\ meta \in Texts

RequestOK ==
  /\ pc \in [Clients -> Labels] /\ req \in [Clients -> Requests]
  /\ served \in [Clients -> States] /\ result \in [Clients -> Answers]
  /\ modelMu \in Clients \cup {NoClient}

LEMMA TypeParts ==
  TypeOK <=> /\ HsOK /\ ModeOK /\ StoreOK /\ RequestOK
             /\ file \in Texts /\ view \in [Clients -> Views]
             /\ foreign \in BOOLEAN /\ spent \in Budget
BY DEF TypeOK, HsOK, ModeOK, StoreOK, RequestOK, Requests, States, Views, Rows, Budget

----------------------------------------------------------------------------
(* The helpers keep types.                                                 *)

LEMMA ConstantsType ==
  /\ NoRequest \in Requests /\ NoState \in States /\ NoView \in Views
  /\ {} \in Texts /\ Unset \in TextOrUnset /\ Texts \subseteq TextOrUnset
BY DEF NoRequest, NoState, NoView, Requests, States, Views, Texts, TextOrUnset,
       AllOperations

LEMMA LabelsAre ==
  {"idle", "lock", "meta", "fetch", "latest", "snapshot", "seeMode", "learn", "learnKV",
   "reply", "metas", "compare", "check", "readMode", "put", "dbMode", "dbKV", "dbRecord",
   "fileMode", "fileKV", "write", "fileRecord", "hup", "verify"} = Labels
BY DEF Labels, GetLabels, SaveLabels

LEMMA GotoType ==
  ASSUME pc \in [Clients -> Labels], NEW c \in Clients, NEW l \in Labels, Goto(c, l)
  PROVE  pc' \in [Clients -> Labels]
BY DEF Goto

LEMMA StepType ==
  ASSUME RequestOK, NEW c \in Clients, NEW l \in Labels, Step(c, l)
  PROVE  RequestOK' /\ UNCHANGED foreign
BY GotoType DEF Step, RequestOK

LEMMA FinishType ==
  ASSUME RequestOK, NEW c \in Clients, NEW a \in Answers, Finish(c, a)
  PROVE  RequestOK' /\ foreign' \in BOOLEAN
<1>1. pc' \in [Clients -> Labels]
  BY GotoType, LabelsAre DEF Finish, RequestOK
<1>2. req' \in [Clients -> Requests] /\ served' \in [Clients -> States]
  BY ConstantsType DEF Finish, RequestOK
<1>3. result' \in [Clients -> Answers] /\ modelMu' \in Clients \cup {NoClient}
  BY DEF Finish, RequestOK
<1>4. foreign' \in BOOLEAN
  BY Zenon DEF Finish
<1> QED
  BY <1>1, <1>2, <1>3, <1>4 DEF RequestOK

LEMMA SaveReturnsType ==
  ASSUME RequestOK, foreign \in BOOLEAN, NEW c \in Clients, NEW a \in Answers,
         SaveReturns(c, a)
  PROVE  RequestOK' /\ foreign' \in BOOLEAN
<1>1. CASE req[c].op = "model"
  <2>1. pc' \in [Clients -> Labels]
    BY <1>1, GotoType, LabelsAre DEF SaveReturns, RequestOK
  <2> QED
    BY <1>1, <2>1 DEF SaveReturns, RequestOK
<1>2. CASE req[c].op # "model"
  BY <1>2, FinishType DEF SaveReturns
<1> QED
  BY <1>1, <1>2

LEMMA AnswersAre ==
  {"none", "ok", "pending", "reloaded", "conflict", "error", "notWritable", "warned"}
    = Answers
BY DEF Answers

LEMMA ServedType == ASSUME HsOK, file \in Texts PROVE Served \in Texts
BY ConstantsType DEF HsOK, Served, TextOrUnset

LEMMA NewModeType ==
  ASSUME NEW saved \in {"database", "file", Unset} PROVE NewMode(saved) \in Modes
BY ConstantsAssumption DEF NewMode, Modes

LEMMA AddVersionType ==
  ASSUME StoreOK, NEW s \in {"ui", "external-snapshot"}, NEW t \in Texts,
         AddVersion(s, t)
  PROVE  StoreOK'
<1>1. [source |-> s, text |-> t] \in Rows
  BY DEF Rows
<1> QED
  BY <1>1, ConstantsType DEF StoreOK, AddVersion

----------------------------------------------------------------------------
(* Type correctness, one lemma per group of actions.                       *)

TypeParted ==
  /\ HsOK /\ ModeOK /\ StoreOK /\ RequestOK
  /\ file \in Texts /\ view \in [Clients -> Views]
  /\ foreign \in BOOLEAN /\ spent \in Budget

\* The variables a request step leaves alone keep their types.
LEMMA HsStays == ASSUME HsOK, UNCHANGED hsVars PROVE HsOK'
BY DEF HsOK, hsVars

LEMMA ModeStays == ASSUME ModeOK, UNCHANGED modeVars PROVE ModeOK'
BY DEF ModeOK, modeVars

LEMMA StoreStays == ASSUME StoreOK, UNCHANGED storeVars PROVE StoreOK'
BY DEF StoreOK, storeVars

LEMMA BeginType ==
  ASSUME TypeParted, NEW c \in Clients, NEW r \in Requests, NEW l \in Labels,
         Begin(c, r, l)
  PROVE  TypeParted'
<1> USE DEF TypeParted, Begin
<1>1. HsOK' /\ ModeOK' /\ StoreOK'
  BY HsStays, ModeStays, StoreStays
<1>2. pc' \in [Clients -> Labels]
  BY GotoType DEF RequestOK
<1>3. RequestOK'
  BY <1>2, AnswersAre DEF RequestOK
<1>4. spent' \in Budget
  BY DEF Budget
<1> QED
  BY <1>1, <1>3, <1>4

LEMMA BeginStepType ==
  ASSUME TypeParted, NEW c \in Clients, BeginStep(c) PROVE TypeParted'
<1>1. CASE BeginRead(c)
  <2>1. PICK op \in {"get", "load"} : Begin(c, [NoRequest EXCEPT !.op = op], "fetch")
    BY <1>1 DEF BeginRead
  <2>2. [NoRequest EXCEPT !.op = op] \in Requests
    BY ConstantsType DEF Requests, AllOperations
  <2> QED
    BY <2>1, <2>2, BeginType, LabelsAre
<1>2. CASE BeginSave(c)
  <2>1. PICK text \in Texts :
          Begin(c, [NoRequest EXCEPT !.op = "save", !.live = text], "check")
    BY <1>2 DEF BeginSave
  <2>2. [NoRequest EXCEPT !.op = "save", !.live = text] \in Requests
    BY ConstantsType DEF Requests, AllOperations
  <2> QED
    BY <2>1, <2>2, BeginType, LabelsAre
<1>3. CASE BeginModel(c)
  <2>1. PICK live \in Texts, off \in Texts, force \in BOOLEAN :
          Begin(c, [op |-> "model", live |-> live, off |-> off,
                    base |-> view[c].base, force |-> force], "lock")
    BY <1>3 DEF BeginModel
  <2>2. view[c].base \in TextOrUnset
    BY DEF TypeParted, Views
  <2>3. [op |-> "model", live |-> live, off |-> off,
         base |-> view[c].base, force |-> force] \in Requests
    BY <2>2 DEF Requests, AllOperations
  <2> QED
    BY <2>1, <2>3, BeginType, LabelsAre
<1> QED
  BY <1>1, <1>2, <1>3 DEF BeginStep

LEMMA SetModeType ==
  ASSUME TypeParted, NEW c \in Clients, NEW l \in Labels, NEW m \in {"database", "file"},
         NEW k \in Labels, NEW n \in Labels,
         SetMode(c, l, m, k, n) \/ StoreMode(c, k, m, n)
  PROVE  TypeParted'
<1>1. RequestOK' /\ UNCHANGED foreign
  BY StepType DEF TypeParted, SetMode, StoreMode
<1>2. ModeOK'
  BY DEF TypeParted, ModeOK, Modes, SetMode, StoreMode
<1>3. HsOK' /\ StoreOK' /\ UNCHANGED <<file, view, spent>>
  BY HsStays, StoreStays DEF TypeParted, SetMode, StoreMode
<1> QED
  BY <1>1, <1>2, <1>3 DEF TypeParted

LEMMA ShowModelType ==
  ASSUME TypeParted, NEW c \in Clients, ShowModel(c) PROVE view' \in [Clients -> Views]
<1>1. PICK rows \in {meta} \cup (IF StoreFails THEN {{}} ELSE {}) :
        view' = [view EXCEPT ![c] = [base |-> served[c].text, off |-> rows \ served[c].text]]
  BY DEF ShowModel
<1>2. served[c].text \in TextOrUnset /\ rows \in Texts
  BY <1>1, ConstantsType DEF TypeParted, RequestOK, States, StoreOK
<1>3. [base |-> served[c].text, off |-> rows \ served[c].text] \in Views
  BY <1>2 DEF Views, Texts
<1> QED
  BY <1>1, <1>3 DEF TypeParted

LEMMA GetStepType ==
  ASSUME TypeParted, NEW c \in Clients, GetStep(c) PROVE TypeParted'
<1> USE LabelsAre, AnswersAre, HsStays, ModeStays, StoreStays
<1>1. CASE Fetch(c)
  <2>1. CASE Faults /\ Finish(c, "error")
    BY <1>1, <2>1, FinishType DEF TypeParted, Fetch
  <2>2. CASE ~(Faults /\ Finish(c, "error"))
    <3>1. [text |-> Served, stamped |-> hsMode = "database" /\ dbPolicy # Unset] \in States
      BY ServedType DEF TypeParted, HsOK, States
    <3>2. pc' \in [Clients -> Labels] /\ served' \in [Clients -> States]
          /\ UNCHANGED <<req, result, modelMu>>
      BY <1>1, <2>2, <3>1, GotoType DEF Fetch, TypeParted, RequestOK
    <3>3. foreign' \in BOOLEAN
      BY <1>1, <2>2, Zenon DEF Fetch
    <3> QED
      BY <1>1, <3>2, <3>3 DEF Fetch, TypeParted, RequestOK
  <2> QED
    BY <2>1, <2>2
<1>2. CASE CompareLatest(c)
  BY <1>2, StepType DEF CompareLatest, TypeParted
<1>3. CASE Snapshot(c)
  <2>1. served[c].text \in Texts
    BY DEF TypeParted, RequestOK, States
  <2>2. StoreOK'
    BY <1>3, <2>1, AddVersionType DEF Snapshot, TypeParted
  <2> QED
    BY <1>3, <2>2, StepType DEF Snapshot, TypeParted
<1>4. CASE SeeMode(c)
  BY <1>4, StepType DEF SeeMode, TypeParted
<1>5. CASE LearnDatabase(c)
  <2>1. \/ SetMode(c, "learn", "database", "learnKV", "reply")
        \/ StoreMode(c, "learnKV", "database", "reply")
    BY <1>5 DEF LearnDatabase
  <2>2. {"learn", "learnKV", "reply"} \subseteq Labels
    OBVIOUS
  <2> HIDE LabelsAre
  <2> QED
    BY <2>1, <2>2, SetModeType
<1>6. CASE Reply(c)
  <2>1. \/ \E a \in Answers : Finish(c, a)
        \/ Step(c, "metas")
        \/ \E a \in Answers : /\ Goto(c, "compare")
                              /\ result' = [result EXCEPT ![c] = a]
                              /\ UNCHANGED <<req, served, modelMu, foreign>>
    BY <1>6 DEF Reply
  <2>2. RequestOK' /\ foreign' \in BOOLEAN
    <3>1. CASE \E a \in Answers : Finish(c, a)
      BY <3>1, FinishType DEF TypeParted
    <3>2. CASE Step(c, "metas")
      BY <3>2, StepType DEF TypeParted
    <3>3. CASE \E a \in Answers : /\ Goto(c, "compare")
                                  /\ result' = [result EXCEPT ![c] = a]
                                  /\ UNCHANGED <<req, served, modelMu, foreign>>
      <4>1. pc' \in [Clients -> Labels]
        BY <3>3, GotoType DEF TypeParted, RequestOK
      <4> QED
        BY <3>3, <4>1 DEF TypeParted, RequestOK
    <3> QED
      BY <2>1, <3>1, <3>2, <3>3
  <2> QED
    BY <1>6, <2>2 DEF Reply, TypeParted
<1>7. CASE LoadMetas(c)
  BY <1>7, ShowModelType, FinishType DEF LoadMetas, TypeParted
<1> QED
  BY <1>1, <1>2, <1>3, <1>4, <1>5, <1>6, <1>7 DEF GetStep

LEMMA WrittenType ==
  ASSUME byUi \in BOOLEAN, foreign \in BOOLEAN,
         (\E c \in Clients : WrittenBy(c)) \/ WrittenOutside
  PROVE  byUi' \in BOOLEAN /\ foreign' \in BOOLEAN
BY Zenon DEF WrittenBy, WrittenOutside, Overtake

LEMMA PutType ==
  ASSUME TypeParted, NEW c \in Clients, Put(c) PROVE TypeParted'
<1> USE LabelsAre, AnswersAre, ModeStays, StoreStays
<1>1. ModeOK' /\ StoreOK' /\ UNCHANGED <<hsMode, hupSent, file, view, spent>>
  BY DEF Put, TypeParted
<1>2. req[c].live \in Texts
  BY DEF TypeParted, RequestOK, Requests
<1>3. CASE /\ dbPolicy' = req[c].live
           /\ running' = req[c].live
           /\ WrittenBy(c)
           /\ Goto(c, "dbMode")
           /\ UNCHANGED <<late, req, served, result, modelMu>>
  <2>1. byUi' \in BOOLEAN /\ foreign' \in BOOLEAN
    BY <1>3, WrittenType DEF TypeParted, HsOK
  <2>2. HsOK'
    BY <1>1, <1>2, <1>3, <2>1, ConstantsType DEF TypeParted, HsOK
  <2>3. pc' \in [Clients -> Labels]
    BY <1>3, GotoType DEF TypeParted, RequestOK
  <2> QED
    BY <1>1, <1>3, <2>1, <2>2, <2>3 DEF TypeParted, RequestOK
<1>4. CASE Step(c, "fileMode") /\ UNCHANGED <<dbPolicy, running, late, byUi>>
  BY <1>1, <1>4, StepType DEF TypeParted, HsOK
<1>5. CASE /\ late' = late \cup {req[c].live}
           /\ Finish(c, "error")
           /\ UNCHANGED <<dbPolicy, running, byUi>>
  BY <1>1, <1>2, <1>5, FinishType DEF TypeParted, HsOK
<1> QED
  BY <1>3, <1>4, <1>5 DEF Put

LEMMA WriteType ==
  ASSUME TypeParted, NEW c \in Clients, Write(c) PROVE TypeParted'
<1> USE LabelsAre, AnswersAre, ModeStays, StoreStays
<1>1. /\ ModeOK' /\ StoreOK'
      /\ UNCHANGED <<hsMode, dbPolicy, running, hupSent, late, view, spent>>
  BY DEF Write, TypeParted
<1>2. req[c].live \in Texts
  BY DEF TypeParted, RequestOK, Requests
<1>3. CASE /\ file' = req[c].live
           /\ IF hsMode = "file" THEN WrittenBy(c) ELSE UNCHANGED <<byUi, foreign>>
           /\ Goto(c, "fileRecord")
           /\ UNCHANGED <<req, served, result, modelMu>>
  <2>1. byUi' \in BOOLEAN /\ foreign' \in BOOLEAN
    BY <1>3, WrittenType DEF TypeParted, HsOK
  <2>2. pc' \in [Clients -> Labels]
    BY <1>3, GotoType DEF TypeParted, RequestOK
  <2> QED
    BY <1>1, <1>2, <1>3, <2>1, <2>2 DEF TypeParted, RequestOK, HsOK
<1>4. CASE \E a \in Answers : Finish(c, a) /\ UNCHANGED <<file, byUi>>
  BY <1>1, <1>4, FinishType DEF TypeParted, HsOK
<1> QED
  BY <1>3, <1>4 DEF Write

LEMMA SaveStepType ==
  ASSUME TypeParted, NEW c \in Clients, SaveStep(c) PROVE TypeParted'
<1>1. CASE Check(c)
  BY <1>1, StepType, FinishType, HsStays, ModeStays, StoreStays, LabelsAre, AnswersAre
  DEF Check, TypeParted
<1>2. CASE ReadMode(c)
  BY <1>2, StepType, HsStays, ModeStays, StoreStays, LabelsAre DEF ReadMode, TypeParted
<1>3. CASE SaveLearnsDatabase(c)
  <2>1. {"dbMode", "dbKV", "dbRecord"} \subseteq Labels
    BY LabelsAre
  <2> QED
    BY <1>3, <2>1, SetModeType DEF SaveLearnsDatabase
<1>4. CASE SaveLearnsFile(c)
  <2>1. {"fileMode", "fileKV", "write"} \subseteq Labels
    BY LabelsAre
  <2> QED
    BY <1>4, <2>1, SetModeType DEF SaveLearnsFile
<1>5. req[c].live \in Texts
  BY DEF TypeParted, RequestOK, Requests
<1>6. CASE RecordDatabase(c)
  <2>1. StoreOK'
    BY <1>5, <1>6, AddVersionType DEF RecordDatabase, TypeParted
  <2> QED
    BY <1>6, <2>1, SaveReturnsType, HsStays, ModeStays, AnswersAre
    DEF RecordDatabase, TypeParted
<1>7. CASE RecordFile(c)
  <2>1. StoreOK'
    BY <1>5, <1>7, AddVersionType DEF RecordFile, TypeParted
  <2> QED
    BY <1>7, <2>1, SaveReturnsType, StepType, HsStays, ModeStays, AnswersAre, LabelsAre
    DEF RecordFile, TypeParted
<1>8. CASE SignalHUP(c)
  <2>1. RequestOK' /\ foreign' \in BOOLEAN
    BY <1>8, SaveReturnsType, StepType, AnswersAre, LabelsAre DEF SignalHUP, TypeParted
  <2>2. HsOK'
    BY <1>8 DEF SignalHUP, TypeParted, HsOK
  <2> QED
    BY <1>8, <2>1, <2>2, ModeStays, StoreStays DEF SignalHUP, TypeParted
<1>9. CASE Verify(c)
  <2>1. RequestOK' /\ foreign' \in BOOLEAN
    BY <1>9, SaveReturnsType, FinishType, AnswersAre DEF Verify, TypeParted
  <2> QED
    BY <1>9, <2>1, HsStays, ModeStays, StoreStays DEF Verify, TypeParted
<1> QED
  BY <1>1, <1>2, <1>3, <1>4, <1>6, <1>7, <1>8, <1>9, PutType, WriteType DEF SaveStep
LEMMA RequestStepType ==
  ASSUME TypeParted, NEW c \in Clients, RequestStep(c) \/ LockModel(c) PROVE TypeParted'
<1> USE HsStays, ModeStays, StoreStays, LabelsAre, AnswersAre
<1>1. CASE Compare(c)
  <2>1. view' \in [Clients -> Views]
    BY <1>1, ShowModelType DEF Compare, TypeParted
  <2> QED
    BY <1>1, <2>1, StepType, FinishType DEF Compare, TypeParted
<1>2. CASE ReplaceRuleMeta(c)
  <2>1. view' \in [Clients -> Views]
    BY <1>2, ConstantsType DEF ReplaceRuleMeta, TypeParted
  <2>2. req[c].off \in Texts /\ result[c] \in Answers
    BY DEF TypeParted, RequestOK, Requests
  <2>3. StoreOK'
    BY <1>2, <2>2 DEF ReplaceRuleMeta, TypeParted, StoreOK
  <2> QED
    BY <1>2, <2>1, <2>2, <2>3, FinishType DEF ReplaceRuleMeta, TypeParted
<1>3. CASE LockModel(c)
  <2>1. pc' \in [Clients -> Labels]
    BY <1>3, GotoType DEF LockModel, TypeParted, RequestOK
  <2> QED
    BY <1>3, <2>1 DEF LockModel, TypeParted, RequestOK
<1> QED
  BY <1>1, <1>2, <1>3, GetStepType, SaveStepType DEF RequestStep

LEMMA EnvironmentType ==
  ASSUME TypeParted, Environment PROVE TypeParted'
<1>1. CASE Reload
  <2>1. HsOK'
    BY <1>1 DEF Reload, TypeParted, HsOK
  <2> QED
    BY <1>1, <2>1, ModeStays, StoreStays DEF Reload, clientVars, TypeParted, RequestOK
<1>2. CASE ApplyLate
  <2>1. HsOK' /\ foreign' \in BOOLEAN
    BY <1>2, WrittenType, ConstantsType DEF ApplyLate, TypeParted, HsOK
  <2> QED
    BY <1>2, <2>1, ModeStays, StoreStays DEF ApplyLate, clientVars, TypeParted, RequestOK
<1>3. CASE OutsideEdit
  <2>1. HsOK' /\ file' \in Texts /\ foreign' \in BOOLEAN
    BY <1>3, WrittenType, ConstantsType, ConstantsAssumption
    DEF OutsideEdit, TypeParted, HsOK
  <2>2. spent' \in Budget
    BY <1>3 DEF OutsideEdit, TypeParted, Budget
  <2> QED
    BY <1>3, <2>1, <2>2, ModeStays, StoreStays
    DEF OutsideEdit, clientVars, TypeParted, RequestOK
<1>4. CASE SwitchMode
  <2>1. byUi' \in BOOLEAN /\ foreign' \in BOOLEAN
    BY <1>4, WrittenType DEF SwitchMode, TypeParted, HsOK
  <2>2. hsMode' \in {"database", "file"}
    BY <1>4 DEF SwitchMode
  <2>3. running' \in Texts
    BY <1>4, ConstantsType DEF SwitchMode, TypeParted, HsOK, Served, TextOrUnset
  <2>4. HsOK'
    BY <1>4, <2>1, <2>2, <2>3 DEF SwitchMode, TypeParted, HsOK
  <2>5. spent' \in Budget
    BY <1>4 DEF SwitchMode, TypeParted, Budget
  <2> QED
    BY <1>4, <2>1, <2>4, <2>5, ModeStays, StoreStays
    DEF SwitchMode, clientVars, TypeParted, RequestOK
<1>5. CASE Restart
  <2>1. RequestOK'
    BY <1>5, ConstantsType, LabelsAre, AnswersAre DEF Restart, TypeParted, RequestOK
  <2>2. \A c \in Clients : req[c].live \in Texts
    BY DEF TypeParted, RequestOK, Requests
  <2>3. HsOK'
    BY <1>5, <2>2 DEF Restart, TypeParted, HsOK
  <2>4. mode' \in Modes
    BY <1>5, NewModeType DEF Restart, TypeParted, ModeOK
  <2>5. spent' \in Budget
    BY <1>5 DEF Restart, TypeParted, Budget
  <2> QED
    BY <1>5, <2>1, <2>3, <2>4, <2>5, StoreStays DEF Restart, TypeParted, ModeOK
<1> QED
  BY <1>1, <1>2, <1>3, <1>4, <1>5 DEF Environment

LEMMA InitType == Init => TypeParted
<1> SUFFICES ASSUME Init PROVE TypeParted
  OBVIOUS
<1>1. file \in Texts /\ dbPolicy \in TextOrUnset
  BY ConstantsAssumption, ConstantsType DEF Init
<1>2. HsOK
  BY <1>1, ConstantsAssumption, ConstantsType DEF Init, HsOK, Served, TextOrUnset
<1>3. ModeOK
  BY NewModeType DEF Init, ModeOK
<1>4. StoreOK
  BY ConstantsType DEF Init, StoreOK
<1>5. RequestOK
  BY ConstantsType, LabelsAre, AnswersAre DEF Init, RequestOK
<1>6. view \in [Clients -> Views] /\ foreign \in BOOLEAN /\ spent \in Budget
  BY ConstantsType DEF Init, Budget
<1> QED
  BY <1>1, <1>2, <1>3, <1>4, <1>5, <1>6 DEF TypeParted

LEMMA NextType == TypeParted /\ [Next]_vars => TypeParted'
<1> SUFFICES ASSUME TypeParted, [Next]_vars PROVE TypeParted'
  OBVIOUS
<1>1. CASE UNCHANGED vars
  BY <1>1, HsStays, ModeStays, StoreStays DEF vars, clientVars, TypeParted, RequestOK
<1> QED
  BY <1>1, BeginStepType, RequestStepType, EnvironmentType DEF Next

\* Type correctness, for every configuration.
THEOREM TypeCorrect == Spec => []TypeOK
<1>1. TypeParted <=> TypeOK
  BY TypeParts DEF TypeParted
<1> QED
  BY <1>1, InitType, NextType, PTL DEF Spec

----------------------------------------------------------------------------
(* Concurrent structured edits: modelMu belongs to the one structured save *)
(* that is past its Lock, and that save replaces the policy its user       *)
(* loaded, with failures, crashes and mode switches.                       *)

\* Steps of a structured save between its Get and its decision, and between
\* the decision and the write.
Reading  == {"latest", "snapshot", "seeMode", "learn", "learnKV", "reply", "compare"}
Deciding == {"check", "readMode", "put", "fileMode", "fileKV", "write"}

\* modelMu is held from Lock to the return, by a structured save.
Owner(c) ==
  /\ pc[c] = "lock" => req[c].op = "model"
  /\ modelMu = c <=> pc[c] \notin {"idle", "lock"} /\ req[c].op = "model"

\* What the holder of modelMu read is still served, unless somebody who does
\* not take the mutex wrote since; what it decided on is what its user loaded.
Steady(c) ==
  modelMu = c /\ ~foreign =>
    /\ pc[c] \in Reading => Served = served[c].text
    /\ pc[c] \in Deciding => req[c].force \/ Served = req[c].base

\* The inductive invariant.
EditInv == TypeParted /\ \A c \in Clients : Owner(c) /\ Steady(c)

----------------------------------------------------------------------------
(* A step of client d leaves the others alone: their requests do not move, *)
(* modelMu is theirs as before, and the served policy changes only with    *)
(* the flag that says so.                                                  *)

SameServed == UNCHANGED <<hsMode, dbPolicy, file>>

Elsewhere(d) ==
  \A c \in Clients \ {d} :
    /\ pc'[c] = pc[c] /\ req'[c] = req[c] /\ served'[c] = served[c]
    /\ modelMu' = c <=> modelMu = c
    /\ modelMu = c => \/ foreign'
                      \/ Served' = Served /\ (foreign' <=> foreign)

LEMMA ServedStays == ASSUME SameServed PROVE Served' = Served
BY DEF SameServed, Served

LEMMA OthersKeep ==
  ASSUME EditInv, NEW d \in Clients, Elsewhere(d), NEW c \in Clients \ {d}
  PROVE  Owner(c)' /\ Steady(c)'
<1>1. Owner(c) /\ Steady(c)
  BY DEF EditInv
<1>2. Owner(c)'
  BY <1>1 DEF Owner, Elsewhere
<1>3. Steady(c)'
  BY <1>1 DEF Steady, Elsewhere
<1> QED
  BY <1>2, <1>3

LEMMA StepElsewhere ==
  ASSUME TypeParted, NEW d \in Clients, NEW l, Step(d, l), SameServed
  PROVE  Elsewhere(d)
BY ServedStays DEF TypeParted, RequestOK, Step, Goto, Elsewhere

LEMMA FinishElsewhere ==
  ASSUME TypeParted, NEW d \in Clients, NEW a, Finish(d, a), SameServed
  PROVE  Elsewhere(d)
BY ServedStays, ConstantsAssumption
DEF TypeParted, RequestOK, Finish, Goto, Elsewhere

LEMMA SaveReturnsElsewhere ==
  ASSUME TypeParted, NEW d \in Clients, NEW a, SaveReturns(d, a), SameServed
  PROVE  Elsewhere(d)
<1>1. CASE req[d].op = "model"
  BY <1>1, ServedStays DEF TypeParted, RequestOK, SaveReturns, Goto, Elsewhere
<1>2. CASE req[d].op # "model"
  BY <1>2, FinishElsewhere DEF SaveReturns
<1> QED
  BY <1>1, <1>2

(* And what they make of their own client.                                 *)

LEMMA FinishOwn ==
  ASSUME TypeParted, NEW d \in Clients, NEW a, Finish(d, a)
  PROVE  Owner(d)' /\ Steady(d)'
BY ConstantsAssumption
DEF TypeParted, RequestOK, Finish, Goto, Owner, Steady, Reading, Deciding

\* A step within the same phase.
LEMMA StepOwn ==
  ASSUME EditInv, NEW d \in Clients, NEW l, Step(d, l), SameServed,
         pc[d] \notin {"idle", "lock"}, l \notin {"idle", "lock"},
         l \in Reading => pc[d] \in Reading,
         l \in Deciding => pc[d] \in Deciding
  PROVE  Owner(d)' /\ Steady(d)'
<1>1. Owner(d) /\ Steady(d) /\ Served' = Served
  BY ServedStays DEF EditInv
<1> QED
  BY <1>1 DEF EditInv, TypeParted, RequestOK, Step, Goto, Owner, Steady

LEMMA SaveReturnsOwn ==
  ASSUME EditInv, NEW d \in Clients, NEW a, SaveReturns(d, a),
         pc[d] \notin {"idle", "lock"}
  PROVE  Owner(d)' /\ Steady(d)'
<1>1. CASE req[d].op = "model"
  BY <1>1 DEF EditInv, TypeParted, RequestOK, SaveReturns, Goto, Owner, Steady,
              Reading, Deciding
<1>2. CASE req[d].op # "model"
  BY <1>2, FinishOwn DEF SaveReturns, EditInv
<1> QED
  BY <1>1, <1>2

----------------------------------------------------------------------------
(* The actions of a client.                                                *)

Good(d) == Elsewhere(d) /\ Owner(d)' /\ Steady(d)'

LEMMA StepGood ==
  ASSUME EditInv, NEW d \in Clients, NEW l, Step(d, l), SameServed,
         pc[d] \notin {"idle", "lock"}, l \notin {"idle", "lock"},
         l \in Reading => pc[d] \in Reading,
         l \in Deciding => pc[d] \in Deciding
  PROVE  Good(d)
BY StepOwn, StepElsewhere DEF EditInv, Good

LEMMA FinishGood ==
  ASSUME EditInv, NEW d \in Clients, NEW a, Finish(d, a), SameServed
  PROVE  Good(d)
BY FinishOwn, FinishElsewhere DEF EditInv, Good

LEMMA SaveReturnsGood ==
  ASSUME EditInv, NEW d \in Clients, NEW a, SaveReturns(d, a), SameServed,
         pc[d] \notin {"idle", "lock"}
  PROVE  Good(d)
BY SaveReturnsOwn, SaveReturnsElsewhere DEF EditInv, Good

LEMMA BeginGood ==
  ASSUME EditInv, NEW d \in Clients, BeginStep(d)
  PROVE  Good(d)
<1>1. PICK r \in Requests, l \in {"fetch", "check", "lock"} :
         Begin(d, r, l) /\ (l = "lock" <=> r.op = "model")
  <2>1. CASE BeginRead(d)
    <3>1. PICK op \in {"get", "load"} : Begin(d, [NoRequest EXCEPT !.op = op], "fetch")
      BY <2>1 DEF BeginRead
    <3>2. [NoRequest EXCEPT !.op = op] \in Requests /\ [NoRequest EXCEPT !.op = op].op = op
      BY ConstantsType DEF Requests, AllOperations
    <3> QED
      BY <3>1, <3>2
  <2>2. CASE BeginSave(d)
    <3>1. PICK text \in Texts :
            Begin(d, [NoRequest EXCEPT !.op = "save", !.live = text], "check")
      BY <2>2 DEF BeginSave
    <3>2. /\ [NoRequest EXCEPT !.op = "save", !.live = text] \in Requests
          /\ [NoRequest EXCEPT !.op = "save", !.live = text].op = "save"
      BY ConstantsType DEF Requests, AllOperations
    <3> QED
      BY <3>1, <3>2
  <2>3. CASE BeginModel(d)
    <3>1. PICK live \in Texts, off \in Texts, force \in BOOLEAN :
            Begin(d, [op |-> "model", live |-> live, off |-> off,
                      base |-> view[d].base, force |-> force], "lock")
      BY <2>3 DEF BeginModel
    <3>2. view[d].base \in TextOrUnset
      BY DEF EditInv, TypeParted, Views
    <3>3. [op |-> "model", live |-> live, off |-> off,
           base |-> view[d].base, force |-> force] \in Requests
      BY <3>2 DEF Requests, AllOperations
    <3> QED
      BY <3>1, <3>3
  <2> QED
    BY <2>1, <2>2, <2>3 DEF BeginStep
<1>2. /\ pc' = [pc EXCEPT ![d] = l] /\ req' = [req EXCEPT ![d] = r]
      /\ UNCHANGED <<modelMu, served, foreign>> /\ SameServed
      /\ pc[d] = "idle"
  BY <1>1 DEF Begin, Goto, SameServed, hsVars
<1>3. modelMu # d
  BY <1>2 DEF EditInv, Owner
<1>4. Elsewhere(d)
  BY <1>2, ServedStays DEF EditInv, TypeParted, RequestOK, Elsewhere
<1>5. Owner(d)' /\ Steady(d)'
  <2>1. r.op = "model" => l = "lock"
    BY <1>1
  <2>2. pc'[d] = l /\ req'[d] = r /\ modelMu' # d
    BY <1>2, <1>3 DEF EditInv, TypeParted, RequestOK
  <2>3. Owner(d)'
    BY <1>1, <2>1, <2>2 DEF Owner
  <2> QED
    BY <2>2, <2>3 DEF Steady
<1> QED
  BY <1>4, <1>5 DEF Good

LEMMA LockGood ==
  ASSUME EditInv, NEW d \in Clients, LockModel(d)
  PROVE  Good(d)
<1>1. /\ pc[d] = "lock" /\ req[d].op = "model" /\ modelMu = NoClient /\ modelMu' = d
      /\ pc' = [pc EXCEPT ![d] = "fetch"] /\ UNCHANGED <<req, served, foreign>> /\ SameServed
  BY DEF LockModel, Goto, SameServed, hsVars, EditInv, Owner
<1>2. Elsewhere(d)
  BY <1>1, ServedStays, ConstantsAssumption
  DEF EditInv, TypeParted, RequestOK, Elsewhere
<1>3. Owner(d)' /\ Steady(d)'
  BY <1>1 DEF EditInv, TypeParted, RequestOK, Owner, Steady, Reading, Deciding
<1> QED
  BY <1>2, <1>3 DEF Good

LEMMA FetchGood ==
  ASSUME EditInv, NEW d \in Clients, Fetch(d)
  PROVE  Good(d)
<1>1. SameServed
  BY DEF Fetch, SameServed, hsVars
<1>2. CASE Finish(d, "error")
  BY <1>1, <1>2, FinishGood
<1>3. CASE ~Finish(d, "error")
  <2>1. /\ pc[d] = "fetch" /\ pc' = [pc EXCEPT ![d] = "latest"]
        /\ \E s : served' = [served EXCEPT ![d] =
                               [text |-> Served, stamped |-> s]]
        /\ foreign' <=> (foreign /\ modelMu # d)
        /\ UNCHANGED <<req, modelMu>>
    BY <1>3 DEF Fetch, Goto
  <2>2. Elsewhere(d)
    BY <1>1, <2>1, ServedStays DEF EditInv, TypeParted, RequestOK, Elsewhere
  <2>3. Served' = Served /\ served'[d].text = Served
    BY <1>1, <2>1, ServedStays DEF EditInv, TypeParted, RequestOK
  <2>4. Owner(d)
    BY DEF EditInv
  <2>5. Owner(d)'
    BY <2>1, <2>4 DEF EditInv, TypeParted, RequestOK, Owner
  <2>6. Steady(d)'
    BY <2>1, <2>3 DEF EditInv, TypeParted, RequestOK, Steady, Reading, Deciding
  <2> QED
    BY <2>2, <2>5, <2>6 DEF Good
<1> QED
  BY <1>2, <1>3

LEMMA SetModeGood ==
  ASSUME EditInv, NEW d \in Clients, NEW l, NEW m, NEW k, NEW n,
         SetMode(d, l, m, k, n) \/ StoreMode(d, k, m, n),
         \/ l \in Reading /\ k \in Reading /\ n \in Reading
         \/ l \in Deciding /\ k \in Deciding /\ n \in Deciding
         \/ /\ l \notin {"idle", "lock"} /\ k \notin {"idle", "lock"} \cup Deciding \cup Reading
            /\ n \notin {"idle", "lock"} \cup Deciding \cup Reading
  PROVE  Good(d)
<1>1. SameServed
  BY DEF SetMode, StoreMode, SameServed, hsVars
<1>2. \/ pc[d] = l /\ (Step(d, k) \/ Step(d, n))
      \/ pc[d] = k /\ Step(d, n)
  BY DEF SetMode, StoreMode
<1>3. Reading \cap (Deciding \cup {"idle", "lock"}) = {}
      /\ Deciding \cap {"idle", "lock"} = {}
  BY DEF Reading, Deciding
<1> QED
  BY <1>1, <1>2, <1>3, StepGood

LEMMA GetStepGood ==
  ASSUME EditInv, NEW d \in Clients, GetStep(d)
  PROVE  Good(d)
<1>1. CASE CompareLatest(d)
  BY <1>1, StepGood DEF CompareLatest, SameServed, hsVars, Reading, Deciding
<1>2. CASE Snapshot(d)
  BY <1>2, StepGood DEF Snapshot, SameServed, hsVars, Reading, Deciding
<1>3. CASE SeeMode(d)
  BY <1>3, StepGood DEF SeeMode, SameServed, hsVars, Reading, Deciding
<1>4. CASE LearnDatabase(d)
  <2>1. "learn" \in Reading /\ "learnKV" \in Reading /\ "reply" \in Reading
    BY DEF Reading
  <2> QED
    BY <1>4, <2>1, SetModeGood DEF LearnDatabase
<1>5. CASE Reply(d)
  <2>1. SameServed /\ pc[d] = "reply"
    BY <1>5 DEF Reply, SameServed, hsVars
  <2>2. CASE \E a : Finish(d, a)
    BY <2>1, <2>2, FinishGood
  <2>3. CASE Step(d, "metas")
    BY <2>1, <2>3, StepGood DEF Reading, Deciding
  <2>4. CASE Goto(d, "compare") /\ UNCHANGED <<req, served, modelMu, foreign>>
    <3>1. Elsewhere(d)
      BY <2>1, <2>4, ServedStays DEF EditInv, TypeParted, RequestOK, Goto, Elsewhere
    <3>2. Owner(d) /\ Steady(d) /\ Served' = Served
      BY <2>1, ServedStays DEF EditInv
    <3>3. Owner(d)' /\ Steady(d)'
      BY <2>1, <2>4, <3>2
      DEF EditInv, TypeParted, RequestOK, Goto, Owner, Steady, Reading, Deciding
    <3> QED
      BY <3>1, <3>3 DEF Good
  <2> QED
    BY <1>5, <2>2, <2>3, <2>4 DEF Reply
<1>6. CASE LoadMetas(d)
  BY <1>6, FinishGood DEF LoadMetas, SameServed, hsVars
<1> QED
  BY <1>1, <1>2, <1>3, <1>4, <1>5, <1>6, FetchGood DEF GetStep

\* The check of the baseHash, made on what was read: what is served is what
\* the user loaded, or an overtaking writer has set the flag.
LEMMA CompareGood ==
  ASSUME EditInv, NEW d \in Clients, Compare(d)
  PROVE  Good(d)
<1>1. SameServed /\ pc[d] = "compare"
  BY DEF Compare, SameServed, hsVars
<1>2. CASE \E a : Finish(d, a)
  BY <1>1, <1>2, FinishGood
<1>3. CASE Step(d, "meta")
  BY <1>1, <1>3, StepGood DEF Reading, Deciding
<1>4. CASE Step(d, "check") /\ (req[d].force \/ served[d].text = req[d].base)
  <2>1. Elsewhere(d)
    BY <1>1, <1>4, StepElsewhere DEF EditInv
  <2>2. Owner(d) /\ Steady(d) /\ Served' = Served
    BY <1>1, ServedStays DEF EditInv
  <2>3. Owner(d)' /\ Steady(d)'
    BY <1>1, <1>4, <2>2
    DEF EditInv, TypeParted, RequestOK, Step, Goto, Owner, Steady, Reading, Deciding
  <2> QED
    BY <2>1, <2>3 DEF Good
<1> QED
  BY <1>2, <1>3, <1>4 DEF Compare

\* Whoever replaces the served policy raises the flag, unless the mutex is his.
LEMMA PutGood ==
  ASSUME EditInv, NEW d \in Clients, Put(d)
  PROVE  Good(d)
<1>1. UNCHANGED <<hsMode, file>> /\ pc[d] = "put"
  BY DEF Put
<1>2. CASE WrittenBy(d) /\ Goto(d, "dbMode") /\ UNCHANGED <<req, served, modelMu>>
  <2>1. Elsewhere(d)
    BY <1>2, ConstantsAssumption
    DEF EditInv, TypeParted, RequestOK, WrittenBy, Overtake, Goto, Elsewhere
  <2>2. Owner(d)
    BY DEF EditInv
  <2>3. Owner(d)' /\ Steady(d)'
    BY <1>1, <1>2, <2>2
    DEF EditInv, TypeParted, RequestOK, Goto, Owner, Steady, Reading, Deciding
  <2> QED
    BY <2>1, <2>3 DEF Good
<1>3. CASE Step(d, "fileMode") /\ UNCHANGED dbPolicy
  BY <1>1, <1>3, StepGood DEF SameServed, Reading, Deciding
<1>4. CASE Finish(d, "error") /\ UNCHANGED dbPolicy
  BY <1>1, <1>4, FinishGood DEF SameServed
<1> QED
  BY <1>2, <1>3, <1>4 DEF Put

LEMMA WriteGood ==
  ASSUME EditInv, NEW d \in Clients, Write(d)
  PROVE  Good(d)
<1>1. UNCHANGED <<hsMode, dbPolicy>> /\ pc[d] = "write"
  BY DEF Write
<1>2. CASE /\ IF hsMode = "file" THEN WrittenBy(d) ELSE UNCHANGED <<byUi, foreign>>
           /\ Goto(d, "fileRecord") /\ UNCHANGED <<req, served, modelMu>>
  <2>1. Owner(d)
    BY DEF EditInv
  <2>2. Owner(d)' /\ Steady(d)'
    BY <1>1, <1>2, <2>1
    DEF EditInv, TypeParted, RequestOK, Goto, Owner, Steady, Reading, Deciding
  <2>3. hsMode # "file" => Served' = Served
    BY <1>1 DEF Served
  <2>4. Elsewhere(d)
    BY <1>2, <2>3, ConstantsAssumption
    DEF EditInv, TypeParted, RequestOK, WrittenBy, Overtake, Goto, Elsewhere
  <2> QED
    BY <2>2, <2>4 DEF Good
<1>3. CASE (\E a : Finish(d, a)) /\ UNCHANGED file
  BY <1>1, <1>3, FinishGood DEF SameServed
<1> QED
  BY <1>2, <1>3 DEF Write

LEMMA SaveStepGood ==
  ASSUME EditInv, NEW d \in Clients, SaveStep(d)
  PROVE  Good(d)
<1>1. CASE Check(d)
  <2>1. SameServed /\ pc[d] = "check" /\ (Step(d, "readMode") \/ Finish(d, "error"))
    BY <1>1 DEF Check, SameServed, hsVars
  <2> QED
    BY <2>1, StepGood, FinishGood DEF Reading, Deciding
<1>2. CASE ReadMode(d)
  <2>1. SameServed /\ pc[d] = "readMode" /\ (Step(d, "put") \/ Step(d, "write"))
    BY <1>2 DEF ReadMode, SameServed, hsVars
  <2> QED
    BY <2>1, StepGood DEF Reading, Deciding
<1>3. CASE SaveLearnsDatabase(d)
  <2>1. /\ "dbMode" \notin {"idle", "lock"}
        /\ "dbKV" \notin {"idle", "lock"} \cup Deciding \cup Reading
        /\ "dbRecord" \notin {"idle", "lock"} \cup Deciding \cup Reading
    BY DEF Reading, Deciding
  <2> QED
    BY <1>3, <2>1, SetModeGood DEF SaveLearnsDatabase
<1>4. CASE SaveLearnsFile(d)
  <2>1. "fileMode" \in Deciding /\ "fileKV" \in Deciding /\ "write" \in Deciding
    BY DEF Deciding
  <2> QED
    BY <1>4, <2>1, SetModeGood DEF SaveLearnsFile
<1>5. CASE RecordDatabase(d)
  BY <1>5, SaveReturnsGood DEF RecordDatabase, SameServed, hsVars
<1>6. CASE RecordFile(d)
  <2>1. SameServed /\ pc[d] = "fileRecord" /\ (Step(d, "hup") \/ SaveReturns(d, "pending"))
    BY <1>6 DEF RecordFile, SameServed, hsVars
  <2> QED
    BY <2>1, StepGood, SaveReturnsGood DEF Reading, Deciding
<1>7. CASE SignalHUP(d)
  <2>1. SameServed /\ pc[d] = "hup" /\ (Step(d, "verify") \/ SaveReturns(d, "pending"))
    BY <1>7 DEF SignalHUP, SameServed
  <2> QED
    BY <2>1, StepGood, SaveReturnsGood DEF Reading, Deciding
<1>8. CASE Verify(d)
  <2>1. SameServed /\ pc[d] = "verify" /\ ((\E a : SaveReturns(d, a)) \/ Finish(d, "error"))
    BY <1>8 DEF Verify, SameServed, hsVars
  <2> QED
    BY <2>1, SaveReturnsGood, FinishGood
<1> QED
  BY <1>1, <1>2, <1>3, <1>4, <1>5, <1>6, <1>7, <1>8, PutGood, WriteGood DEF SaveStep

LEMMA ReplaceRuleMetaGood ==
  ASSUME EditInv, NEW d \in Clients, ReplaceRuleMeta(d)
  PROVE  Good(d)
BY FinishGood DEF ReplaceRuleMeta, SameServed, hsVars

LEMMA ClientGood ==
  ASSUME EditInv, NEW d \in Clients, BeginStep(d) \/ LockModel(d) \/ RequestStep(d)
  PROVE  Good(d)
BY BeginGood, LockGood, GetStepGood, SaveStepGood, CompareGood, ReplaceRuleMetaGood
DEF RequestStep

----------------------------------------------------------------------------
(* The rest of the world: what changes the served policy raises the flag,  *)
(* and a restart leaves no request.                                        *)

LEMMA EnvironmentEdit ==
  ASSUME EditInv, Environment
  PROVE  \A c \in Clients : Owner(c)' /\ Steady(c)'
<1>1. CASE Reload
  <2>1. Served' = Served /\ UNCHANGED <<pc, req, served, modelMu, foreign>>
    BY <1>1 DEF Reload, clientVars, Served
  <2> QED
    BY <2>1 DEF EditInv, Owner, Steady
<1>2. CASE ApplyLate \/ OutsideEdit \/ SwitchMode
  <2>1. WrittenOutside /\ UNCHANGED <<pc, req, served, modelMu>>
    BY <1>2 DEF ApplyLate, OutsideEdit, SwitchMode, clientVars
  <2>2. \A c \in Clients : modelMu' = c => foreign'
    BY <2>1, ConstantsAssumption DEF WrittenOutside, Overtake
  <2> QED
    BY <2>1, <2>2 DEF EditInv, Owner, Steady
<1>3. CASE Restart
  <2>1. \A c \in Clients : pc'[c] = "idle" /\ modelMu' # c
    BY <1>3, ConstantsAssumption DEF Restart
  <2> QED
    BY <2>1 DEF Owner, Steady
<1> QED
  BY <1>1, <1>2, <1>3 DEF Environment

LEMMA EditInvInit == Init => EditInv
<1> SUFFICES ASSUME Init PROVE EditInv
  OBVIOUS
<1>1. \A c \in Clients : pc[c] = "idle" /\ modelMu # c
  BY ConstantsAssumption DEF Init
<1>2. \A c \in Clients : Owner(c) /\ Steady(c)
  BY <1>1 DEF Owner, Steady
<1> QED
  BY <1>2, InitType DEF EditInv

LEMMA EditInvStep == EditInv /\ [Next]_vars => EditInv'
<1> SUFFICES ASSUME EditInv, [Next]_vars PROVE EditInv'
  OBVIOUS
<1>1. TypeParted'
  BY NextType DEF EditInv
<1>2. ASSUME NEW d \in Clients, BeginStep(d) \/ LockModel(d) \/ RequestStep(d)
      PROVE  \A c \in Clients : Owner(c)' /\ Steady(c)'
  BY <1>2, ClientGood, OthersKeep DEF Good
<1>3. CASE UNCHANGED vars
  <2>1. Served' = Served /\ UNCHANGED <<pc, req, served, modelMu, foreign>>
    BY <1>3 DEF vars, hsVars, clientVars, Served
  <2>2. \A c \in Clients : Owner(c)' /\ Steady(c)'
    BY <2>1 DEF EditInv, Owner, Steady
  <2> QED
    BY <1>1, <2>2 DEF EditInv
<1> QED
  BY <1>1, <1>2, <1>3, EnvironmentEdit DEF Next, EditInv

LEMMA EditInvariance == Spec => []EditInv
BY EditInvInit, EditInvStep, PTL DEF Spec

----------------------------------------------------------------------------

\* A structured save that is not forced replaces exactly the policy its user
\* loaded, unless a writer that does not take modelMu overtook it: with any
\* number of saves at once, whatever fails, and across crashes.
THEOREM StructuredUpdatesAreNotLost == Spec => NoLostStructuredUpdate
<1>1. EditInv => \A c \in Clients :
        StructuredWrite(c) => req[c].force \/ foreign \/ Served = req[c].base
  BY DEF EditInv, Steady, StructuredWrite, Deciding
<1>2. EditInv /\ [Next]_vars =>
        [\A c \in Clients :
           StructuredWrite(c) => req[c].force \/ foreign \/ Served = req[c].base]_vars
  BY <1>1
<1> QED
  BY <1>2, EditInvariance, PTL DEF Spec, NoLostStructuredUpdate

-----------------------------------------------------------------------------
(* What the policy manager leaves behind it: the file headscale loads, the *)
(* reload, the history and the stored mode.  Each theorem names, as its    *)
(* hypotheses, the failures under which the property would not hold.       *)

----------------------------------------------------------------------------
(* The control flow of a request.                                          *)

Edge(a, b) ==
  \/ a = "lock"       /\ b = "fetch"
  \/ a = "fetch"      /\ b = "latest"
  \/ a = "latest"     /\ b \in {"snapshot", "seeMode"}
  \/ a = "snapshot"   /\ b = "seeMode"
  \/ a = "seeMode"    /\ b \in {"learn", "reply"}
  \/ a = "learn"      /\ b \in {"learnKV", "reply"}
  \/ a = "learnKV"    /\ b = "reply"
  \/ a = "reply"      /\ b \in {"metas", "compare"}
  \/ a = "compare"    /\ b \in {"check", "meta"}
  \/ a = "check"      /\ b = "readMode"
  \/ a = "readMode"   /\ b \in {"put", "write"}
  \/ a = "put"        /\ b \in {"dbMode", "fileMode"}
  \/ a = "dbMode"     /\ b \in {"dbKV", "dbRecord"}
  \/ a = "dbKV"       /\ b = "dbRecord"
  \/ a = "dbRecord"   /\ b = "meta"
  \/ a = "fileMode"   /\ b \in {"fileKV", "write"}
  \/ a = "fileKV"     /\ b = "write"
  \/ a = "write"      /\ b = "fileRecord"
  \/ a = "fileRecord" /\ b \in {"hup", "meta"}
  \/ a = "hup"        /\ b \in {"verify", "meta"}
  \/ a = "verify"     /\ b = "meta"

\* A request starts, ends, or moves along an edge with what it asked for; only
\* a structured save compares what it read and has metadata to store.
Moves(d) ==
  \/ pc'[d] = "idle" /\ req'[d] = NoRequest /\ served'[d] = NoState
  \/ /\ pc[d] = "idle" /\ served'[d] = served[d]
     /\ \/ pc'[d] = "fetch" /\ req'[d].op \in {"get", "load"}
        \/ pc'[d] = "check" /\ req'[d].op = "save"
        \/ pc'[d] = "lock" /\ req'[d].op = "model"
  \/ /\ Edge(pc[d], pc'[d]) /\ req'[d] = req[d]
     /\ pc[d] # "fetch" => served'[d] = served[d]
     /\ pc'[d] = "compare" \/ (pc'[d] = "meta" /\ pc[d] # "compare") => req[d].op = "model"

ClientStep(d) == BeginStep(d) \/ LockModel(d) \/ RequestStep(d)

LEMMA FinishMoves ==
  ASSUME TypeParted, NEW d \in Clients, NEW a, Finish(d, a) PROVE Moves(d)
BY DEF TypeParted, RequestOK, Finish, Goto, Moves

LEMMA StepMoves ==
  ASSUME TypeParted, NEW d \in Clients, NEW l, Step(d, l), Edge(pc[d], l),
         l # "compare", l = "meta" => pc[d] = "compare"
  PROVE  Moves(d)
BY DEF TypeParted, RequestOK, Step, Goto, Moves

LEMMA SaveReturnsMoves ==
  ASSUME TypeParted, NEW d \in Clients, NEW a, SaveReturns(d, a), Edge(pc[d], "meta")
  PROVE  Moves(d)
<1>1. CASE req[d].op = "model"
  BY <1>1 DEF TypeParted, RequestOK, SaveReturns, Goto, Moves
<1>2. CASE req[d].op # "model"
  BY <1>2, FinishMoves DEF SaveReturns
<1> QED
  BY <1>1, <1>2

LEMMA ControlFlow ==
  ASSUME TypeParted, NEW d \in Clients, ClientStep(d) PROVE Moves(d)
<1>1. CASE BeginStep(d)
  <2>1. ASSUME NEW r, NEW l, Begin(d, r, l)
        PROVE  /\ pc[d] = "idle" /\ served'[d] = served[d]
               /\ pc'[d] = l /\ req'[d] = r
    BY <2>1 DEF Begin, Goto, TypeParted, RequestOK
  <2>2. CASE BeginRead(d)
    <3>1. PICK op \in {"get", "load"} : Begin(d, [NoRequest EXCEPT !.op = op], "fetch")
      BY <2>2 DEF BeginRead
    <3> QED
      BY <2>1, <3>1 DEF Moves, NoRequest
  <2>3. CASE BeginSave(d)
    <3>1. PICK text \in Texts :
            Begin(d, [NoRequest EXCEPT !.op = "save", !.live = text], "check")
      BY <2>3 DEF BeginSave
    <3>2. /\ pc[d] = "idle" /\ served'[d] = served[d] /\ pc'[d] = "check"
          /\ req'[d] = [NoRequest EXCEPT !.op = "save", !.live = text]
      BY <2>1, <3>1
    <3>3. req'[d].op = "save"
      BY <3>2 DEF NoRequest
    <3> QED
      BY <3>2, <3>3 DEF Moves
  <2>4. CASE BeginModel(d)
    <3>1. PICK live \in Texts, off \in Texts, force \in BOOLEAN :
            Begin(d, [op |-> "model", live |-> live, off |-> off,
                      base |-> view[d].base, force |-> force], "lock")
      BY <2>4 DEF BeginModel
    <3>2. /\ pc[d] = "idle" /\ served'[d] = served[d] /\ pc'[d] = "lock"
          /\ req'[d] = [op |-> "model", live |-> live, off |-> off,
                        base |-> view[d].base, force |-> force]
      BY <2>1, <3>1
    <3>3. req'[d].op = "model"
      BY <3>2
    <3> QED
      BY <3>2, <3>3 DEF Moves
  <2> QED
    BY <1>1, <2>2, <2>3, <2>4 DEF BeginStep
<1>2. CASE LockModel(d)
  BY <1>2 DEF LockModel, Goto, TypeParted, RequestOK, Moves, Edge
<1>3. CASE Fetch(d)
  <2>1. CASE Finish(d, "error")
    BY <2>1, FinishMoves
  <2>2. CASE pc[d] = "fetch" /\ Goto(d, "latest") /\ UNCHANGED req
    BY <2>2 DEF Goto, TypeParted, RequestOK, Moves, Edge
  <2> QED
    BY <1>3, <2>1, <2>2 DEF Fetch
<1>4. CASE CompareLatest(d) \/ Snapshot(d) \/ SeeMode(d)
  BY <1>4, StepMoves DEF CompareLatest, Snapshot, SeeMode, Edge
<1>5. CASE LearnDatabase(d)
  BY <1>5, StepMoves DEF LearnDatabase, SetMode, StoreMode, Edge
<1>6. CASE Reply(d)
  <2>1. CASE \E a : Finish(d, a)
    BY <2>1, FinishMoves
  <2>2. CASE pc[d] = "reply" /\ Step(d, "metas")
    BY <2>2, StepMoves DEF Edge
  <2>3. CASE pc[d] = "reply" /\ req[d].op = "model" /\ Goto(d, "compare") /\ UNCHANGED <<req, served>>
    BY <2>3 DEF Goto, TypeParted, RequestOK, Moves, Edge
  <2> QED
    BY <1>6, <2>1, <2>2, <2>3 DEF Reply
<1>7. CASE LoadMetas(d) \/ ReplaceRuleMeta(d)
  BY <1>7, FinishMoves DEF LoadMetas, ReplaceRuleMeta
<1>8. CASE Compare(d)
  BY <1>8, FinishMoves, StepMoves DEF Compare, Edge
<1>9. CASE Check(d) \/ ReadMode(d)
  BY <1>9, FinishMoves, StepMoves DEF Check, ReadMode, Edge
<1>10. CASE Put(d)
  <2>1. CASE pc[d] = "put" /\ Goto(d, "dbMode") /\ UNCHANGED <<req, served>>
    BY <2>1 DEF Goto, TypeParted, RequestOK, Moves, Edge
  <2>2. CASE pc[d] = "put" /\ Step(d, "fileMode")
    BY <2>2, StepMoves DEF Edge
  <2>3. CASE Finish(d, "error")
    BY <2>3, FinishMoves
  <2> QED
    BY <1>10, <2>1, <2>2, <2>3 DEF Put
<1>11. CASE SaveLearnsDatabase(d) \/ SaveLearnsFile(d)
  BY <1>11, StepMoves DEF SaveLearnsDatabase, SaveLearnsFile, SetMode, StoreMode, Edge
<1>12. CASE RecordDatabase(d)
  BY <1>12, SaveReturnsMoves DEF RecordDatabase, Edge
<1>13. CASE Write(d)
  <2>1. CASE pc[d] = "write" /\ Goto(d, "fileRecord") /\ UNCHANGED <<req, served>>
    BY <2>1 DEF Goto, TypeParted, RequestOK, Moves, Edge
  <2>2. CASE \E a : Finish(d, a)
    BY <2>2, FinishMoves
  <2> QED
    BY <1>13, <2>1, <2>2 DEF Write
<1>14. CASE RecordFile(d)
  BY <1>14, SaveReturnsMoves, StepMoves DEF RecordFile, Edge
<1>15. CASE SignalHUP(d)
  BY <1>15, SaveReturnsMoves, StepMoves DEF SignalHUP, Edge
<1>16. CASE Verify(d)
  BY <1>16, SaveReturnsMoves, FinishMoves DEF Verify, Edge
<1> QED
  BY <1>1, <1>2, <1>3, <1>4, <1>5, <1>6, <1>7, <1>8, <1>9, <1>10, <1>11, <1>12, <1>13,
     <1>14, <1>15, <1>16
  DEF ClientStep, RequestStep, GetStep, SaveStep

\* What a client's step leaves alone, by the actions that may change it.
LEMMA ClientFrame ==
  ASSUME NEW d \in Clients, ClientStep(d)
  PROVE  /\ UNCHANGED hsMode
         /\ UNCHANGED <<dbPolicy, running>> \/ Put(d)
         /\ UNCHANGED file \/ Write(d)
         /\ UNCHANGED byUi \/ Put(d) \/ Write(d)
         /\ UNCHANGED hupSent \/ SignalHUP(d)
         /\ UNCHANGED <<versions, newest>>
              \/ Snapshot(d) \/ RecordDatabase(d) \/ RecordFile(d)
         /\ UNCHANGED <<mode, kvMode>>
              \/ LearnDatabase(d) \/ SaveLearnsDatabase(d) \/ SaveLearnsFile(d)
<1> USE DEF hsVars, modeVars, storeVars
<1>1. CASE BeginStep(d)
  BY <1>1 DEF BeginStep, BeginRead, BeginSave, BeginModel, Begin
<1>2. CASE LockModel(d)
  BY <1>2 DEF LockModel
<1>3. CASE GetStep(d)
  BY <1>3 DEF GetStep, Fetch, CompareLatest, SeeMode, Reply, LoadMetas, Snapshot,
              LearnDatabase, SetMode, StoreMode
<1>4. CASE SaveStep(d)
  BY <1>4 DEF SaveStep, Check, ReadMode, Verify, Put, Write, SignalHUP, RecordDatabase,
              RecordFile, SaveLearnsDatabase, SaveLearnsFile, SetMode, StoreMode
<1>5. CASE Compare(d) \/ ReplaceRuleMeta(d)
  BY <1>5 DEF Compare, ReplaceRuleMeta
<1> QED
  BY <1>1, <1>2, <1>3, <1>4, <1>5 DEF ClientStep, RequestStep

\* A request's next step is told by where it is.
LEMMA StepAt ==
  ASSUME NEW d \in Clients, ClientStep(d)
  PROVE  /\ pc[d] = "latest" => CompareLatest(d)
         /\ pc[d] = "snapshot" => Snapshot(d)
         /\ pc[d] = "check" => Check(d)
         /\ pc[d] = "dbRecord" => RecordDatabase(d)
         /\ pc[d] = "fileRecord" => RecordFile(d)
         /\ pc[d] = "hup" => SignalHUP(d)
         /\ pc[d] = "fetch" => Fetch(d)
         /\ pc[d] = "seeMode" => SeeMode(d)
         /\ pc[d] = "put" => Put(d)
         /\ pc[d] = "write" => Write(d)
         /\ pc[d] = "readMode" => ReadMode(d)
         /\ pc[d] = "verify" => Verify(d)
         /\ pc[d] = "compare" => Compare(d)
         /\ pc[d] = "meta" => ReplaceRuleMeta(d)
         /\ pc[d] = "idle" => BeginStep(d)
         /\ pc[d] \in {"learn", "learnKV"} => LearnDatabase(d)
         /\ pc[d] \in {"dbMode", "dbKV"} => SaveLearnsDatabase(d)
         /\ pc[d] \in {"fileMode", "fileKV"} => SaveLearnsFile(d)
BY DEF ClientStep, BeginStep, BeginRead, BeginSave, BeginModel, Begin, LockModel,
       RequestStep, GetStep, SaveStep, Fetch, CompareLatest, Snapshot, SeeMode,
       LearnDatabase, SetMode, StoreMode, Reply, LoadMetas, Check, ReadMode, Put,
       SaveLearnsDatabase, SaveLearnsFile, RecordDatabase, RecordFile, Write, SignalHUP,
       Verify, Compare, ReplaceRuleMeta

LEMMA NextSplit ==
  ASSUME [Next]_vars
  PROVE  (\E d \in Clients : ClientStep(d)) \/ Environment \/ UNCHANGED vars
BY DEF Next, ClientStep

----------------------------------------------------------------------------
(* The file headscale loads.                                               *)

Passed == {"readMode", "put", "fileMode", "fileKV", "write"}

\* A save past the dry run carries a text headscale accepts.
LoadableInv ==
  file \in Valid /\ \A c \in Clients : pc[c] \in Passed => req[c].live \in Valid

LEMMA LoadableStep == EditInv /\ LoadableInv /\ [Next]_vars => LoadableInv'
<1> SUFFICES ASSUME EditInv, LoadableInv, [Next]_vars PROVE LoadableInv'
  OBVIOUS
<1>1. ASSUME NEW d \in Clients, ClientStep(d) PROVE LoadableInv'
  <2>1. file' \in Valid
    BY <1>1, ClientFrame DEF LoadableInv, Write, Passed
  <2>2. ASSUME NEW c \in Clients \ {d} PROVE pc'[c] \in Passed => req'[c].live \in Valid
    BY <1>1, <2>2, ClientGood DEF ClientStep, Good, Elsewhere, LoadableInv
  <2>3. pc'[d] \in Passed => req'[d].live \in Valid
    <3>1. CASE pc[d] \in Passed
      BY <1>1, <3>1, ControlFlow DEF EditInv, Moves, Edge, LoadableInv, Passed
    <3>2. CASE pc[d] \notin Passed /\ pc'[d] \in Passed
      <4>1. pc[d] = "check" /\ pc'[d] = "readMode" /\ req'[d] = req[d]
        BY <1>1, <3>2, ControlFlow DEF EditInv, Moves, Edge, Passed
      <4>2. Check(d)
        BY <1>1, <4>1, StepAt
      <4>3. req[d].live \in Valid
        BY <4>1, <4>2 DEF Check, Finish, Goto, EditInv, TypeParted, RequestOK
      <4> QED
        BY <4>1, <4>3
    <3> QED
      BY <3>1, <3>2
  <2> QED
    BY <2>1, <2>2, <2>3 DEF LoadableInv
<1>2. CASE Environment
  <2>1. CASE Reload \/ ApplyLate \/ SwitchMode
    BY <2>1 DEF Reload, ApplyLate, SwitchMode, clientVars, LoadableInv
  <2>2. CASE OutsideEdit
    BY <2>2 DEF OutsideEdit, clientVars, LoadableInv
  <2>3. CASE Restart
    BY <2>3 DEF Restart, LoadableInv, Passed
  <2> QED
    BY <1>2, <2>1, <2>2, <2>3 DEF Environment
<1>3. CASE UNCHANGED vars
  BY <1>3 DEF vars, clientVars, LoadableInv
<1> QED
  BY <1>1, <1>2, <1>3, NextSplit

\* The policy file is one headscale accepts, whatever fails, crashes or
\* restarts: no path leads to the file around the dry run.
THEOREM PolicyFileIsLoadable == Spec => []FileStaysLoadable
<1>1. Init => LoadableInv
  BY DEF Init, LoadableInv, Passed
<1>2. LoadableInv => FileStaysLoadable
  BY DEF LoadableInv, FileStaysLoadable
<1> QED
  BY <1>1, <1>2, LoadableStep, EditInvariance, PTL DEF Spec

----------------------------------------------------------------------------
(* The history.                                                            *)

\* No step takes a row away; without StoreFails a step that adds a row adds it.
LEMMA RowsStay ==
  ASSUME [Next]_vars PROVE versions \subseteq versions'
<1>1. ASSUME NEW d \in Clients, ClientStep(d) PROVE versions \subseteq versions'
  BY <1>1, ClientFrame DEF Snapshot, RecordDatabase, RecordFile, AddVersion
<1>2. ASSUME Environment PROVE versions \subseteq versions'
  BY <1>2 DEF Environment, Reload, ApplyLate, OutsideEdit, SwitchMode, Restart, storeVars
<1> QED
  BY <1>1, <1>2, NextSplit DEF vars, storeVars

LEMMA AddVersionRecords ==
  ASSUME ~StoreFails, NEW s, NEW t, AddVersion(s, t)
  PROVE  [source |-> s, text |-> t] \in versions' /\ Recorded(t)' /\ newest' = t
BY DEF AddVersion, Recorded

Observed == {"seeMode", "learn", "learnKV", "reply", "metas", "compare"}

ObservedInv ==
  /\ newest # Unset => Recorded(newest)
  /\ \A c \in Clients : pc[c] \in Observed => Recorded(served[c].text)

LEMMA ObservedStep ==
  ASSUME ~StoreFails PROVE EditInv /\ ObservedInv /\ [Next]_vars => ObservedInv'
<1> SUFFICES ASSUME EditInv, ObservedInv, [Next]_vars PROVE ObservedInv'
  OBVIOUS
<1>0. versions \subseteq versions'
  BY RowsStay
<1>1. ASSUME NEW d \in Clients, ClientStep(d) PROVE ObservedInv'
  <2>1. newest' # Unset => Recorded(newest)'
    <3>1. CASE UNCHANGED newest
      BY <1>0, <3>1 DEF ObservedInv, Recorded
    <3>2. CASE Snapshot(d) \/ RecordDatabase(d) \/ RecordFile(d)
      <4>1. \E s, t : AddVersion(s, t)
        BY <3>2 DEF Snapshot, RecordDatabase, RecordFile
      <4> QED
        BY <4>1, AddVersionRecords DEF Recorded
    <3> QED
      BY <1>1, <3>1, <3>2, ClientFrame
  <2>2. ASSUME NEW c \in Clients \ {d}, pc'[c] \in Observed
        PROVE  Recorded(served[c].text)'
    <3>1. pc[c] \in Observed /\ served'[c] = served[c]
      BY <1>1, <2>2, ClientGood DEF ClientStep, Good, Elsewhere
    <3> QED
      BY <1>0, <3>1 DEF ObservedInv, Recorded
  <2>3. ASSUME pc'[d] \in Observed PROVE Recorded(served[d].text)'
    <3>1. /\ pc[d] \in Observed \cup {"latest", "snapshot"} /\ served'[d] = served[d]
          /\ pc[d] \in {"latest", "snapshot"} => pc'[d] = "seeMode"
      BY <1>1, <2>3, ControlFlow DEF EditInv, Moves, Edge, Observed
    <3>2. CASE pc[d] \in Observed
      BY <1>0, <3>1, <3>2 DEF ObservedInv, Recorded
    <3>3. CASE pc[d] = "latest"
      <4>1. newest = served[d].text
        BY <1>1, <3>1, <3>3, StepAt
        DEF CompareLatest, Step, Goto, EditInv, TypeParted, RequestOK
      <4>2. served[d].text # Unset
        BY ConstantsAssumption DEF EditInv, TypeParted, RequestOK, States
      <4> QED
        BY <1>0, <3>1, <4>1, <4>2 DEF ObservedInv, Recorded
    <3>4. CASE pc[d] = "snapshot"
      <4>1. AddVersion("external-snapshot", served[d].text)
        BY <1>1, <3>4, StepAt DEF Snapshot
      <4> QED
        BY <3>1, <4>1, AddVersionRecords DEF Recorded
    <3> QED
      BY <3>1, <3>2, <3>3, <3>4
  <2> QED
    BY <2>1, <2>2, <2>3 DEF ObservedInv
<1>2. CASE Environment
  <2>1. CASE Reload \/ ApplyLate \/ OutsideEdit \/ SwitchMode
    <3>1. UNCHANGED <<pc, served, newest>>
      BY <2>1 DEF Reload, ApplyLate, OutsideEdit, SwitchMode, clientVars, storeVars
    <3> QED
      BY <1>0, <3>1 DEF ObservedInv, Recorded
  <2>2. CASE Restart
    <3>1. newest' = newest /\ \A c \in Clients : pc'[c] = "idle"
      BY <2>2 DEF Restart, storeVars
    <3> QED
      BY <1>0, <3>1 DEF ObservedInv, Observed, Recorded
  <2> QED
    BY <1>2, <2>1, <2>2 DEF Environment
<1>3. CASE UNCHANGED vars
  BY <1>0, <1>3 DEF vars, clientVars, storeVars, ObservedInv, Recorded
<1> QED
  BY <1>1, <1>2, <1>3, NextSplit

\* Every policy text that a Get answers or a structured save starts from is in
\* the history by then, if SQLite works: restarts and outside changes included.
THEOREM EveryObservedPolicyIsRecorded ==
  ASSUME ~StoreFails PROVE Spec => []ObservedIsRecorded
<1>1. Init => ObservedInv
  BY DEF Init, ObservedInv, Observed
<1>2. ObservedInv => ObservedIsRecorded
  BY DEF ObservedInv, ObservedIsRecorded, Observed
<1> QED
  BY <1>1, <1>2, ObservedStep, EditInvariance, PTL DEF Spec

\* Hypotheses on the bounds take actions away.
LEMMA NoRestart == ASSUME TypeParted, MaxRestarts = 0 PROVE ~Restart
BY DEF TypeParted, Budget, Restart

LEMMA NoSwitch == ASSUME TypeParted, MaxSwitches = 0 PROVE ~SwitchMode
BY DEF TypeParted, Budget, SwitchMode

\* Past its record a save has its row.
AppliedInv ==
  \A c \in Clients : pc[c] \in {"hup", "verify"} =>
    [source |-> "ui", text |-> req[c].live] \in versions

LEMMA AppliedStep ==
  ASSUME ~StoreFails, MaxRestarts = 0
  PROVE  EditInv /\ AppliedInv /\ [Next]_vars => AppliedInv'
<1> SUFFICES ASSUME EditInv, AppliedInv, [Next]_vars PROVE AppliedInv'
  OBVIOUS
<1>0. versions \subseteq versions'
  BY RowsStay
<1>1. ASSUME NEW d \in Clients, ClientStep(d) PROVE AppliedInv'
  <2>1. ASSUME NEW c \in Clients \ {d}, pc'[c] \in {"hup", "verify"}
        PROVE  [source |-> "ui", text |-> req'[c].live] \in versions'
    BY <1>0, <1>1, <2>1, ClientGood DEF ClientStep, Good, Elsewhere, AppliedInv
  <2>2. ASSUME pc'[d] \in {"hup", "verify"}
        PROVE  [source |-> "ui", text |-> req'[d].live] \in versions'
    <3>1. pc[d] \in {"hup", "fileRecord"} /\ req'[d] = req[d]
      BY <1>1, <2>2, ControlFlow DEF EditInv, Moves, Edge
    <3>2. pc[d] = "fileRecord" => AddVersion("ui", req[d].live)
      BY <1>1, StepAt DEF RecordFile
    <3> QED
      BY <1>0, <3>1, <3>2, AddVersionRecords DEF AppliedInv
  <2> QED
    BY <2>1, <2>2 DEF AppliedInv
<1>2. CASE Environment
  <2>1. UNCHANGED <<pc, req>>
    BY <1>2, NoRestart
    DEF Environment, Reload, ApplyLate, OutsideEdit, SwitchMode, clientVars, EditInv
  <2> QED
    BY <1>0, <2>1 DEF AppliedInv
<1>3. CASE UNCHANGED vars
  BY <1>3 DEF vars, clientVars, storeVars, AppliedInv
<1> QED
  BY <1>1, <1>2, <1>3, NextSplit

LEMMA AppliedReturn ==
  ASSUME ~StoreFails, MaxRestarts = 0, EditInv, AppliedInv, [Next]_vars,
         NEW c \in Clients, pc[c] \in Replacing, pc'[c] \in {"idle", "meta"}
  PROVE  [source |-> "ui", text |-> req[c].live] \in versions'
<1>0. versions \subseteq versions' /\ pc[c] \notin {"idle", "meta"}
  BY RowsStay DEF Replacing
<1>1. ~Environment /\ ~UNCHANGED vars
  BY <1>0, NoRestart
  DEF Environment, Reload, ApplyLate, OutsideEdit, SwitchMode, clientVars, EditInv, vars
<1>2. ClientStep(c)
  <2>1. PICK d \in Clients : ClientStep(d)
    BY <1>1, NextSplit
  <2>2. d = c
    BY <1>0, <2>1, ClientGood DEF ClientStep, Good, Elsewhere
  <2> QED
    BY <2>1, <2>2
<1>3. CASE pc[c] \in {"hup", "verify"}
  BY <1>0, <1>3 DEF AppliedInv
<1>4. CASE pc[c] \in {"dbRecord", "fileRecord"}
  <2>1. AddVersion("ui", req[c].live)
    BY <1>2, <1>4, StepAt DEF RecordDatabase, RecordFile
  <2> QED
    BY <2>1, AddVersionRecords
<1>5. CASE pc[c] \in {"dbMode", "dbKV"}
  <2>1. SaveLearnsDatabase(c)
    BY <1>2, <1>5, StepAt
  <2> QED
    BY <2>1 DEF SaveLearnsDatabase, SetMode, StoreMode, Step, Goto, EditInv, TypeParted,
                RequestOK
<1> QED
  BY <1>3, <1>4, <1>5 DEF Replacing

\* A save that replaced the policy does not answer, with success or an error,
\* before its text is in the history, if SQLite works and Head-Control lives.
THEOREM EveryAppliedSaveIsRecorded ==
  ASSUME ~StoreFails, MaxRestarts = 0 PROVE Spec => AppliedIsRecorded
<1>1. Init => AppliedInv
  BY DEF Init, AppliedInv
<1>2. EditInv /\ AppliedInv /\ [Next]_vars =>
        [\A c \in Clients :
           pc[c] \in Replacing /\ pc'[c] \in {"idle", "meta"}
             => [source |-> "ui", text |-> req[c].live] \in versions']_vars
  BY AppliedReturn
<1> QED
  BY <1>1, <1>2, AppliedStep, EditInvariance, PTL DEF Spec, AppliedIsRecorded

Unrecorded == {"dbMode", "dbKV", "dbRecord", "fileRecord"}

LEMMA UiStep ==
  ASSUME ~StoreFails, MaxRestarts = 0
  PROVE  EditInv /\ UiPolicyIsRecorded /\ [Next]_vars => UiPolicyIsRecorded'
<1> SUFFICES ASSUME EditInv, UiPolicyIsRecorded, [Next]_vars, byUi'
             PROVE  Recorded(Served)' \/ \E c \in Clients :
                      req'[c].live = Served' /\ pc'[c] \in Unrecorded
  BY DEF UiPolicyIsRecorded, Unrecorded
<1>0. versions \subseteq versions'
  BY RowsStay
<1>1. ASSUME NEW d \in Clients, ClientStep(d), Served' = Served, byUi
      PROVE  Recorded(Served)' \/ \E c \in Clients :
               req'[c].live = Served' /\ pc'[c] \in Unrecorded
  <2>1. CASE Recorded(Served)
    BY <1>0, <1>1, <2>1 DEF Recorded
  <2>2. CASE \E c \in Clients \ {d} : req[c].live = Served /\ pc[c] \in Unrecorded
    BY <1>1, <2>2, ClientGood DEF ClientStep, Good, Elsewhere
  <2>3. CASE req[d].live = Served /\ pc[d] \in {"dbMode", "dbKV"}
    <3>1. SaveLearnsDatabase(d)
      BY <1>1, <2>3, StepAt
    <3>2. pc'[d] \in Unrecorded /\ req'[d] = req[d]
      BY <3>1 DEF SaveLearnsDatabase, SetMode, StoreMode, Step, Goto, EditInv, TypeParted,
                  RequestOK, Unrecorded
    <3> QED
      BY <1>1, <2>3, <3>2
  <2>4. CASE req[d].live = Served /\ pc[d] \in {"dbRecord", "fileRecord"}
    <3>1. AddVersion("ui", req[d].live)
      BY <1>1, <2>4, StepAt DEF RecordDatabase, RecordFile
    <3> QED
      BY <1>1, <2>4, <3>1, AddVersionRecords DEF Recorded
  <2> QED
    BY <1>1, <2>1, <2>2, <2>3, <2>4 DEF UiPolicyIsRecorded, Unrecorded
<1>2. ASSUME NEW d \in Clients, ClientStep(d)
      PROVE  Recorded(Served)' \/ \E c \in Clients :
               req'[c].live = Served' /\ pc'[c] \in Unrecorded
  <2>1. CASE Put(d) /\ Goto(d, "dbMode")
    <3>1. /\ Served' = req[d].live
          /\ pc'[d] = "dbMode" /\ req'[d] = req[d]
      BY <2>1, ConstantsAssumption
      DEF Put, Served, Step, Finish, Goto, EditInv, TypeParted, RequestOK, Requests
    <3> QED
      BY <3>1 DEF Unrecorded
  <2>2. CASE Put(d) /\ ~Goto(d, "dbMode")
    <3>1. Served' = Served /\ byUi
      BY <2>2 DEF Put, Served
    <3> QED
      BY <1>1, <1>2, <3>1
  <2>3. CASE Write(d) /\ hsMode = "file" /\ file' = req[d].live /\ Goto(d, "fileRecord")
    <3>1. Served' = req[d].live /\ pc'[d] = "fileRecord" /\ req'[d] = req[d]
      BY <2>3 DEF Write, Served, Goto, Finish, EditInv, TypeParted, RequestOK
    <3> QED
      BY <3>1 DEF Unrecorded
  <2>4. CASE Write(d) /\ ~(hsMode = "file" /\ file' = req[d].live /\ Goto(d, "fileRecord"))
    <3>1. Served' = Served /\ byUi
      BY <2>4 DEF Write, Served
    <3> QED
      BY <1>1, <1>2, <3>1
  <2>5. CASE UNCHANGED <<hsMode, dbPolicy, file, byUi>>
    <3>1. Served' = Served /\ byUi
      BY <2>5 DEF Served
    <3> QED
      BY <1>1, <1>2, <3>1
  <2> QED
    BY <1>2, <2>1, <2>2, <2>3, <2>4, <2>5, ClientFrame
<1>3. CASE Environment
  <2>1. Reload
    BY <1>3, NoRestart DEF Environment, ApplyLate, OutsideEdit, SwitchMode, WrittenOutside,
                           EditInv
  <2>2. Served' = Served /\ byUi /\ UNCHANGED <<pc, req>>
    BY <2>1 DEF Reload, Served, clientVars
  <2> QED
    BY <1>0, <2>2 DEF UiPolicyIsRecorded, Unrecorded, Recorded
<1>4. CASE UNCHANGED vars
  <2>1. Served' = Served /\ byUi /\ UNCHANGED <<pc, req>>
    BY <1>4 DEF vars, hsVars, Served, clientVars
  <2> QED
    BY <1>0, <2>1 DEF UiPolicyIsRecorded, Unrecorded, Recorded
<1> QED
  BY <1>2, <1>3, <1>4, NextSplit

\* A policy that Head-Control put in force is in the history, or its save is
\* about to put it there, however many saves and outside changes interleave.
THEOREM EveryUiPolicyIsRecorded ==
  ASSUME ~StoreFails, MaxRestarts = 0 PROVE Spec => []UiPolicyIsRecorded
<1>1. Init => UiPolicyIsRecorded
  BY DEF Init, UiPolicyIsRecorded
<1> QED
  BY <1>1, UiStep, EditInvariance, PTL DEF Spec

----------------------------------------------------------------------------
(* The reload.                                                             *)

LEMMA ReloadStep ==
  ASSUME Reloader, ~Faults, MaxRestarts = 0
  PROVE  EditInv /\ ReloadIsOwed /\ [Next]_vars => ReloadIsOwed'
<1> DEFINE Owed == hupSent \/ \E c \in Clients : pc[c] \in {"fileRecord", "hup"}
<1> SUFFICES ASSUME EditInv, ReloadIsOwed, [Next]_vars, hsMode' = "file", file' # running'
             PROVE  Owed'
  BY DEF ReloadIsOwed
<1>1. ASSUME NEW d \in Clients, ClientStep(d) PROVE Owed'
  <2>1. hsMode = "file"
    BY <1>1, ClientFrame
  <2>2. CASE Write(d)
    <3>1. CASE UNCHANGED file
      <4>1. PICK c \in Clients : hupSent \/ pc[c] \in {"fileRecord", "hup"}
        BY <2>1, <2>2, <3>1 DEF Write, ReloadIsOwed
      <4>2. c # d => pc'[c] = pc[c]
        BY <1>1, ClientGood DEF ClientStep, Good, Elsewhere
      <4> QED
        BY <2>2, <4>1, <4>2 DEF Write
    <3>2. CASE Goto(d, "fileRecord")
      BY <3>2 DEF Goto, EditInv, TypeParted, RequestOK
    <3> QED
      BY <2>2, <3>1, <3>2 DEF Write
  <2>3. CASE UNCHANGED <<file, running>>
    <3>1. PICK c \in Clients : hupSent \/ pc[c] \in {"fileRecord", "hup"}
      BY <2>1, <2>3 DEF ReloadIsOwed
    <3>2. hupSent => hupSent'
      BY <1>1, ClientFrame DEF SignalHUP
    <3>3. CASE c # d /\ ~hupSent
      BY <1>1, <3>1, <3>3, ClientGood DEF ClientStep, Good, Elsewhere
    <3>4. CASE pc[d] = "fileRecord"
      <4>1. Step(d, "hup")
        BY <1>1, <3>4, StepAt DEF RecordFile
      <4> QED
        BY <4>1 DEF Step, Goto, EditInv, TypeParted, RequestOK
    <3>5. CASE pc[d] = "hup"
      BY <1>1, <3>5, StepAt DEF SignalHUP
    <3> QED
      BY <3>1, <3>2, <3>3, <3>4, <3>5
  <2>4. CASE Put(d)
    BY <2>1, <2>3, <2>4 DEF Put
  <2> QED
    BY <1>1, <2>2, <2>3, <2>4, ClientFrame
<1>2. CASE Environment
  <2>1. CASE Reload
    BY <2>1 DEF Reload
  <2>2. CASE ApplyLate
    BY <2>2 DEF ApplyLate
  <2>3. CASE OutsideEdit
    BY <2>3 DEF OutsideEdit
  <2>4. CASE SwitchMode
    BY <2>4 DEF SwitchMode, Served
  <2> QED
    BY <1>2, <2>1, <2>2, <2>3, <2>4, NoRestart DEF Environment, EditInv
<1>3. CASE UNCHANGED vars
  BY <1>3 DEF vars, hsVars, clientVars, ReloadIsOwed
<1> QED
  BY <1>1, <1>2, <1>3, NextSplit

\* With the docker integration, and if its signals get through, no interleaving
\* of saves leaves headscale with a file nobody is going to make it load.
THEOREM ReloadIsNeverForgotten ==
  ASSUME Reloader, ~Faults, MaxRestarts = 0 PROVE Spec => []ReloadIsOwed
<1>1. Init => ReloadIsOwed
  BY DEF Init, ReloadIsOwed, Served
<1> QED
  BY <1>1, ReloadStep, EditInvariance, PTL DEF Spec

----------------------------------------------------------------------------
(* The learned mode.                                                       *)

KV == {"learnKV", "dbKV", "fileKV"}

\* Every mode anybody learns is the one headscale runs in, and between the two
\* writes of setMode the field holds it already.
Lesson(c) ==
  /\ served[c].stamped => hsMode = "database"
  /\ pc[c] \in {"learn", "learnKV", "dbMode", "dbKV"} => hsMode = "database"
  /\ pc[c] \in {"fileMode", "fileKV"} => hsMode = "file"
  /\ pc[c] \in KV => mode = hsMode

ModeInv ==
  /\ LearnedModePersists
  /\ kvMode \in {Unset, hsMode}
  /\ \A c \in Clients : Lesson(c)

\* setMode, whichever call it is.
SettingMode(d, l, k, n) ==
  SetMode(d, l, hsMode, k, n) \/ StoreMode(d, k, hsMode, n)

LEMMA SettingModeStep ==
  ASSUME ~StoreFails, EditInv, ModeInv, NEW d \in Clients, NEW l, NEW k \in KV, NEW n,
         l \notin KV, n \in {"reply", "dbRecord", "write"},
         SettingMode(d, l, k, n), Elsewhere(d),
         k = "fileKV" <=> hsMode = "file"
  PROVE  ModeInv'
<1>1. UNCHANGED hsMode /\ hsMode \in {"database", "file"}
  BY DEF SettingMode, SetMode, StoreMode, hsVars, EditInv, TypeParted, HsOK
<1>2. pc'[d] \in {k, n} /\ served'[d] = served[d]
  BY DEF SettingMode, SetMode, StoreMode, Step, Goto, EditInv, TypeParted, RequestOK
<1>3. CASE SetMode(d, l, hsMode, k, n)
  <2>1. mode' = hsMode /\ kvMode' = kvMode /\ pc'[d] = (IF mode # hsMode THEN k ELSE n)
    BY <1>3 DEF SetMode, Step, Goto, EditInv, TypeParted, RequestOK
  <2>2. Lesson(d)'
    BY <1>1, <1>2, <2>1 DEF ModeInv, Lesson, KV
  <2>3. ASSUME NEW c \in Clients \ {d} PROVE Lesson(c)'
    BY <1>1, <2>1 DEF ModeInv, Lesson, Elsewhere
  <2>4. LearnedModePersists'
    <3>1. CASE mode # hsMode
      BY <2>1, <3>1 DEF LearnedModePersists, KV
    <3>2. CASE mode = hsMode /\ mode \in {kvMode, NewMode(kvMode)}
      BY <2>1, <3>2 DEF LearnedModePersists
    <3>3. CASE mode = hsMode /\ \E c \in Clients : pc[c] \in KV
      <4>1. pc[d] \notin KV
        BY <1>3 DEF SetMode
      <4> QED
        BY <3>3, <4>1 DEF LearnedModePersists, Elsewhere, KV
    <3> QED
      BY <3>1, <3>2, <3>3 DEF ModeInv, LearnedModePersists, KV
  <2> QED
    BY <1>1, <2>1, <2>2, <2>3, <2>4 DEF ModeInv
<1>4. CASE StoreMode(d, k, hsMode, n)
  <2>1. mode' = mode /\ kvMode' = hsMode /\ pc'[d] = n /\ pc[d] = k
    BY <1>4 DEF StoreMode, Step, Goto, EditInv, TypeParted, RequestOK
  <2>2. mode = hsMode
    BY <2>1 DEF ModeInv, Lesson
  <2>3. Lesson(d)'
    BY <1>1, <1>2, <2>1 DEF ModeInv, Lesson, KV
  <2>4. ASSUME NEW c \in Clients \ {d} PROVE Lesson(c)'
    BY <1>1, <2>1 DEF ModeInv, Lesson, Elsewhere
  <2> QED
    BY <1>1, <2>1, <2>2, <2>3, <2>4 DEF ModeInv, LearnedModePersists
<1> QED
  BY <1>3, <1>4 DEF SettingMode

LEMMA ModeStep ==
  ASSUME ~StoreFails, MaxSwitches = 0
  PROVE  EditInv /\ ModeInv /\ [Next]_vars => ModeInv'
<1> SUFFICES ASSUME EditInv, ModeInv, [Next]_vars PROVE ModeInv'
  OBVIOUS
<1>1. ASSUME NEW d \in Clients, ClientStep(d) PROVE ModeInv'
  <2>0. Elsewhere(d) /\ UNCHANGED hsMode /\ hsMode \in {"database", "file"}
    BY <1>1, ClientGood, ClientFrame
    DEF ClientStep, Good, EditInv, TypeParted, HsOK
  <2>1. CASE LearnDatabase(d)
    <3>1. hsMode = "database"
      BY <2>1 DEF LearnDatabase, SetMode, StoreMode, ModeInv, Lesson
    <3>2. SettingMode(d, "learn", "learnKV", "reply")
      BY <2>1, <3>1 DEF LearnDatabase, SettingMode
    <3> QED
      BY <2>0, <3>1, <3>2, SettingModeStep DEF KV
  <2>2. CASE SaveLearnsDatabase(d)
    <3>1. hsMode = "database"
      BY <2>2 DEF SaveLearnsDatabase, SetMode, StoreMode, ModeInv, Lesson
    <3>2. SettingMode(d, "dbMode", "dbKV", "dbRecord")
      BY <2>2, <3>1 DEF SaveLearnsDatabase, SettingMode
    <3> QED
      BY <2>0, <3>1, <3>2, SettingModeStep DEF KV
  <2>3. CASE SaveLearnsFile(d)
    <3>1. hsMode = "file"
      BY <2>3 DEF SaveLearnsFile, SetMode, StoreMode, ModeInv, Lesson
    <3>2. SettingMode(d, "fileMode", "fileKV", "write")
      BY <2>3, <3>1 DEF SaveLearnsFile, SettingMode
    <3> QED
      BY <2>0, <3>1, <3>2, SettingModeStep DEF KV
  <2>4. CASE pc[d] \notin KV \cup {"learn", "dbMode", "fileMode"}
    <3>1. UNCHANGED <<mode, kvMode>>
      BY <1>1, <2>4, ClientFrame
      DEF LearnDatabase, SaveLearnsDatabase, SaveLearnsFile, SetMode, StoreMode, KV
    <3>2. served'[d].stamped => hsMode = "database"
      <4>1. CASE pc[d] = "fetch"
        <5>1. Fetch(d)
          BY <1>1, <4>1, StepAt
        <5>2. CASE \E a : Finish(d, a)
          BY <5>2 DEF Finish, NoState, EditInv, TypeParted, RequestOK
        <5>3. CASE \E t : served' = [served EXCEPT ![d] =
                [text |-> t, stamped |-> hsMode = "database" /\ dbPolicy # Unset]]
          <6>1. served'[d].stamped = (hsMode = "database" /\ dbPolicy # Unset)
            BY <5>3 DEF EditInv, TypeParted, RequestOK
          <6> QED
            BY <6>1
        <5> QED
          BY <5>1, <5>2, <5>3 DEF Fetch
      <4>2. CASE pc[d] # "fetch"
        BY <1>1, <4>2, ControlFlow
        DEF Moves, NoState, EditInv, ModeInv, Lesson
      <4> QED
        BY <4>1, <4>2
    <3>3. pc'[d] \notin KV
      BY <1>1, <2>4, ControlFlow DEF EditInv, Moves, Edge, KV
    <3>4. pc'[d] = "learn" => hsMode = "database"
      <4>1. pc'[d] = "learn" => pc[d] = "seeMode"
        BY <1>1, ControlFlow DEF EditInv, Moves, Edge
      <4>2. pc[d] = "seeMode" /\ pc'[d] = "learn" => served[d].stamped
        BY <1>1, StepAt DEF SeeMode, Step, Goto, EditInv, TypeParted, RequestOK
      <4> QED
        BY <4>1, <4>2 DEF ModeInv, Lesson
    <3>5. /\ pc'[d] = "dbMode" => hsMode = "database"
          /\ pc'[d] = "fileMode" => hsMode = "file"
      <4>1. pc'[d] \in {"dbMode", "fileMode"} => Put(d)
        BY <1>1, ControlFlow, StepAt DEF EditInv, Moves, Edge
      <4> QED
        BY <4>1 DEF Put, Step, Finish, Goto, EditInv, TypeParted, RequestOK
    <3>6. Lesson(d)'
      BY <2>0, <3>2, <3>3, <3>4, <3>5 DEF Lesson, KV
    <3>7. ASSUME NEW c \in Clients \ {d} PROVE Lesson(c)'
      BY <2>0, <3>1 DEF ModeInv, Lesson, Elsewhere
    <3>8. LearnedModePersists'
      BY <2>0, <2>4, <3>1 DEF ModeInv, LearnedModePersists, Elsewhere, KV
    <3> QED
      BY <2>0, <3>1, <3>6, <3>7, <3>8 DEF ModeInv
  <2> QED
    BY <1>1, <2>1, <2>2, <2>3, <2>4, StepAt DEF KV
<1>2. CASE Environment
  <2>1. CASE Restart
    <3>1. /\ mode' = NewMode(kvMode) /\ UNCHANGED <<hsMode, kvMode>>
          /\ \A c \in Clients : pc'[c] = "idle" /\ served'[c] = NoState
      BY <2>1 DEF Restart
    <3> QED
      BY <3>1 DEF ModeInv, LearnedModePersists, Lesson, NoState, KV
  <2>2. CASE Reload \/ ApplyLate \/ OutsideEdit
    <3>1. UNCHANGED <<hsMode, mode, kvMode, pc, served>>
      BY <2>2 DEF Reload, ApplyLate, OutsideEdit, modeVars, clientVars
    <3> QED
      BY <3>1 DEF ModeInv, LearnedModePersists, Lesson
  <2> QED
    BY <1>2, <2>1, <2>2, NoSwitch DEF Environment, EditInv
<1>3. CASE UNCHANGED vars
  BY <1>3 DEF vars, hsVars, modeVars, clientVars, ModeInv, LearnedModePersists, Lesson
<1> QED
  BY <1>1, <1>2, <1>3, NextSplit

\* While headscale stays in its mode, the mode that was learned survives a
\* crash at any point, in any interleaving of the calls of setMode.
THEOREM LearnedModeSurvives ==
  ASSUME ~StoreFails, MaxSwitches = 0 PROVE Spec => []LearnedModePersists
<1>1. Init => ModeInv
  BY DEF Init, ModeInv, LearnedModePersists, Lesson, NoState, KV
<1>2. ModeInv => LearnedModePersists
  BY DEF ModeInv
<1> QED
  BY <1>1, <1>2, ModeStep, EditInvariance, PTL DEF Spec

-----------------------------------------------------------------------------
(* Structured saves as a whole.                                            *)

\* Head-Control does not take itself for being in file mode while headscale
\* keeps its policy in the database.
ModesFit == HsModes \subseteq {"file"} \/ NewMode(Unset) # "file"

\* The steps a request can be at, by what it asked for.
RequestAt(c) ==
  /\ pc[c] = "idle" <=> req[c].op = "none"
  /\ pc[c] \in {"lock", "compare", "meta"} => req[c].op = "model"
  /\ pc[c] \in SaveLabels => req[c].op \in {"save", "model"}

\* The manager believes in file mode, and writes the file, only if headscale
\* works from it.
FileAgrees ==
  /\ mode = "file" => hsMode = "file"
  /\ \A c \in Clients : pc[c] \in {"fileMode", "fileKV", "write"} => hsMode = "file"

\* What a structured save has applied is served until somebody overtakes it.
Carried(c) == UnderWay(c) /\ ~foreign => Served = req[c].live

Signals(c) == pc[c] \in {"hup", "verify"} => Reloader

\* The inductive invariant.
SaveInv ==
  /\ EditInv /\ FileAgrees
  /\ \A c \in Clients : RequestAt(c) /\ Carried(c) /\ Signals(c)

----------------------------------------------------------------------------
(* What a step of a client is, for the policy and the table of disabled    *)
(* rules: one of six things.                                               *)

\* A request arrives.
Arrives(d) ==
  /\ req[d].op = "none" /\ req'[d].op # "none" /\ ~UnderWay(d)' /\ ~UnderWay(d)
  /\ Served' = Served /\ meta' = meta

\* It goes on.
Goes(d) ==
  /\ req'[d] = req[d] /\ (UnderWay(d)' <=> UnderWay(d))
  /\ Served' = Served /\ meta' = meta

\* A structured save takes effect, or finds that there is nothing to change.
TakesEffect(d) ==
  /\ req'[d] = req[d] /\ req[d].op = "model" /\ modelMu = d /\ (foreign' <=> foreign)
  /\ ~UnderWay(d) /\ UnderWay(d)'
  /\ foreign \/ Served' = req[d].live
  /\ foreign \/ req[d].force \/ Served = req[d].base
  /\ meta' = meta

\* Its disabled rules are stored.
Stores(d) ==
  /\ req'[d] = NoRequest /\ UnderWay(d) /\ ~UnderWay(d)'
  /\ Served' = Served /\ meta' = req[d].off

\* A request ends without that.
Ends(d) ==
  /\ req'[d] = NoRequest /\ ~UnderWay(d) /\ ~UnderWay(d)'
  /\ Served' = Served /\ meta' = meta

\* A raw save replaces the policy.
WritesRaw(d) ==
  /\ req'[d] = req[d] /\ req[d].op = "save" /\ modelMu # d
  /\ ~UnderWay(d) /\ ~UnderWay(d)' /\ meta' = meta

Effect(d) == Arrives(d) \/ Goes(d) \/ TakesEffect(d) \/ Stores(d) \/ Ends(d) \/ WritesRaw(d)

UnderWayLabels == {"dbMode", "dbKV", "dbRecord", "fileRecord", "hup", "verify", "meta"}

LEMMA MetaFrame ==
  ASSUME NEW d \in Clients, ClientStep(d)
  PROVE  UNCHANGED meta \/ ReplaceRuleMeta(d)
<1> USE DEF storeVars
<1>1. CASE BeginStep(d)
  BY <1>1 DEF BeginStep, BeginRead, BeginSave, BeginModel, Begin
<1>2. CASE GetStep(d)
  BY <1>2 DEF GetStep, Fetch, CompareLatest, SeeMode, Reply, LoadMetas, Snapshot,
              LearnDatabase, SetMode, StoreMode, AddVersion
<1>3. CASE SaveStep(d)
  BY <1>3 DEF SaveStep, Check, ReadMode, Verify, Put, Write, SignalHUP, RecordDatabase,
              RecordFile, SaveLearnsDatabase, SaveLearnsFile, SetMode, StoreMode, AddVersion
<1>4. CASE LockModel(d) \/ Compare(d)
  BY <1>4 DEF LockModel, Compare
<1> QED
  BY <1>1, <1>2, <1>3, <1>4 DEF ClientStep, RequestStep

LEMMA ServedFrame ==
  ASSUME NEW d \in Clients, ClientStep(d)
  PROVE  Served' = Served \/ Put(d) \/ Write(d)
BY ClientFrame DEF Served

\* Where a step ends the request, the policy is as it was.
LEMMA EffectOfEnd ==
  ASSUME SaveInv, NEW d \in Clients, ClientStep(d), Served' = Served, meta' = meta,
         req'[d] = NoRequest, pc'[d] = "idle", pc[d] \notin UnderWayLabels \/ req[d].op # "model"
  PROVE  Ends(d)
<1>1. ~UnderWay(d)'
  BY DEF UnderWay
<1>2. ~UnderWay(d)
  BY DEF SaveInv, EditInv, Owner, UnderWay, UnderWayLabels
<1> QED
  BY <1>1, <1>2 DEF Ends

\* Where it goes on within its phase, too.
LEMMA EffectOfMove ==
  ASSUME SaveInv, NEW d \in Clients, ClientStep(d), Served' = Served, meta' = meta,
         req'[d] = req[d], Edge(pc[d], pc'[d]),
         pc'[d] \in UnderWayLabels /\ req[d].op = "model" => pc[d] \in UnderWayLabels
  PROVE  Goes(d)
<1>1. EditInv' /\ EditInv
  BY EditInvStep DEF SaveInv, ClientStep, Next
<1>2. (modelMu = d <=> pc[d] # "lock" /\ req[d].op = "model")
  BY <1>1 DEF EditInv, Owner, Edge
<1>3. (modelMu' = d <=> req[d].op = "model") 
  BY <1>1 DEF EditInv, Owner, Edge
<1>4. pc[d] \in UnderWayLabels => pc'[d] \in UnderWayLabels
  BY DEF Edge, UnderWayLabels
<1>5. UnderWay(d)' <=> UnderWay(d)
  BY <1>2, <1>3, <1>4 DEF UnderWay, UnderWayLabels
<1> QED
  BY <1>5 DEF Goes

\* A structured save that took effect goes on to its metadata, unless the wait
\* for the reload is cancelled.
LEMMA EffectIsFollowedUp ==
  ASSUME SaveInv, ~Faults \/ ~Reloader, NEW d \in Clients, ClientStep(d),
         req[d].op = "model", pc[d] \in UnderWayLabels \ {"meta"}
  PROVE  pc'[d] # "idle"
<1>1. TypeParted /\ Signals(d)
  BY DEF SaveInv, EditInv
<1>2. ASSUME NEW a, SaveReturns(d, a) PROVE pc'[d] # "idle"
  BY <1>1, <1>2 DEF SaveReturns, Goto, TypeParted, RequestOK
<1>3. ASSUME NEW l, Step(d, l), l # "idle" PROVE pc'[d] # "idle"
  BY <1>1, <1>3 DEF Step, Goto, TypeParted, RequestOK
<1>4. CASE pc[d] \in {"dbMode", "dbKV"}
  <2>1. SaveLearnsDatabase(d)
    BY <1>4, StepAt
  <2> QED
    BY <1>3, <2>1 DEF SaveLearnsDatabase, SetMode, StoreMode
<1>5. CASE pc[d] = "dbRecord"
  BY <1>2, <1>5, StepAt DEF RecordDatabase
<1>6. CASE pc[d] = "fileRecord"
  BY <1>2, <1>3, <1>6, StepAt DEF RecordFile
<1>7. CASE pc[d] = "hup"
  BY <1>2, <1>3, <1>7, StepAt DEF SignalHUP
<1>8. CASE pc[d] = "verify"
  <2>1. Verify(d) /\ ~Faults
    BY <1>1, <1>8, StepAt DEF Signals
  <2> QED
    BY <1>2, <2>1 DEF Verify
<1> QED
  BY <1>4, <1>5, <1>6, <1>7, <1>8 DEF UnderWayLabels

LEMMA PlainEffect ==
  ASSUME SaveInv, NEW d \in Clients, ClientStep(d), Served' = Served, meta' = meta,
         pc'[d] = "idle" => pc[d] \notin UnderWayLabels \/ req[d].op # "model",
         req[d].op = "model" /\ pc'[d] \in UnderWayLabels => pc[d] \in UnderWayLabels
  PROVE  Arrives(d) \/ Goes(d) \/ Ends(d)
<1>1. Moves(d)
  BY ControlFlow DEF SaveInv, EditInv
<1>2. CASE pc'[d] = "idle" /\ req'[d] = NoRequest
  BY <1>2, EffectOfEnd
<1>3. CASE pc[d] = "idle" /\ pc'[d] \in {"fetch", "check", "lock"} /\ req'[d].op # "none"
  <2>1. req[d].op = "none"
    BY <1>3 DEF SaveInv, RequestAt
  <2> QED
    BY <1>3, <2>1 DEF Arrives, UnderWay
<1>4. CASE Edge(pc[d], pc'[d]) /\ req'[d] = req[d]
  BY <1>4, EffectOfMove
<1> QED
  BY <1>1, <1>2, <1>3, <1>4 DEF Moves

\* headscale in database mode applies the PUT.
LEMMA PutEffect ==
  ASSUME SaveInv, NEW d \in Clients, Put(d) PROVE Effect(d)
<1>1. ClientStep(d) /\ pc[d] = "put" /\ UNCHANGED <<hsMode, file, meta>>
  BY DEF Put, ClientStep, RequestStep, SaveStep, storeVars
<1>2. TypeParted /\ Owner(d) /\ Steady(d) /\ RequestAt(d)
  BY DEF SaveInv, EditInv
<1>3. CASE UNCHANGED dbPolicy /\ (Step(d, "fileMode") \/ Finish(d, "error"))
  <2>1. pc'[d] \in {"fileMode", "idle"} /\ Served' = Served
    BY <1>1, <1>2, <1>3 DEF Step, Finish, Goto, TypeParted, RequestOK, Served
  <2> QED
    BY <1>1, <2>1, PlainEffect DEF UnderWayLabels, Effect
<1>4. CASE /\ hsMode = "database" /\ dbPolicy' = req[d].live /\ WrittenBy(d) /\ Goto(d, "dbMode")
           /\ UNCHANGED <<req, modelMu>>
  <2>1. Served' = req[d].live
    <3>1. req[d].live \in Texts
      BY <1>2 DEF TypeParted, RequestOK, Requests
    <3> QED
      BY <1>1, <1>4, <3>1, ConstantsAssumption DEF Served
  <2>2. pc'[d] = "dbMode" /\ req'[d] = req[d] /\ req[d].op \in {"save", "model"}
    BY <1>1, <1>2, <1>4 DEF Goto, TypeParted, RequestOK, RequestAt, SaveLabels
  <2>3. CASE req[d].op = "model"
    <3>1. modelMu = d /\ (foreign' <=> foreign)
      BY <1>1, <1>2, <1>4, <2>3 DEF Owner, WrittenBy
    <3> QED
      BY <1>1, <1>2, <1>4, <2>1, <2>2, <2>3, <3>1
      DEF TakesEffect, Effect, UnderWay, Steady, Deciding
  <2>4. CASE req[d].op = "save"
    BY <1>1, <1>2, <1>4, <2>2, <2>4 DEF WritesRaw, Effect, UnderWay, Owner
  <2> QED
    BY <2>2, <2>3, <2>4
<1> QED
  BY <1>3, <1>4 DEF Put

\* headscale in file mode works from the file that is replaced.
LEMMA WriteEffect ==
  ASSUME SaveInv, NEW d \in Clients, Write(d) PROVE Effect(d)
<1>1. ClientStep(d) /\ pc[d] = "write" /\ UNCHANGED <<hsMode, dbPolicy, meta>>
  BY DEF Write, ClientStep, RequestStep, SaveStep, storeVars
<1>2. TypeParted /\ Owner(d) /\ Steady(d) /\ RequestAt(d) /\ hsMode = "file"
  BY <1>1 DEF SaveInv, EditInv, FileAgrees
<1>3. CASE UNCHANGED file /\ \E a : Finish(d, a)
  <2>1. pc'[d] = "idle" /\ Served' = Served
    BY <1>1, <1>2, <1>3 DEF Finish, Goto, TypeParted, RequestOK, Served
  <2> QED
    BY <1>1, <2>1, PlainEffect DEF UnderWayLabels, Effect
<1>4. CASE /\ file' = req[d].live /\ WrittenBy(d) /\ Goto(d, "fileRecord")
           /\ UNCHANGED <<req, modelMu>>
  <2>1. Served' = req[d].live
    BY <1>1, <1>2, <1>4 DEF Served
  <2>2. pc'[d] = "fileRecord" /\ req'[d] = req[d] /\ req[d].op \in {"save", "model"}
    BY <1>1, <1>2, <1>4 DEF Goto, TypeParted, RequestOK, RequestAt, SaveLabels
  <2>3. CASE req[d].op = "model"
    <3>1. modelMu = d /\ (foreign' <=> foreign)
      BY <1>1, <1>2, <1>4, <2>3 DEF Owner, WrittenBy
    <3> QED
      BY <1>1, <1>2, <1>4, <2>1, <2>2, <2>3, <3>1
      DEF TakesEffect, Effect, UnderWay, Steady, Deciding
  <2>4. CASE req[d].op = "save"
    BY <1>1, <1>2, <1>4, <2>2, <2>4 DEF WritesRaw, Effect, UnderWay, Owner
  <2> QED
    BY <2>2, <2>3, <2>4
<1> QED
  BY <1>2, <1>3, <1>4 DEF Write

\* A save that changes nothing takes effect where it is compared.
LEMMA CompareEffect ==
  ASSUME SaveInv, NEW d \in Clients, Compare(d) PROVE Effect(d)
<1>1. ClientStep(d) /\ pc[d] = "compare" /\ UNCHANGED <<hsMode, file, dbPolicy, meta>>
  BY DEF Compare, ClientStep, RequestStep, storeVars, hsVars
<1>2. TypeParted /\ Owner(d) /\ Steady(d) /\ req[d].op = "model" /\ Served' = Served
  BY <1>1 DEF SaveInv, EditInv, RequestAt, Served
<1>3. CASE pc'[d] # "meta"
  <2>1. pc'[d] \in {"check", "idle"}
    BY <1>2, <1>3 DEF Compare, Step, Finish, Goto, TypeParted, RequestOK
  <2> QED
    BY <1>1, <1>2, <2>1, PlainEffect DEF UnderWayLabels, Effect
<1>4. CASE pc'[d] = "meta"
  <2>1. /\ Step(d, "meta") /\ (req[d].force \/ served[d].text = req[d].base)
        /\ req[d].live = served[d].text
    BY <1>2, <1>4 DEF Compare, Step, Finish, Goto, TypeParted, RequestOK
  <2>2. modelMu = d /\ modelMu' = d /\ req'[d] = req[d] /\ (foreign' <=> foreign)
    BY <1>1, <1>2, <2>1 DEF Owner, Step
  <2>3. foreign \/ Served = served[d].text
    BY <1>1, <1>2, <2>2 DEF Steady, Reading
  <2> QED
    BY <1>1, <1>2, <1>4, <2>1, <2>2, <2>3 DEF TakesEffect, Effect, UnderWay
<1> QED
  BY <1>3, <1>4

LEMMA StoreEffect ==
  ASSUME ~StoreFails, SaveInv, NEW d \in Clients, ReplaceRuleMeta(d) PROVE Effect(d)
<1>1. /\ pc[d] = "meta" /\ meta' = req[d].off /\ \E a : Finish(d, a)
      /\ UNCHANGED <<hsMode, file, dbPolicy>>
  BY DEF ReplaceRuleMeta, hsVars
<1>2. TypeParted /\ Owner(d) /\ req[d].op = "model" /\ Served' = Served
  BY <1>1 DEF SaveInv, EditInv, RequestAt, Served
<1>3. pc'[d] = "idle" /\ req'[d] = NoRequest /\ modelMu = d
  BY <1>1, <1>2 DEF Finish, Goto, TypeParted, RequestOK, Owner
<1> QED
  BY <1>1, <1>2, <1>3 DEF Stores, Effect, UnderWay

LEMMA EveryStepHasEffect ==
  ASSUME ~StoreFails, ~Faults \/ ~Reloader, SaveInv, NEW d \in Clients, ClientStep(d)
  PROVE  Effect(d)
<1>1. CASE Put(d) \/ Write(d) \/ Compare(d) \/ ReplaceRuleMeta(d)
  BY <1>1, PutEffect, WriteEffect, CompareEffect, StoreEffect
<1>2. CASE ~(Put(d) \/ Write(d) \/ Compare(d) \/ ReplaceRuleMeta(d))
  <2>1. Served' = Served /\ meta' = meta
    BY <1>2, ServedFrame, MetaFrame
  <2>2. pc[d] \notin {"put", "write", "compare", "meta"}
    BY <1>2, StepAt
  <2>3. Moves(d) /\ TypeParted
    BY ControlFlow DEF SaveInv, EditInv
  <2>4. req[d].op = "model" /\ pc'[d] \in UnderWayLabels => pc[d] \in UnderWayLabels
    BY <2>2, <2>3 DEF Moves, Edge, UnderWayLabels
  <2>5. pc'[d] = "idle" => pc[d] \notin UnderWayLabels \/ req[d].op # "model"
    BY <2>2, EffectIsFollowedUp
  <2> QED
    BY <2>1, <2>4, <2>5, PlainEffect DEF Effect
<1> QED
  BY <1>1, <1>2

----------------------------------------------------------------------------
(* The invariant holds.                                                    *)

LEMMA SaveInvInit == ASSUME ModesFit PROVE Init => SaveInv
<1> SUFFICES ASSUME Init PROVE SaveInv
  OBVIOUS
<1>1. EditInv
  BY EditInvInit
<1>2. \A c \in Clients : pc[c] = "idle" /\ req[c].op = "none"
  BY DEF Init, NoRequest
<1>3. mode = "file" => hsMode = "file"
  BY ConstantsAssumption DEF Init, ModesFit
<1>4. \A c \in Clients : RequestAt(c) /\ Carried(c) /\ Signals(c)
  BY <1>2 DEF RequestAt, Carried, Signals, UnderWay, SaveLabels
<1> QED
  BY <1>1, <1>2, <1>3, <1>4 DEF SaveInv, FileAgrees

LEMMA RequestAtStep ==
  ASSUME SaveInv, NEW d \in Clients, ClientStep(d) PROVE RequestAt(d)' /\ Signals(d)'
<1>1. Moves(d) /\ TypeParted /\ RequestAt(d) /\ Signals(d)
  BY ControlFlow DEF SaveInv, EditInv
<1>2. RequestAt(d)'
  BY <1>1 DEF Moves, Edge, RequestAt, NoRequest, SaveLabels
<1>3. ASSUME pc[d] = "fileRecord", pc'[d] = "hup" PROVE Reloader
  BY <1>1, <1>3, StepAt DEF RecordFile, SaveReturns, Finish, Goto, TypeParted, RequestOK
<1>4. Signals(d)'
  BY <1>1, <1>3 DEF Moves, Edge, Signals
<1> QED
  BY <1>2, <1>4

\* File mode is learned from headscale's own answer.
LEMMA FileAgreesStep ==
  ASSUME SaveInv, NEW d \in Clients, ClientStep(d) PROVE FileAgrees'
<1>1. /\ Moves(d) /\ TypeParted /\ FileAgrees /\ UNCHANGED hsMode
      /\ \A c \in Clients \ {d} : pc'[c] = pc[c]
  BY ControlFlow, ClientFrame, ClientGood DEF SaveInv, EditInv, ClientStep, Good, Elsewhere
<1>2. mode' = "file" => hsMode = "file"
  <2>1. CASE UNCHANGED mode
    BY <1>1, <2>1 DEF FileAgrees
  <2>2. CASE LearnDatabase(d) \/ SaveLearnsDatabase(d)
    BY <1>1, <2>2 DEF LearnDatabase, SaveLearnsDatabase, SetMode, StoreMode, FileAgrees
  <2>3. CASE SaveLearnsFile(d)
    BY <1>1, <2>3 DEF SaveLearnsFile, SetMode, StoreMode, FileAgrees
  <2> QED
    BY <2>1, <2>2, <2>3, ClientFrame
<1>3. ASSUME pc'[d] \in {"fileMode", "fileKV", "write"} PROVE hsMode = "file"
  <2>1. CASE pc[d] \in {"fileMode", "fileKV", "write"}
    BY <1>1, <2>1 DEF FileAgrees
  <2>2. CASE pc[d] = "put"
    <3>1. Put(d)
      BY <2>2, StepAt
    <3> QED
      BY <1>1, <1>3, <3>1 DEF Put, Finish, Goto, TypeParted, RequestOK, HsOK
  <2>3. CASE pc[d] = "readMode"
    <3>1. ReadMode(d)
      BY <2>3, StepAt
    <3> QED
      BY <1>1, <1>3, <3>1 DEF ReadMode, Step, Goto, TypeParted, RequestOK, FileAgrees
  <2> QED
    BY <1>1, <1>3, <2>1, <2>2, <2>3 DEF Moves, Edge
<1> QED
  BY <1>1, <1>2, <1>3 DEF FileAgrees

\* Only a fetch and a write of the policy touch the flag while a request runs.
LEMMA ForeignFrame ==
  ASSUME TypeParted, NEW d \in Clients, ClientStep(d)
  PROVE  UNCHANGED foreign \/ pc'[d] = "idle" \/ pc[d] \in {"fetch", "put", "write"}
<1>1. ASSUME NEW a, Finish(d, a) PROVE pc'[d] = "idle"
  BY <1>1 DEF Finish, Goto, TypeParted, RequestOK
<1>2. ASSUME NEW a, SaveReturns(d, a) PROVE UNCHANGED foreign \/ pc'[d] = "idle"
  BY <1>1, <1>2 DEF SaveReturns
<1>3. CASE BeginStep(d) \/ LockModel(d)
  BY <1>3 DEF BeginStep, BeginRead, BeginSave, BeginModel, Begin, LockModel
<1>4. CASE GetStep(d)
  BY <1>1, <1>4 DEF GetStep, Fetch, CompareLatest, SeeMode, Reply, LoadMetas, Snapshot,
                    LearnDatabase, SetMode, StoreMode, Step
<1>5. CASE SaveStep(d)
  BY <1>1, <1>2, <1>5
  DEF SaveStep, Check, ReadMode, Verify, Put, Write, SignalHUP, RecordDatabase,
      RecordFile, SaveLearnsDatabase, SaveLearnsFile, SetMode, StoreMode, Step
<1>6. CASE Compare(d) \/ ReplaceRuleMeta(d)
  BY <1>1, <1>6 DEF Compare, ReplaceRuleMeta, Step
<1> QED
  BY <1>3, <1>4, <1>5, <1>6 DEF ClientStep, RequestStep

LEMMA CarriedStep ==
  ASSUME ~StoreFails, ~Faults \/ ~Reloader, SaveInv, NEW d \in Clients, ClientStep(d)
  PROVE  Carried(d)'
<1>1. EditInv /\ EditInv' /\ Carried(d) /\ Effect(d) /\ Elsewhere(d)
  BY EveryStepHasEffect, EditInvStep, ClientGood DEF SaveInv, ClientStep, Next, Good
<1>2. CASE Goes(d)
  <2>1. UnderWay(d)' => /\ UnderWay(d) /\ pc'[d] # "idle"
                        /\ pc[d] \notin {"fetch", "put", "write"}
    BY <1>2 DEF Goes, UnderWay
  <2>2. UnderWay(d)' => UNCHANGED foreign
    BY <1>1, <2>1, ForeignFrame DEF EditInv
  <2> QED
    BY <1>1, <1>2, <2>1, <2>2 DEF Goes, Carried
<1>3. CASE TakesEffect(d)
  BY <1>3 DEF TakesEffect, Carried
<1>4. CASE Arrives(d) \/ Stores(d) \/ Ends(d) \/ WritesRaw(d)
  BY <1>4 DEF Arrives, Stores, Ends, WritesRaw, Carried
<1> QED
  BY <1>1, <1>2, <1>3, <1>4 DEF Effect

LEMMA SaveInvStep ==
  ASSUME ~StoreFails, ~Faults \/ ~Reloader, MaxSwitches = 0, MaxRestarts = 0
  PROVE  SaveInv /\ [Next]_vars => SaveInv'
<1> SUFFICES ASSUME SaveInv, [Next]_vars PROVE SaveInv'
  OBVIOUS
<1>1. EditInv' /\ EditInv
  BY EditInvStep DEF SaveInv
<1>2. ASSUME NEW d \in Clients, ClientStep(d) PROVE SaveInv'
  <2>1. ASSUME NEW c \in Clients \ {d} PROVE RequestAt(c)' /\ Signals(c)' /\ Carried(c)'
    <3>1. RequestAt(c) /\ Signals(c) /\ Carried(c) /\ Elsewhere(d)
      BY <1>1, <1>2, ClientGood DEF SaveInv, ClientStep, Good
    <3> QED
      BY <3>1 DEF RequestAt, Signals, Carried, UnderWay, Elsewhere
  <2> QED
    BY <1>1, <1>2, <2>1, RequestAtStep, FileAgreesStep, CarriedStep DEF SaveInv
<1>3. CASE Environment
  <2>1. UNCHANGED <<pc, req, modelMu, mode, hsMode>>
    BY <1>1, <1>3, NoSwitch, NoRestart
    DEF Environment, Reload, ApplyLate, OutsideEdit, clientVars, modeVars, EditInv
  <2>2. (Served' = Served /\ UNCHANGED foreign) \/ WrittenOutside
    BY <1>1, <1>3, NoSwitch, NoRestart DEF Environment, Reload, ApplyLate, OutsideEdit, Served, EditInv
  <2>3. \A c \in Clients : RequestAt(c) /\ Signals(c) /\ Carried(c)
    BY DEF SaveInv
  <2>4. ASSUME NEW c \in Clients PROVE Carried(c)'
    <3>1. UnderWay(c)' <=> UnderWay(c)
      BY <2>1 DEF UnderWay
    <3>2. WrittenOutside /\ UnderWay(c) => foreign'
      BY ConstantsAssumption DEF WrittenOutside, Overtake, UnderWay
    <3> QED
      BY <2>1, <2>2, <2>3, <3>1, <3>2 DEF Carried
  <2>5. \A c \in Clients : RequestAt(c)' /\ Signals(c)'
    BY <2>1, <2>3 DEF RequestAt, Signals
  <2>6. FileAgrees'
    BY <2>1 DEF SaveInv, FileAgrees
  <2> QED
    BY <1>1, <2>4, <2>5, <2>6 DEF SaveInv
<1>4. CASE UNCHANGED vars
  BY <1>1, <1>4 DEF vars, clientVars, hsVars, modeVars, SaveInv, FileAgrees, RequestAt, Signals,
                    Carried, UnderWay, Served
<1> QED
  BY <1>2, <1>3, <1>4, NextSplit

LEMMA SaveInvariance ==
  ASSUME ~StoreFails, ~Faults \/ ~Reloader, MaxSwitches = 0, MaxRestarts = 0, ModesFit
  PROVE  Spec => []SaveInv
BY SaveInvInit, SaveInvStep, PTL DEF Spec

----------------------------------------------------------------------------
(* Rules in keeping.                                                       *)

\* The one save under way is the holder's.
LEMMA OffOfHolder ==
  ASSUME NEW d \in Clients, modelMu = d
  PROVE  OffUnderWay = IF UnderWay(d) THEN req[d].off ELSE {}
BY DEF OffUnderWay, UnderWay

\* A request keeps its disabled rules while others make their steps.
LEMMA OffElsewhere ==
  ASSUME NEW d \in Clients, Elsewhere(d), ~UnderWay(d)
  PROVE  OffUnderWay \subseteq OffUnderWay'
<1>1. SUFFICES ASSUME NEW c \in Clients, UnderWay(c) PROVE req[c].off \subseteq OffUnderWay'
  BY DEF OffUnderWay
<1>2. c # d /\ UnderWay(c)' /\ req'[c] = req[c]
  BY <1>1 DEF Elsewhere, UnderWay
<1> QED
  BY <1>2 DEF OffUnderWay

NoRuleLost ==
  \A r \in Kept \ Kept' :
    IF \E c \in Clients : modelMu = c /\ pc'[c] # pc[c]
    THEN \E c \in Clients : modelMu = c /\ (foreign \/ r \notin req[c].live \cup req[c].off)
    ELSE Served' # Served

\* The holder lets go of rules when its save takes effect and when its
\* disabled rules are stored.
LEMMA HolderKeepsRules ==
  ASSUME SaveInv, NEW d \in Clients, ClientStep(d), Effect(d), modelMu = d
  PROVE  NoRuleLost
<1>1. pc'[d] # pc[d] /\ req[d].op = "model"
  <2>1. Moves(d) /\ Owner(d)
    BY ControlFlow DEF SaveInv, EditInv
  <2> QED
    BY <2>1 DEF Moves, Edge, Owner
<1>2. SUFFICES ASSUME NEW r \in Kept \ Kept'
               PROVE  foreign \/ r \notin req[d].live \cup req[d].off
  BY <1>1 DEF NoRuleLost
<1>3. r \in Served \cup meta \cup (IF UnderWay(d) THEN req[d].off ELSE {})
  BY OffOfHolder DEF Kept
<1>4. r \notin Served' /\ r \notin meta' /\ (UnderWay(d)' => r \notin req'[d].off)
  BY DEF Kept, OffUnderWay
<1>5. CASE Goes(d) \/ Ends(d)
  BY <1>3, <1>4, <1>5 DEF Goes, Ends
<1>6. CASE TakesEffect(d)
  BY <1>3, <1>4, <1>6 DEF TakesEffect
<1>7. CASE Stores(d)
  BY <1>3, <1>4, <1>7 DEF Stores, SaveInv, Carried
<1>8. ~Arrives(d) /\ ~WritesRaw(d)
  BY <1>1 DEF Arrives, WritesRaw
<1> QED
  BY <1>5, <1>6, <1>7, <1>8 DEF Effect

\* Others take rules away only by replacing the policy.
LEMMA OthersKeepRules ==
  ASSUME SaveInv, NEW d \in Clients, ClientStep(d), Effect(d), modelMu # d
  PROVE  NoRuleLost
<1>1. Elsewhere(d) /\ ~UnderWay(d)
  BY ClientGood DEF SaveInv, ClientStep, Good, UnderWay
<1>2. ~\E c \in Clients : modelMu = c /\ pc'[c] # pc[c]
  BY <1>1 DEF Elsewhere
<1>3. meta' = meta
  BY <1>1 DEF Effect, Arrives, Goes, TakesEffect, Stores, Ends, WritesRaw
<1>4. OffUnderWay \subseteq OffUnderWay'
  BY <1>1, OffElsewhere
<1> QED
  BY <1>2, <1>3, <1>4 DEF NoRuleLost, Kept

LEMMA EnvironmentKeepsRules ==
  ASSUME TypeParted, MaxSwitches = 0, MaxRestarts = 0, Environment \/ UNCHANGED vars
  PROVE  NoRuleLost
<1>1. UNCHANGED <<pc, req, modelMu, meta>>
  BY NoSwitch, NoRestart
  DEF Environment, Reload, ApplyLate, OutsideEdit, vars, clientVars, storeVars
<1>2. OffUnderWay' = OffUnderWay
  BY <1>1 DEF OffUnderWay, UnderWay
<1> QED
  BY <1>1, <1>2 DEF NoRuleLost, Kept

\* No rule disappears from Head-Control's keeping that nobody asked to remove,
\* whichever saves, raw edits, outside changes and late PUTs overlap, and if
\* calls to headscale fail: what it takes is that SQLite works, that no crash
\* and no change of mode comes in between, and that no wait for a reload is
\* cancelled.
THEOREM NoRuleDisappears ==
  ASSUME ~StoreFails, ~Faults \/ ~Reloader, MaxSwitches = 0, MaxRestarts = 0, ModesFit
  PROVE  Spec => RulesAreKept
<1>1. SaveInv /\ [Next]_vars => NoRuleLost
  <2>1. ASSUME SaveInv, NEW d \in Clients, ClientStep(d) PROVE NoRuleLost
    BY <2>1, EveryStepHasEffect, HolderKeepsRules, OthersKeepRules
  <2>2. ASSUME SaveInv, Environment \/ UNCHANGED vars PROVE NoRuleLost
    BY <2>2, EnvironmentKeepsRules DEF SaveInv, EditInv
  <2> QED
    BY <2>1, <2>2, NextSplit
<1>2. SaveInv /\ [Next]_vars =>
        [\A r \in Kept \ Kept' :
           IF \E c \in Clients : modelMu = c /\ pc'[c] # pc[c]
           THEN \E c \in Clients : modelMu = c /\ (foreign \/ r \notin req[c].live \cup req[c].off)
           ELSE Served' # Served]_vars
  BY <1>1 DEF NoRuleLost
<1> QED
  BY <1>2, SaveInvariance, PTL DEF Spec, RulesAreKept
----------------------------------------------------------------------------
(* Structured saves seen from outside, when nothing else writes the policy *)
(* and nothing fails.                                                      *)

\* What a client asks for, or has been shown, is a structured save's business.
Calm ==
  /\ foreign = FALSE /\ late = {}
  /\ \A c \in Clients :
       /\ req[c].op \in {"none", "get", "load", "model"}
       /\ view[c] = NoView \/ view[c].base \in Texts

LEMMA CalmInit == Init => Calm
BY DEF Init, Calm, NoRequest

LEMMA ViewStep ==
  ASSUME SaveInv, Calm, NEW d \in Clients, ClientStep(d), NEW c \in Clients
  PROVE  view'[c] = NoView \/ view'[c].base \in Texts
<1>1. TypeParted /\ (view[c] = NoView \/ view[c].base \in Texts)
  BY DEF SaveInv, EditInv, Calm
<1>2. CASE ShowModel(d)
  <2>1. served[d].text \in Texts
    BY <1>1 DEF TypeParted, RequestOK, States
  <2>2. PICK rows : view' = [view EXCEPT ![d] = [base |-> served[d].text,
                                                 off |-> rows \ served[d].text]]
    BY <1>2 DEF ShowModel
  <2> QED
    BY <1>1, <2>1, <2>2 DEF TypeParted
<1>3. CASE view' = view \/ view' = [view EXCEPT ![d] = NoView]
  BY <1>1, <1>3 DEF TypeParted
<1>4. ShowModel(d) \/ view' = view \/ view' = [view EXCEPT ![d] = NoView]
  <2>1. CASE BeginStep(d) \/ LockModel(d)
    BY <2>1 DEF BeginStep, BeginRead, BeginSave, BeginModel, Begin, LockModel
  <2>2. CASE GetStep(d)
    BY <2>2 DEF GetStep, Fetch, CompareLatest, SeeMode, Reply, LoadMetas, Snapshot,
                LearnDatabase, SetMode, StoreMode
  <2>3. CASE SaveStep(d)
    BY <2>3 DEF SaveStep, Check, ReadMode, Verify, Put, Write, SignalHUP, RecordDatabase,
                RecordFile, SaveLearnsDatabase, SaveLearnsFile, SetMode, StoreMode
  <2>4. CASE Compare(d) \/ ReplaceRuleMeta(d)
    BY <2>4 DEF Compare, ReplaceRuleMeta
  <2> QED
    BY <2>1, <2>2, <2>3, <2>4 DEF ClientStep, RequestStep
<1> QED
  BY <1>2, <1>3, <1>4

LEMMA ClientLate ==
  ASSUME NEW d \in Clients, ClientStep(d), ~Faults PROVE late' = late
<1> USE DEF hsVars
<1>1. CASE BeginStep(d) \/ LockModel(d)
  BY <1>1 DEF BeginStep, BeginRead, BeginSave, BeginModel, Begin, LockModel
<1>2. CASE GetStep(d)
  BY <1>2 DEF GetStep, Fetch, CompareLatest, SeeMode, Reply, LoadMetas, Snapshot,
              LearnDatabase, SetMode, StoreMode
<1>3. CASE SaveStep(d)
  BY <1>3 DEF SaveStep, Check, ReadMode, Verify, Put, Write, SignalHUP, RecordDatabase,
              RecordFile, SaveLearnsDatabase, SaveLearnsFile, SetMode, StoreMode
<1>4. CASE Compare(d) \/ ReplaceRuleMeta(d)
  BY <1>4 DEF Compare, ReplaceRuleMeta
<1> QED
  BY <1>1, <1>2, <1>3, <1>4 DEF ClientStep, RequestStep

\* A save that arrives is on top of a policy, and its rules are enabled or
\* disabled.
LEMMA ArrivalAsks ==
  ASSUME SaveInv, Calm, "save" \notin Operations, NEW d \in Clients, BeginStep(d)
  PROVE  \/ req'[d].op \in {"get", "load"}
         \/ /\ req'[d].op = "model" /\ req'[d].live \cap req'[d].off = {}
            /\ req'[d] \in [op : {"model"}, live : Texts, off : Texts, base : Texts,
                            force : BOOLEAN]
<1>1. TypeParted
  BY DEF SaveInv, EditInv
<1>2. CASE BeginRead(d)
  BY <1>1, <1>2 DEF BeginRead, Begin, NoRequest, TypeParted, RequestOK
<1>3. CASE BeginSave(d)
  BY <1>3 DEF BeginSave, Begin, NoRequest
<1>4. CASE BeginModel(d)
  <2>1. view[d].base \in Texts
    BY <1>4 DEF BeginModel, Calm
  <2>2. PICK live \in Texts, off \in Texts, force \in BOOLEAN :
          /\ live \cap off = {}
          /\ Begin(d, [op |-> "model", live |-> live, off |-> off,
                       base |-> view[d].base, force |-> force], "lock")
    BY <1>4 DEF BeginModel
  <2>3. req'[d] = [op |-> "model", live |-> live, off |-> off,
                   base |-> view[d].base, force |-> force]
    BY <1>1, <2>2 DEF Begin, TypeParted, RequestOK
  <2> QED
    BY <2>1, <2>2, <2>3
<1> QED
  BY <1>2, <1>3, <1>4 DEF BeginStep

\* The holder of modelMu is the only one who writes.
LEMMA NobodyOvertakes ==
  ASSUME SaveInv, Calm, NEW d \in Clients, ClientStep(d) PROVE foreign' = FALSE
<1>1. TypeParted /\ Owner(d) /\ RequestAt(d) /\ foreign = FALSE /\ req[d].op # "save"
  BY DEF SaveInv, EditInv, Calm
<1>2. ASSUME NEW a, Finish(d, a) \/ SaveReturns(d, a) PROVE foreign' = FALSE
  BY <1>1, <1>2 DEF Finish, SaveReturns
<1>3. ASSUME WrittenBy(d), pc[d] \in {"put", "write"} PROVE foreign' = FALSE
  <2>1. modelMu = d
    BY <1>1, <1>3 DEF Owner, RequestAt, SaveLabels
  <2> QED
    BY <1>1, <1>3, <2>1 DEF WrittenBy
<1>4. CASE BeginStep(d) \/ LockModel(d)
  BY <1>1, <1>4 DEF BeginStep, BeginRead, BeginSave, BeginModel, Begin, LockModel
<1>5. CASE GetStep(d)
  BY <1>1, <1>2, <1>5 DEF GetStep, Fetch, CompareLatest, SeeMode, Reply, LoadMetas, Snapshot,
                          LearnDatabase, SetMode, StoreMode, Step
<1>6. CASE Put(d)
  BY <1>1, <1>2, <1>3, <1>6 DEF Put, Step
<1>7. CASE Write(d)
  BY <1>1, <1>2, <1>3, <1>7 DEF Write
<1>8. CASE SaveStep(d) /\ ~Put(d) /\ ~Write(d)
  BY <1>1, <1>2, <1>8
  DEF SaveStep, Check, ReadMode, Verify, SignalHUP, RecordDatabase, RecordFile,
      SaveLearnsDatabase, SaveLearnsFile, SetMode, StoreMode, Step
<1>9. CASE Compare(d) \/ ReplaceRuleMeta(d)
  BY <1>1, <1>2, <1>9 DEF Compare, ReplaceRuleMeta, Step
<1> QED
  BY <1>4, <1>5, <1>6, <1>7, <1>8, <1>9 DEF ClientStep, RequestStep

\* Without faults and outside changes the world around only reloads.
LEMMA OnlyReload ==
  ASSUME SaveInv, Calm, MaxOutside = 0, MaxRestarts = 0, MaxSwitches = 0, Environment
  PROVE  Reload
<1>1. TypeParted /\ late = {}
  BY DEF SaveInv, EditInv, Calm
<1>2. ~OutsideEdit
  BY <1>1 DEF OutsideEdit, TypeParted, Budget
<1>3. ~ApplyLate
  BY <1>1 DEF ApplyLate
<1> QED
  BY <1>1, <1>2, <1>3, NoSwitch, NoRestart DEF Environment

LEMMA CalmStep ==
  ASSUME ~Faults, MaxOutside = 0, MaxRestarts = 0, MaxSwitches = 0, "save" \notin Operations,
         SaveInv, Calm, [Next]_vars
  PROVE  Calm'
<1>1. CASE Environment \/ UNCHANGED vars
  BY <1>1, OnlyReload DEF Reload, vars, clientVars, hsVars, Calm
<1>2. ASSUME NEW d \in Clients, ClientStep(d) PROVE Calm'
  <2>1. late' = {}
    BY <1>2, ClientLate DEF Calm
  <2>2. ASSUME NEW c \in Clients PROVE req'[c].op \in {"none", "get", "load", "model"}
    <3>1. CASE c # d
      BY <1>2, <3>1, ClientGood DEF SaveInv, ClientStep, Good, Elsewhere, Calm
    <3>2. CASE c = d /\ pc[d] = "idle"
      BY <1>2, <3>2, StepAt, ArrivalAsks
    <3>3. CASE c = d /\ pc[d] # "idle"
      <4>1. Moves(d)
        BY <1>2, ControlFlow DEF SaveInv, EditInv
      <4> QED
        BY <3>3, <4>1 DEF Moves, Calm, NoRequest
    <3> QED
      BY <3>1, <3>2, <3>3
  <2> QED
    BY <1>2, <2>1, <2>2, NobodyOvertakes, ViewStep DEF Calm
<1> QED
  BY <1>1, <1>2, NextSplit

\* The save a client waits for.
Asked(c) ==
  IF req[c].op # "model" \/ UnderWay(c) THEN Unset
  ELSE [live |-> req[c].live, off |-> req[c].off, base |-> req[c].base, force |-> req[c].force]

\* A step of d moves nothing but what d waits for.
LEMMA AwaitedStep ==
  ASSUME NEW d \in Clients, Elsewhere(d)
  PROVE  Awaited' = [Awaited EXCEPT ![d] = Asked(d)']
<1>1. \A c \in Clients : Awaited[c] = Asked(c) /\ Awaited'[c] = Asked(c)'
  BY DEF Awaited, Asked
<1>2. ASSUME NEW c \in Clients \ {d} PROVE Asked(c)' = Asked(c)
  BY <1>2 DEF Elsewhere, Asked, UnderWay
<1> QED
  BY <1>1, <1>2 DEF Awaited

LEMMA AwaitedSame ==
  ASSUME NEW d \in Clients, Elsewhere(d), Asked(d)' = Asked(d)
  PROVE  Awaited' = Awaited
<1>1. Awaited[d] = Asked(d)
  BY DEF Awaited, Asked
<1> QED
  BY <1>1, AwaitedStep DEF Awaited

\* The table counts, or the holder's rules on their way there.
LEMMA KeptAsideOfHolder ==
  ASSUME NEW d \in Clients, UnderWay(d) PROVE KeptAside = req[d].off
BY DEF KeptAside, OffUnderWay, UnderWay

LEMMA KeptAsideSame ==
  ASSUME NEW d \in Clients, Elsewhere(d), meta' = meta, UnderWay(d)' <=> UnderWay(d),
         UnderWay(d) => req'[d] = req[d]
  PROVE  KeptAside' = KeptAside
<1>1. \A c \in Clients : UnderWay(c)' <=> UnderWay(c)
  BY DEF Elsewhere, UnderWay
<1>2. \A c \in Clients : UnderWay(c) => req'[c] = req[c]
  BY DEF Elsewhere
<1>3. OffUnderWay' = OffUnderWay
  BY <1>1, <1>2 DEF OffUnderWay
<1> QED
  BY <1>1, <1>3 DEF KeptAside

\* Where a save takes effect its rules enabled and disabled replace the ones
\* before; where they are stored nothing is seen to change.
LEMMA KeptAsideTaken ==
  ASSUME NEW d \in Clients, UnderWay(d)', req'[d] = req[d] PROVE KeptAside' = req[d].off
BY DEF KeptAside, OffUnderWay, UnderWay

LEMMA KeptAsideStored ==
  ASSUME NEW d \in Clients, Elsewhere(d), Stores(d) PROVE KeptAside' = KeptAside
<1>1. KeptAside = req[d].off
  BY KeptAsideOfHolder DEF Stores
<1>2. \A c \in Clients : ~UnderWay(c)'
  BY DEF Stores, Elsewhere, UnderWay
<1> QED
  BY <1>1, <1>2 DEF KeptAside, Stores

Seen == <<Served, KeptAside, Awaited>>

LEMMA ClientRefines ==
  ASSUME SaveInv, SaveInv', Calm, "save" \notin Operations, NEW d \in Clients, ClientStep(d),
         Effect(d)
  PROVE  UNCHANGED Seen \/ Register!Next
<1>1. /\ Elsewhere(d) /\ TypeParted /\ Owner(d) /\ RequestAt(d) /\ RequestAt(d)'
      /\ foreign = FALSE /\ req[d].op # "save"
  BY ClientGood DEF SaveInv, EditInv, ClientStep, Good, Calm
<1>2. Awaited[d] = Asked(d) /\ Awaited' = [Awaited EXCEPT ![d] = Asked(d)']
  BY <1>1, AwaitedStep DEF Awaited, Asked
<1>3. req[d].op = "model" /\ ~UnderWay(d) => Asked(d) # Unset
  BY <1>1, UnsetAssumption DEF Asked, TypeParted, RequestOK, Requests
<1>4. CASE Arrives(d)
  <2>1. Served' = Served /\ KeptAside' = KeptAside /\ Asked(d) = Unset
    BY <1>1, <1>4, KeptAsideSame DEF Arrives, Asked
  <2>2. BeginStep(d)
    BY <1>1, <1>4, StepAt DEF Arrives, RequestAt
  <2>3. CASE req'[d].op # "model"
    BY <1>1, <2>1, <2>3, AwaitedSame DEF Asked, Seen
  <2>4. CASE req'[d].op = "model"
    <3>1. /\ Asked(d)' \in Register!Request(Texts)
          /\ Asked(d)'.live \cap Asked(d)'.off = {}
      BY <1>4, <2>2, <2>4, ArrivalAsks DEF Arrives, Asked, Register!Request, Texts
    <3>2. Register!Submit(d)
      BY <1>2, <2>1, <3>1 DEF Register!Submit, Texts
    <3> QED
      BY <3>2 DEF Register!Next
  <2> QED
    BY <2>3, <2>4
<1>5. CASE Goes(d)
  <2>1. KeptAside' = KeptAside
    BY <1>1, <1>5, KeptAsideSame DEF Goes
  <2> QED
    BY <1>1, <1>5, <2>1, AwaitedSame DEF Goes, Asked, Seen
<1>6. CASE TakesEffect(d)
  <2>1. KeptAside' = req[d].off
    BY <1>6, KeptAsideTaken DEF TakesEffect
  <2>2. /\ Awaited[d] = [live |-> req[d].live, off |-> req[d].off, base |-> req[d].base,
                         force |-> req[d].force]
        /\ Asked(d)' = Unset /\ Awaited[d] # Unset
    BY <1>2, <1>3, <1>6 DEF TakesEffect, Asked
  <2>3. Register!Apply(d)
    BY <1>1, <1>2, <1>6, <2>1, <2>2 DEF TakesEffect, Register!Apply
  <2> QED
    BY <2>3 DEF Register!Next
<1>7. CASE Stores(d)
  <2>1. KeptAside' = KeptAside
    BY <1>1, <1>7, KeptAsideStored
  <2>2. Asked(d)' = Asked(d)
    BY <1>7 DEF Stores, Asked, NoRequest
  <2> QED
    BY <1>1, <1>7, <2>1, <2>2, AwaitedSame DEF Stores, Seen
<1>8. CASE Ends(d)
  <2>1. KeptAside' = KeptAside /\ Served' = Served
    BY <1>1, <1>8, KeptAsideSame DEF Ends
  <2>2. Asked(d)' = Unset
    BY <1>8 DEF Ends, Asked, NoRequest
  <2>3. CASE req[d].op = "model"
    <3>1. Register!Refuse(d)
      BY <1>2, <1>3, <1>8, <2>1, <2>2, <2>3 DEF Ends, Register!Refuse
    <3> QED
      BY <3>1 DEF Register!Next
  <2>4. CASE req[d].op # "model"
    BY <1>1, <2>1, <2>2, <2>4, AwaitedSame DEF Asked, Seen
  <2> QED
    BY <2>3, <2>4
<1>9. ~WritesRaw(d)
  BY <1>1 DEF WritesRaw
<1> QED
  BY <1>4, <1>5, <1>6, <1>7, <1>8, <1>9 DEF Effect

LEMMA RegisterInit == Init => Register!Init
<1> SUFFICES ASSUME Init PROVE Register!Init
  OBVIOUS
<1>1. Served \in SUBSET Rules
  BY ConstantsAssumption DEF Init, Served, Texts
<1>2. \A c \in Clients : ~UnderWay(c) /\ req[c].op # "model"
  BY DEF Init, UnderWay, NoRequest
<1>3. KeptAside = {} /\ Awaited = [c \in Clients |-> Unset]
  BY <1>2 DEF Init, KeptAside, Awaited
<1> QED
  BY <1>1, <1>3 DEF Register!Init

\* A structured save is one step of a register that holds the policy and the
\* disabled rules, taken by one save at a time and only on the policy its user
\* loaded: the mode is learned, the PUT falls back to the file, history is
\* written and headscale reloads in between, and none of it shows.
THEOREM StructuredSavesRefineRegister ==
  ASSUME ~Faults, ~StoreFails, MaxOutside = 0, MaxRestarts = 0, MaxSwitches = 0,
         "save" \notin Operations, ModesFit
  PROVE  Spec => StructuredSavesAreAtomic
<1>1. SaveInv /\ SaveInv' /\ Calm /\ [Next]_vars => UNCHANGED Seen \/ Register!Next
  <2>1. ASSUME SaveInv, SaveInv', Calm, NEW d \in Clients, ClientStep(d)
        PROVE  UNCHANGED Seen \/ Register!Next
    BY <2>1, EveryStepHasEffect, ClientRefines
  <2>2. ASSUME SaveInv, Calm, Environment \/ UNCHANGED vars PROVE UNCHANGED Seen
    <3>1. UNCHANGED <<hsMode, dbPolicy, file, modelMu, meta, pc, req>>
      BY <2>2, OnlyReload DEF Reload, vars, hsVars, storeVars, clientVars
    <3>2. Served' = Served /\ OffUnderWay' = OffUnderWay
      BY <3>1 DEF Served, OffUnderWay, UnderWay
    <3>3. KeptAside' = KeptAside /\ Awaited' = Awaited
      BY <3>1, <3>2 DEF KeptAside, Awaited, UnderWay
    <3> QED
      BY <3>2, <3>3 DEF Seen
  <2> QED
    BY <2>1, <2>2, NextSplit
<1>2. SaveInv /\ SaveInv' /\ Calm /\ [Next]_vars => [Register!Next]_Register!vars
  BY <1>1 DEF Seen, Register!vars
<1>3. SaveInv /\ Calm /\ [Next]_vars => Calm'
  BY CalmStep
<1> QED
  BY <1>2, <1>3, CalmInit, RegisterInit, SaveInvariance, PTL
  DEF Spec, StructuredSavesAreAtomic, Register!Spec
=============================================================================
