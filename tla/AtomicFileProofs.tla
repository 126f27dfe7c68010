-------------------------- MODULE AtomicFileProofs --------------------------
(***************************************************************************)
(* Proofs about AtomicFile, for any writers, documents and bounds: the     *)
(* policy file is always whole, a save that returns no error leaves no     *)
(* temporary file, and writes are atomic for whoever reads the file.       *)
(***************************************************************************)
EXTENDS AtomicFile, TLAPS

Document == Texts \cup {Nothing}

\* What a writer's temporary file holds at each step.  The file is synced when
\* it is renamed, and this is why the target never depends on the page cache.
TempFollowsStep(w) ==
  /\ pc[w] = "sync" => tmp[w].content = text[w]
  /\ pc[w] = "rename" => tmp[w] = File(text[w], TRUE)
  /\ pc[w] \in {"idle", "truncateBak", "writeBak", "create"} => tmp[w].content = Nothing
  /\ pc[w] = "remove" /\ tmp[w].content # Nothing => failed[w]

\* A call under way has a number of its own, and none of its files is left yet.
OwnCall(w) ==
  pc[w] # "idle" =>
    /\ call[w] \notin orphans
    /\ \A v \in Writers : v # w /\ pc[v] # "idle" => call[v] # call[w]

CallsAreCounted ==
  /\ \A w \in Writers : call[w] <= writes
  /\ \A n \in orphans : n <= writes

\* The inductive invariant.
FileInv ==
  /\ TypeOK
  /\ target.content \in Document /\ target.synced = TRUE
  /\ earlier \subseteq Document
  /\ CallsAreCounted
  /\ \A w \in Writers : TempFollowsStep(w) /\ OwnCall(w)

----------------------------------------------------------------------------
(* The helpers keep types.                                                 *)

Files == [content : Contents, synced : BOOLEAN]

LEMMA FileType ==
  ASSUME NEW c \in Contents, NEW s \in BOOLEAN
  PROVE  File(c, s) \in Files /\ File(c, s).content = c /\ File(c, s).synced = s
BY DEF Files, File

LEMMA FieldTypes ==
  ASSUME NEW f \in Files PROVE f.content \in Contents /\ f.synced \in BOOLEAN
BY DEF Files

LEMMA SpecialContents ==
  /\ Nothing \in Contents /\ Empty \in Contents /\ Torn \in Contents
  /\ Texts \subseteq Contents
BY DEF Contents

LEMMA NoFileType == NoFile \in Files
BY FileType, SpecialContents DEF NoFile

LEMMA GotoType ==
  ASSUME pc \in [Writers -> Labels], NEW w \in Writers, NEW l \in Labels, Goto(w, l)
  PROVE  pc' \in [Writers -> Labels]
BY DEF Goto

LEMMA ErrorType ==
  ASSUME pc \in [Writers -> Labels], failed \in [Writers -> BOOLEAN],
         NEW w \in Writers, NEW l \in Labels, Error(w, l)
  PROVE  pc' \in [Writers -> Labels] /\ failed' \in [Writers -> BOOLEAN]
BY GotoType DEF Error

LEMMA SetTmpType ==
  ASSUME tmp \in [Writers -> Files], NEW w \in Writers,
         NEW c \in Contents, NEW s \in BOOLEAN, SetTmp(w, c, s)
  PROVE  tmp' \in [Writers -> Files]
<1>1. File(c, s) \in Files
  BY FileType
<1> QED
  BY <1>1 DEF SetTmp

LEMMA LabelsAre ==
  /\ "idle" \in Labels /\ "truncateBak" \in Labels /\ "writeBak" \in Labels
  /\ "create" \in Labels /\ "write" \in Labels /\ "sync" \in Labels
  /\ "rename" \in Labels /\ "remove" \in Labels
BY DEF Labels

LEMMA TypeOKStep == TypeOK /\ [Next]_vars => TypeOK'
<1> SUFFICES ASSUME TypeOK, [Next]_vars PROVE TypeOK'
  OBVIOUS
<1> USE DEF TypeOK, diskVars, callVars
<1> USE LabelsAre, SpecialContents
<1>1. ASSUME NEW w \in Writers, Start(w) PROVE TypeOK'
  <2>1. target.content \in Contents
    BY FieldTypes DEF Files
  <2>2. pc' \in [Writers -> Labels]
    BY <1>1, GotoType DEF Start
  <2>3. text' \in [Writers -> Texts] /\ prev' \in [Writers -> Contents \ {Nothing}]
    BY <1>1, <2>1 DEF Start
  <2>4. writes' \in Nat /\ call' \in [Writers -> Nat] /\ failed' \in [Writers -> BOOLEAN]
    BY <1>1 DEF Start
  <2> QED
    BY <1>1, <2>2, <2>3, <2>4 DEF Start
<1>2. ASSUME NEW w \in Writers, TruncateBak(w) PROVE TypeOK'
  <2>1. pc' \in [Writers -> Labels]
    BY <1>2, GotoType DEF TruncateBak
  <2>2. bak' \in Files
    BY <1>2, FileType DEF TruncateBak, Files
  <2> QED
    BY <1>2, <2>1, <2>2 DEF TruncateBak, Files
<1>3. ASSUME NEW w \in Writers, WriteBak(w) PROVE TypeOK'
  <2>1. pc' \in [Writers -> Labels]
    BY <1>3, GotoType DEF WriteBak
  <2>2. bak' \in Files
    BY <1>3, FileType DEF WriteBak
  <2> QED
    BY <1>3, <2>1, <2>2 DEF WriteBak, Files
<1>4. ASSUME NEW w \in Writers, CreateTemp(w) PROVE TypeOK'
  <2>1. pc' \in [Writers -> Labels] /\ failed' \in [Writers -> BOOLEAN]
    BY <1>4, GotoType, ErrorType DEF CreateTemp
  <2>2. tmp' \in [Writers -> Files]
    BY <1>4, SetTmpType DEF CreateTemp, Files
  <2> QED
    BY <1>4, <2>1, <2>2 DEF CreateTemp, Files
<1>5. ASSUME NEW w \in Writers, WriteTemp(w) PROVE TypeOK'
  <2>1. pc' \in [Writers -> Labels] /\ failed' \in [Writers -> BOOLEAN]
    BY <1>5, GotoType, ErrorType DEF WriteTemp
  <2>2. tmp' \in [Writers -> Files]
    BY <1>5, SetTmpType DEF WriteTemp, Files
  <2> QED
    BY <1>5, <2>1, <2>2 DEF WriteTemp, Files
<1>6. ASSUME NEW w \in Writers, Sync(w) PROVE TypeOK'
  <2>1. pc' \in [Writers -> Labels] /\ failed' \in [Writers -> BOOLEAN]
    BY <1>6, GotoType, ErrorType DEF Sync
  <2>2. tmp' \in [Writers -> Files]
    <3>1. [tmp[w] EXCEPT !.synced = TRUE] \in Files
      BY DEF Files
    <3> QED
      BY <1>6, <3>1 DEF Sync, Files
  <2> QED
    BY <1>6, <2>1, <2>2 DEF Sync, Files
<1>7. ASSUME NEW w \in Writers, Rename(w) PROVE TypeOK'
  <2>1. pc' \in [Writers -> Labels] /\ failed' \in [Writers -> BOOLEAN]
    BY <1>7, GotoType, ErrorType DEF Rename
  <2>2. tmp' \in [Writers -> Files]
    BY <1>7, SetTmpType DEF Rename, Files
  <2>3. target' \in Files
    <3>1. tmp[w] \in Files
      BY DEF Files
    <3> QED
      BY <1>7, <3>1 DEF Rename, Files
  <2>4. earlier' \subseteq Contents
    <3>1. target.content \in Contents
      BY FieldTypes DEF Files
    <3> QED
      BY <1>7, <3>1 DEF Rename
  <2> QED
    BY <1>7, <2>1, <2>2, <2>3, <2>4 DEF Rename, Files
<1>8. ASSUME NEW w \in Writers, Remove(w) PROVE TypeOK'
  <2>1. pc' \in [Writers -> Labels]
    BY <1>8, GotoType DEF Remove
  <2>2. tmp' \in [Writers -> Files]
    BY <1>8, SetTmpType DEF Remove, Files
  <2>3. orphans' \subseteq Nat
    <3>1. call[w] \in Nat /\ orphans' \subseteq orphans \cup {call[w]}
      BY <1>8 DEF Remove
    <3> QED
      BY <3>1
  <2> QED
    BY <1>8, <2>1, <2>2, <2>3 DEF Remove, Files
<1>9. CASE WriteBack
  <2>1. target' \in Files /\ bak' \in Files
    BY <1>9 DEF WriteBack, Files
  <2> QED
    BY <1>9, <2>1 DEF WriteBack, Files
<1>10. ASSUME Die PROVE /\ pc' \in [Writers -> Labels]
                        /\ tmp' \in [Writers -> Files]
                        /\ orphans' \subseteq Nat
                        /\ kills' \in Nat
                        /\ UNCHANGED <<prev, failed, callVars>>
  <2>1. tmp' \in [Writers -> Files]
    BY <1>10, NoFileType DEF Die
  <2>2. kills' \in Nat /\ pc' \in [Writers -> Labels] /\ UNCHANGED <<prev, failed, callVars>>
    BY <1>10 DEF Die
  <2>3. orphans' \subseteq Nat
    <3>1. \A w \in Writers : call[w] \in Nat
      OBVIOUS
    <3>2. \A n \in orphans' : n \in orphans \/ \E w \in Writers : n = call[w]
      BY <1>10 DEF Die
    <3> QED
      BY <3>1, <3>2
  <2> QED
    BY <2>1, <2>2, <2>3
<1>11. CASE Kill
  BY <1>10, <1>11 DEF Kill, Files
<1>12. CASE PowerFailure
  <2>1. \A f \in Files : Survivor(f) \subseteq Files
    BY FileType DEF Survivor
  <2>2. target' \in Files /\ bak' \in Files
    BY <1>12, <2>1, FileType DEF PowerFailure, Files
  <2> QED
    BY <1>10, <1>12, <2>2 DEF PowerFailure, Files
<1>13. CASE UNCHANGED vars
  BY <1>13 DEF vars
<1> QED
  BY <1>1, <1>2, <1>3, <1>4, <1>5, <1>6, <1>7, <1>8, <1>9, <1>11, <1>12, <1>13
  DEF Next, WriterStep

----------------------------------------------------------------------------
(* The inductive invariant.                                                *)

LEMMA FileInvInit == Init => FileInv
<1> SUFFICES ASSUME Init PROVE FileInv
  OBVIOUS
<1>1. target \in Files /\ target.content \in Document /\ target.synced = TRUE
  BY FileType, SpecialContents DEF Init, Document
<1>2. NoFile.content = Nothing
  BY FileType, SpecialContents DEF NoFile
<1>3. bak \in Files /\ tmp \in [Writers -> Files]
  BY NoFileType DEF Init
<1>4. TypeOK
  <2>1. Texts \subseteq Contents \ {Nothing}
    BY AtomicFileAssumption, SpecialContents DEF Contents
  <2>2. prev \in [Writers -> Contents \ {Nothing}]
    BY <2>1 DEF Init
  <2>3. pc \in [Writers -> Labels]
    BY LabelsAre DEF Init
  <2> QED
    BY <1>1, <1>3, <2>2, <2>3 DEF Init, TypeOK, Files
<1>5. \A w \in Writers : TempFollowsStep(w)
  BY <1>2 DEF Init, TempFollowsStep
<1>6. CallsAreCounted /\ \A w \in Writers : OwnCall(w)
  BY DEF Init, CallsAreCounted, OwnCall
<1> QED
  BY <1>1, <1>4, <1>5, <1>6 DEF FileInv, Init

\* A step of one writer says nothing about the files of the others.
LEMMA OthersFollow ==
  ASSUME TypeOK, NEW w \in Writers, NEW v \in Writers, v # w, TempFollowsStep(v),
         pc'[v] = pc[v], tmp'[v] = tmp[v], text'[v] = text[v], failed'[v] = failed[v]
  PROVE  TempFollowsStep(v)'
BY DEF TempFollowsStep

\* The calls under way stay apart from each other and from what is left behind.
LEMMA CallsStep ==
  ASSUME TypeOK, CallsAreCounted, \A w \in Writers : OwnCall(w), [Next]_vars
  PROVE  CallsAreCounted' /\ \A w \in Writers : OwnCall(w)'
<1> USE DEF TypeOK, CallsAreCounted, OwnCall, callVars
<1>1. ASSUME NEW w \in Writers, Start(w)
      PROVE  CallsAreCounted' /\ \A v \in Writers : OwnCall(v)'
  <2>1. /\ writes' = writes + 1 /\ call' = [call EXCEPT ![w] = writes + 1] /\ orphans' = orphans
        /\ \A v \in Writers : v # w => pc'[v] = pc[v]
    BY <1>1 DEF Start, Goto, diskVars
  <2>2. \A v \in Writers : v # w => call'[v] = call[v] /\ call[v] < call'[w]
    BY <2>1
  <2>3. call'[w] = writes + 1 /\ \A n \in orphans : n < call'[w]
    BY <2>1
  <2>4. CallsAreCounted'
    <3>1. \A v \in Writers : call'[v] <= writes'
      BY <2>1, <2>2, <2>3
    <3>2. \A n \in orphans' : n <= writes'
      BY <2>1
    <3> QED
      BY <3>1, <3>2
  <2>5. OwnCall(w)'
    BY <2>1, <2>2, <2>3
  <2>6. ASSUME NEW v \in Writers, v # w PROVE OwnCall(v)'
    BY <2>1, <2>2, <2>6
  <2> QED
    BY <2>4, <2>5, <2>6
<1>2. ASSUME NEW w \in Writers,
             \/ TruncateBak(w) \/ WriteBak(w) \/ CreateTemp(w)
             \/ WriteTemp(w) \/ Sync(w) \/ Rename(w)
      PROVE  CallsAreCounted' /\ \A v \in Writers : OwnCall(v)'
  <2>1. UNCHANGED <<orphans, call, writes>> /\ pc[w] # "idle"
        /\ \A v \in Writers : v # w => pc'[v] = pc[v]
    BY <1>2 DEF TruncateBak, WriteBak, CreateTemp, WriteTemp, Sync, Rename, Goto, Error
  <2> QED
    BY <2>1
<1>3. ASSUME NEW w \in Writers, Remove(w)
      PROVE  CallsAreCounted' /\ \A v \in Writers : OwnCall(v)'
  <2>1. /\ UNCHANGED <<call, writes>> /\ pc[w] # "idle" /\ pc'[w] = "idle"
        /\ orphans' \subseteq orphans \cup {call[w]}
        /\ \A v \in Writers : v # w => pc'[v] = pc[v]
    BY <1>3 DEF Remove, Goto
  <2>2. CallsAreCounted'
    BY <2>1
  <2>3. ASSUME NEW v \in Writers, v # w PROVE OwnCall(v)'
    BY <2>1, <2>3
  <2> QED
    BY <2>1, <2>2, <2>3
<1>4. ASSUME Die PROVE CallsAreCounted' /\ \A v \in Writers : OwnCall(v)'
  <2>1. \A v \in Writers : pc'[v] = "idle"
    BY <1>4 DEF Die
  <2>2. UNCHANGED <<call, writes>> /\ \A n \in orphans' : n <= writes
    BY <1>4 DEF Die
  <2> QED
    BY <2>1, <2>2
<1>5. ASSUME WriteBack \/ UNCHANGED vars
      PROVE  CallsAreCounted' /\ \A v \in Writers : OwnCall(v)'
  <2>1. UNCHANGED <<orphans, call, writes, pc>>
    BY <1>5 DEF WriteBack, vars, diskVars
  <2> QED
    BY <2>1
<1> QED
  BY <1>1, <1>2, <1>3, <1>4, <1>5 DEF Next, WriterStep, Kill, PowerFailure

LEMMA FileInvStep == FileInv /\ [Next]_vars => FileInv'
<1> SUFFICES ASSUME FileInv, [Next]_vars PROVE FileInv'
  OBVIOUS
<1> DEFINE TargetOK == /\ target.content \in Document /\ target.synced = TRUE
                       /\ earlier \subseteq Document
           TempsOK  == \A v \in Writers : TempFollowsStep(v)
<1> USE DEF FileInv
<1>1. TypeOK' /\ CallsAreCounted' /\ \A w \in Writers : OwnCall(w)'
  BY TypeOKStep, CallsStep
<1>2. \A c \in Contents, b \in BOOLEAN : File(c, b).content = c
  BY FileType
<1> USE <1>2, SpecialContents
<1> USE DEF callVars, Error
<1>3. ASSUME NEW w \in Writers, Start(w) PROVE TargetOK' /\ TempsOK'
  <2>1. TempFollowsStep(w)'
    BY <1>3 DEF TypeOK, Start, Goto, TempFollowsStep, diskVars
  <2> QED
    BY <1>3, <2>1, OthersFollow DEF TypeOK, Start, Goto, diskVars
<1>4. ASSUME NEW w \in Writers, TruncateBak(w) PROVE TargetOK' /\ TempsOK'
  <2>1. TempFollowsStep(w)'
    BY <1>4 DEF TypeOK, TruncateBak, Goto, TempFollowsStep
  <2> QED
    BY <1>4, <2>1, OthersFollow DEF TypeOK, TruncateBak, Goto
<1>5. ASSUME NEW w \in Writers, WriteBak(w) PROVE TargetOK' /\ TempsOK'
  <2>1. TempFollowsStep(w)'
    BY <1>5 DEF TypeOK, WriteBak, Goto, TempFollowsStep
  <2> QED
    BY <1>5, <2>1, OthersFollow DEF TypeOK, WriteBak, Goto
<1>6. ASSUME NEW w \in Writers, CreateTemp(w) PROVE TargetOK' /\ TempsOK'
  <2>1. TempFollowsStep(w)'
    BY <1>6 DEF TypeOK, CreateTemp, Goto, SetTmp, TempFollowsStep
  <2> QED
    BY <1>6, <2>1, OthersFollow DEF TypeOK, CreateTemp, Goto, SetTmp
<1>7. ASSUME NEW w \in Writers, WriteTemp(w) PROVE TargetOK' /\ TempsOK'
  <2>1. TempFollowsStep(w)'
    BY <1>7 DEF TypeOK, WriteTemp, Goto, SetTmp, TempFollowsStep
  <2> QED
    BY <1>7, <2>1, OthersFollow DEF TypeOK, WriteTemp, Goto, SetTmp
<1>8. ASSUME NEW w \in Writers, Sync(w) PROVE TargetOK' /\ TempsOK'
  <2>1. ASSUME pc'[w] = "rename" PROVE TempFollowsStep(w)'
    <3>1. tmp'[w] = [tmp[w] EXCEPT !.synced = TRUE] /\ tmp[w].content = text[w]
      BY <1>8, <2>1 DEF TypeOK, Sync, Goto, TempFollowsStep
    <3>2. tmp'[w] = File(text[w], TRUE)
      BY <3>1 DEF TypeOK, File
    <3> QED
      BY <1>8, <2>1, <3>2 DEF TypeOK, Sync, TempFollowsStep
  <2>2. ASSUME pc'[w] = "remove" PROVE TempFollowsStep(w)'
    <3>1. failed'[w] = TRUE
      BY <1>8, <2>2 DEF TypeOK, Sync, Goto
    <3> QED
      BY <2>2, <3>1 DEF TempFollowsStep
  <2>3. pc'[w] \in {"rename", "remove"}
    BY <1>8 DEF TypeOK, Sync, Goto
  <2>4. TempFollowsStep(w)'
    BY <2>1, <2>2, <2>3
  <2> QED
    BY <1>8, <2>4, OthersFollow DEF TypeOK, Sync, Goto
<1>9. ASSUME NEW w \in Writers, Rename(w) PROVE TargetOK' /\ TempsOK'
  <2>1. tmp[w] = File(text[w], TRUE) /\ text[w] \in Texts
    BY <1>9 DEF TypeOK, Rename, TempFollowsStep
  <2>2. tmp[w].content \in Document /\ tmp[w].synced = TRUE
    BY <2>1, FileType DEF Document
  <2>3. TargetOK'
    BY <1>9, <2>2 DEF Rename
  <2>4. TempFollowsStep(w)'
    <3>1. pc'[w] = "remove"
      BY <1>9 DEF TypeOK, Rename, Goto
    <3>2. tmp'[w].content = Nothing \/ failed'[w] = TRUE
      <4>1. CASE SetTmp(w, Nothing, TRUE)
        <5>1. tmp'[w] = File(Nothing, TRUE)
          BY <4>1 DEF TypeOK, SetTmp
        <5> QED
          BY <5>1
      <4>2. CASE failed' = [failed EXCEPT ![w] = TRUE]
        BY <4>2 DEF TypeOK
      <4> QED
        BY <1>9, <4>1, <4>2 DEF Rename
    <3> QED
      BY <3>1, <3>2 DEF TempFollowsStep
  <2> QED
    BY <1>9, <2>3, <2>4, OthersFollow DEF TypeOK, Rename, Goto, SetTmp
<1>10. ASSUME NEW w \in Writers, Remove(w) PROVE TargetOK' /\ TempsOK'
  <2>1. TempFollowsStep(w)'
    BY <1>10 DEF TypeOK, Remove, Goto, SetTmp, TempFollowsStep
  <2> QED
    BY <1>10, <2>1, OthersFollow DEF TypeOK, Remove, Goto, SetTmp
<1>11. ASSUME WriteBack PROVE TargetOK' /\ TempsOK'
  BY <1>11 DEF TypeOK, WriteBack, TempFollowsStep
<1>12. ASSUME Die PROVE TempsOK'
  BY <1>12 DEF Die, NoFile, TempFollowsStep
<1>13. ASSUME Kill PROVE TargetOK' /\ TempsOK'
  BY <1>12, <1>13 DEF Kill
<1>14. ASSUME PowerFailure PROVE TargetOK' /\ TempsOK'
  <2>1. Survivor(target) = {target}
    BY DEF Survivor
  <2>2. \A content \in earlier : File(content, TRUE).content \in Document
                                 /\ File(content, TRUE).synced = TRUE
    BY FileType DEF TypeOK
  <2>3. TargetOK'
    BY <1>14, <2>1, <2>2 DEF PowerFailure
  <2> QED
    BY <1>12, <1>14, <2>3 DEF PowerFailure
<1>15. ASSUME UNCHANGED vars PROVE TargetOK' /\ TempsOK'
  BY <1>15 DEF vars, diskVars, TempFollowsStep
<1> QED
  BY <1>1, <1>3, <1>4, <1>5, <1>6, <1>7, <1>8, <1>9, <1>10, <1>11, <1>13, <1>14, <1>15
  DEF Next, WriterStep

LEMMA FileInvariance == Spec => []FileInv
BY FileInvInit, FileInvStep, PTL DEF Spec

----------------------------------------------------------------------------
(* What follows.                                                           *)

\* The contents of files, the steps of writers and the bounds keep their
\* types: a file holds a document, nothing, or what a crash leaves of one.
THEOREM FilesKeepTypes == Spec => []TypeOK
<1>1. FileInv => TypeOK
  BY DEF FileInv
<1> QED
  BY <1>1, FileInvariance, PTL

\* The policy file is a whole document at every moment, after every kill and
\* every power failure: of all the files, only synced ones are ever renamed.
THEOREM PolicyFileIsWhole == Spec => []TargetIsWhole
<1>1. FileInv => TargetIsWhole
  BY DEF FileInv, TargetIsWhole, Document
<1> QED
  BY <1>1, FileInvariance, PTL

\* Of the calls that return, only those that return an error leave their
\* temporary file, whatever fails.
LEMMA ReturnsAreClean ==
  ASSUME FileInv, [Next]_vars, NEW w \in Writers, pc[w] # "idle", pc'[w] = "idle", kills' = kills
  PROVE  tmp'[w].content = Nothing /\ (call[w] \in orphans' => failed'[w])
<1> USE DEF FileInv
<1>1. call[w] \notin orphans
  BY DEF OwnCall
<1>2. ASSUME NEW v \in Writers, v # w, WriterStep(v) PROVE FALSE
  <2>1. pc'[w] = pc[w]
    BY <1>2 DEF TypeOK, WriterStep, Start, TruncateBak, WriteBak, CreateTemp, WriteTemp, Sync,
                Rename, Remove, Goto, Error
  <2> QED
    BY <2>1
<1>3. ASSUME Start(w) \/ TruncateBak(w) \/ WriteBak(w) \/ WriteTemp(w) \/ Sync(w) \/ Rename(w)
      PROVE  FALSE
  BY <1>3 DEF TypeOK, Start, TruncateBak, WriteBak, WriteTemp, Sync, Rename, Goto, Error
<1>4. CASE CreateTemp(w)
  <2>1. pc[w] = "create" /\ UNCHANGED <<tmp, orphans>>
    BY <1>4 DEF TypeOK, CreateTemp, Goto
  <2> QED
    BY <1>1, <2>1 DEF TempFollowsStep
<1>5. CASE Remove(w)
  <2>1. tmp'[w] = File(Nothing, TRUE) /\ UNCHANGED failed /\ pc[w] = "remove"
    BY <1>5 DEF TypeOK, Remove, SetTmp
  <2>2. call[w] \in orphans' => tmp[w].content # Nothing
    BY <1>1, <1>5 DEF Remove
  <2> QED
    BY <2>1, <2>2, FileType, SpecialContents DEF TempFollowsStep
<1>6. ASSUME Kill \/ PowerFailure PROVE FALSE
  <2>1. kills \in Nat /\ kills' = kills + 1
    BY <1>6 DEF Kill, PowerFailure, Die, TypeOK
  <2> QED
    BY <2>1
<1>7. ASSUME WriteBack \/ UNCHANGED vars PROVE FALSE
  BY <1>7 DEF WriteBack, vars
<1> QED
  BY <1>2, <1>3, <1>4, <1>5, <1>6, <1>7 DEF Next, WriterStep

\* A save that was told to be done leaves no temporary file, on any path of
\* writeFileAtomic, and one that failed leaves its own only if os.Remove failed
\* as well.
THEOREM SavedLeavesNoTemp == Spec => LeftoversAreReported
<1>1. FileInv /\ [Next]_vars
      => [\A w \in Writers :
            pc[w] # "idle" /\ pc'[w] = "idle" /\ kills' = kills =>
              /\ tmp'[w].content = Nothing
              /\ call[w] \in orphans' => failed'[w]]_vars
  BY ReturnsAreClean
<1> QED
  BY <1>1, FileInvariance, PTL DEF Spec, LeftoversAreReported

----------------------------------------------------------------------------
(* Refinement.                                                             *)

Saving == {"truncateBak", "writeBak", "create", "write", "sync", "rename"}
Wanted == [w \in Writers |-> IF pc[w] \in Saving THEN text[w] ELSE Nothing]

\* How the mapped variable moves: with the step of one writer, or not at all.
LEMMA WantedStays ==
  ASSUME TypeOK, NEW w \in Writers, NEW l \in Labels, Goto(w, l), UNCHANGED text,
         pc[w] \in Saving <=> l \in Saving
  PROVE  UNCHANGED Wanted
BY DEF TypeOK, Goto, Wanted

LEMMA WantedEnds ==
  ASSUME TypeOK, NEW w \in Writers, NEW l \in Labels \ Saving, Goto(w, l),
         UNCHANGED text, pc[w] \in Saving
  PROVE  /\ Wanted[w] = text[w]
         /\ Wanted' = [Wanted EXCEPT ![w] = Nothing]
BY DEF TypeOK, Goto, Wanted

LEMMA RefinementInit == Init => Register!Init
<1> SUFFICES ASSUME Init PROVE Register!Init
  OBVIOUS
<1>1. target.content \in Texts \cup {Nothing}
  BY FileType, SpecialContents DEF Init
<1>2. Wanted = [w \in Writers |-> Nothing]
  BY DEF Init, Wanted, Saving
<1> QED
  BY <1>1, <1>2 DEF Init, Register!Init, Wanted, Saving

LEMMA RefinementStep == FileInv /\ [Next]_vars => [Register!Next]_(Register!vars)
<1> SUFFICES ASSUME FileInv, [Next]_vars
             PROVE  [Register!Next]_(Register!vars)
  OBVIOUS
<1> DEFINE Same == UNCHANGED <<target.content, earlier, Wanted, failed>>
<1>a. Same => UNCHANGED Register!vars
  BY DEF Register!vars, Wanted, Saving
<1> HIDE DEF Same
<1> USE DEF FileInv, callVars
<1> USE LabelsAre
<1>1. ASSUME NEW w \in Writers, Start(w) PROVE Register!Start(w)
  <2>1. Wanted[w] = Nothing /\ text'[w] \in Texts
    BY <1>1 DEF Start, TypeOK, Wanted, Saving
  <2>2. Wanted' = [Wanted EXCEPT ![w] = text'[w]]
    BY <1>1 DEF Start, TypeOK, Goto, Wanted, Saving
  <2>3. UNCHANGED <<target.content, earlier>> /\ failed' = [failed EXCEPT ![w] = FALSE]
    BY <1>1 DEF Start, diskVars
  <2> QED
    BY <2>1, <2>2, <2>3 DEF Register!Start, Wanted, Saving
<1>2. ASSUME NEW w \in Writers,
             TruncateBak(w) \/ WriteBak(w)
      PROVE  Same
  <2>1. PICK l \in {"writeBak", "create"} : Goto(w, l)
    BY <1>2 DEF TruncateBak, WriteBak
  <2>2. UNCHANGED <<target, earlier, text, failed>> /\ pc[w] \in Saving
    BY <1>2 DEF TruncateBak, WriteBak, Saving
  <2>3. UNCHANGED Wanted
    BY <2>1, <2>2, WantedStays DEF Saving
  <2> QED
    BY <2>2, <2>3 DEF Same
<1>3. ASSUME NEW w \in Writers, CreateTemp(w) \/ WriteTemp(w) \/ Sync(w)
      PROVE  Same \/ Register!Abort(w)
  <2>1. \/ \E l \in Saving : Goto(w, l) /\ UNCHANGED failed
        \/ \E l \in {"remove", "idle"} : Error(w, l)
    BY <1>3 DEF CreateTemp, WriteTemp, Sync, Saving
  <2>2. UNCHANGED <<target, earlier, text>> /\ pc[w] \in Saving
    BY <1>3 DEF CreateTemp, WriteTemp, Sync, Saving
  <2>3. ASSUME NEW l \in Saving, Goto(w, l), UNCHANGED failed PROVE Same
    <3>1. UNCHANGED Wanted
      BY <2>2, <2>3, WantedStays DEF Saving
    <3> QED
      BY <2>2, <2>3, <3>1 DEF Same
  <2>4. ASSUME NEW l \in {"remove", "idle"}, Error(w, l) PROVE Register!Abort(w)
    <3>1. Goto(w, l) /\ failed' = [failed EXCEPT ![w] = TRUE]
      BY <2>4 DEF Error
    <3>2. l \in Labels \ Saving
      BY DEF Saving
    <3>3. Wanted[w] # Nothing /\ Wanted' = [Wanted EXCEPT ![w] = Nothing]
      BY <2>2, <3>1, <3>2, WantedEnds, AtomicFileAssumption DEF TypeOK
    <3> QED
      BY <2>2, <3>1, <3>3 DEF Register!Abort, Wanted, Saving
  <2> QED
    BY <2>1, <2>3, <2>4
<1>4. ASSUME NEW w \in Writers, Rename(w)
      PROVE  Register!Commit(w) \/ Register!Abort(w)
  <2>1. Goto(w, "remove") /\ UNCHANGED text /\ pc[w] \in Saving
    BY <1>4 DEF Rename, Error, Saving
  <2>2. Wanted[w] = text[w] /\ Wanted' = [Wanted EXCEPT ![w] = Nothing]
    BY <2>1, WantedEnds DEF Saving
  <2>3. text[w] # Nothing
    BY AtomicFileAssumption DEF TypeOK
  <2>4. tmp[w].content = text[w]
    BY <1>4, FileType, SpecialContents DEF TypeOK, Rename, TempFollowsStep
  <2>5. \/ target'.content = text[w] /\ earlier' = earlier \cup {target.content} /\ UNCHANGED failed
        \/ UNCHANGED <<target, earlier>> /\ failed' = [failed EXCEPT ![w] = TRUE]
    BY <1>4, <2>4 DEF Rename, Error
  <2> QED
    BY <2>2, <2>3, <2>5 DEF Register!Commit, Register!Abort, Wanted, Saving
<1>5. ASSUME NEW w \in Writers, Remove(w) PROVE Same
  <2>1. UNCHANGED Wanted
    BY <1>5, WantedStays DEF Remove, Saving
  <2> QED
    BY <1>5, <2>1 DEF Remove, Same
<1>6. ASSUME WriteBack PROVE Register!Settle
  <2>1. target'.content = target.content
    BY <1>6 DEF WriteBack, TypeOK
  <2>2. UNCHANGED Wanted
    BY <1>6 DEF WriteBack, Wanted
  <2>3. UNCHANGED failed
    BY <1>6 DEF WriteBack
  <2> QED
    BY <1>6, <2>1, <2>2, <2>3 DEF WriteBack, Register!Settle, Wanted, Saving
<1>7. ASSUME Die PROVE Wanted' = [w \in Writers |-> Nothing] /\ UNCHANGED failed
  BY <1>7 DEF Die, Wanted, Saving
<1>8. ASSUME Kill PROVE Register!Kill
  BY <1>7, <1>8 DEF Kill, Register!Kill, Wanted, Saving
<1>9. ASSUME PowerFailure PROVE Register!PowerFailure
  <2>1. Survivor(target) = {target}
    BY DEF Survivor
  <2>2. \A content \in earlier : File(content, TRUE).content = content
    BY FileType DEF TypeOK
  <2>3. target'.content \in {target.content} \cup earlier /\ earlier' = {}
    BY <1>9, <2>1, <2>2 DEF PowerFailure
  <2> QED
    BY <1>7, <1>9, <2>3 DEF PowerFailure, Register!PowerFailure, Wanted, Saving
<1>10. ASSUME UNCHANGED vars PROVE Same
  BY <1>10 DEF vars, diskVars, Same, Wanted
<1> QED
  BY <1>a, <1>1, <1>2, <1>3, <1>4, <1>5, <1>6, <1>8, <1>9, <1>10
  DEF Next, WriterStep, Register!Next

\* writeFileAtomic implements a file that is replaced as a whole: the Write
\* step of PolicyManager, and what headscale reads, hide nothing of it.
THEOREM WriteIsAtomic == Spec => WritesAreAtomic
BY RefinementInit, RefinementStep, FileInvariance, PTL
DEF Spec, WritesAreAtomic, Register!Spec
=============================================================================
