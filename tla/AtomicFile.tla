----------------------------- MODULE AtomicFile -----------------------------
(***************************************************************************)
(* Manager.writeFileAtomic (internal/policy/policy.go): the policy file is *)
(* replaced by a temporary file that was written, synced and closed, after *)
(* the previous content went to a .bak file.  Raw saves take no lock, so   *)
(* any number of writers may be in it at once.                             *)
(*                                                                         *)
(* A file is its content and whether that content is on disk.  os.CreateTemp *)
(* picks a random name that is not in use; a name is never used twice here,*)
(* so a temporary file is known by the call that made it, and by its       *)
(* writer while that call runs.                                            *)
(***************************************************************************)
EXTENDS Naturals

CONSTANTS
  Writers,   \* requests that may be saving at the same time
  Texts,     \* policy documents
  Nothing,   \* no such file
  Empty,     \* a file that was created or truncated and not written yet
  Torn,      \* part of a document, or a mixture of two
  IOFails,   \* file operations may fail
  MaxWrites, \* bound: calls of writeFileAtomic
  MaxKills   \* bound: kills of Head-Control, and power failures

ASSUME AtomicFileAssumption ==
  /\ \A x \in {Nothing, Empty, Torn} : x \notin Texts
  /\ Nothing # Empty /\ Nothing # Torn /\ Empty # Torn
  /\ IOFails \in BOOLEAN
  /\ MaxWrites \in Nat /\ MaxKills \in Nat

VARIABLES
  target,   \* the file at m.filePath
  earlier,  \* contents of target whose replacement is not on disk yet
  bak,      \* the file beside it
  tmp,      \* the temporary file of each writer
  orphans,  \* calls whose temporary file is left for good
  pc, text, prev,  \* each writer's next step, document and copy of the old one
  call, failed,    \* which call it is in, or was last, and whether that returns an error
  writes, kills    \* how much of each bound is used

diskVars == <<target, earlier, bak, tmp, orphans>>
callVars == <<text, call, writes>>
vars == <<diskVars, pc, prev, failed, callVars, kills>>

Contents == Texts \cup {Nothing, Empty, Torn}
File(content, synced) == [content |-> content, synced |-> synced]
NoFile == File(Nothing, TRUE)

Goto(w, label) == pc' = [pc EXCEPT ![w] = label]
Error(w, label) == Goto(w, label) /\ failed' = [failed EXCEPT ![w] = TRUE]
SetTmp(w, content, synced) == tmp' = [tmp EXCEPT ![w] = File(content, synced)]

----------------------------------------------------------------------------

\* Mutant of Start: the error of reading the previous content is not looked at.
StartUnchecked(w) ==
  /\ pc[w] = "idle"
  /\ writes < MaxWrites
  /\ writes' = writes + 1
  /\ call' = [call EXCEPT ![w] = writes']
  /\ failed' = [failed EXCEPT ![w] = FALSE]
  /\ \E t \in Texts : text' = [text EXCEPT ![w] = t]
  /\ prev' = [prev EXCEPT ![w] = target.content]
  /\ Goto(w, "truncateBak")
  /\ UNCHANGED <<diskVars, kills>>

\* A save calls writeFileAtomic, which starts by reading the previous content.
Start(w) ==
  /\ pc[w] = "idle"
  /\ writes < MaxWrites
  /\ writes' = writes + 1
  /\ call' = [call EXCEPT ![w] = writes']
  /\ failed' = [failed EXCEPT ![w] = FALSE]
  /\ \E t \in Texts : text' = [text EXCEPT ![w] = t]
  /\ \/ /\ target.content # Nothing
        /\ prev' = [prev EXCEPT ![w] = target.content]
        /\ Goto(w, "truncateBak")
     \/ /\ target.content = Nothing \/ IOFails
        /\ UNCHANGED prev
        /\ Goto(w, "create")
  /\ UNCHANGED <<diskVars, kills>>

\* os.WriteFile of the backup; it is not synced, and its failure is a warning.
TruncateBak(w) ==
  /\ pc[w] = "truncateBak"
  /\ \/ bak' = File(Empty, FALSE) /\ Goto(w, "writeBak")
     \/ IOFails /\ UNCHANGED bak /\ Goto(w, "create")
  /\ UNCHANGED <<target, earlier, tmp, orphans, prev, failed, callVars, kills>>

WriteBak(w) ==
  /\ pc[w] = "writeBak"
  /\ \/ bak' = File(prev[w], FALSE)
     \/ /\ IOFails \/ bak.content \notin {Empty, prev[w]}  \* two writers at once
        /\ bak' = File(Torn, FALSE)
  /\ Goto(w, "create")
  /\ UNCHANGED <<target, earlier, tmp, orphans, prev, failed, callVars, kills>>

CreateTemp(w) ==
  /\ pc[w] = "create"
  /\ \/ SetTmp(w, Empty, FALSE) /\ Goto(w, "write") /\ UNCHANGED failed
     \/ IOFails /\ UNCHANGED tmp /\ Error(w, "idle")
  /\ UNCHANGED <<target, earlier, bak, orphans, prev, callVars, kills>>

\* Mutant of WriteTemp: a short write is not noticed.
WriteTempUnchecked(w) ==
  /\ pc[w] = "write"
  /\ \/ SetTmp(w, text[w], FALSE)
     \/ IOFails /\ SetTmp(w, Torn, FALSE)
  /\ Goto(w, "sync")
  /\ UNCHANGED <<target, earlier, bak, orphans, prev, failed, callVars, kills>>

WriteTemp(w) ==
  /\ pc[w] = "write"
  /\ \/ SetTmp(w, text[w], FALSE) /\ Goto(w, "sync") /\ UNCHANGED failed
     \/ IOFails /\ SetTmp(w, Torn, FALSE) /\ Error(w, "remove")
  /\ UNCHANGED <<target, earlier, bak, orphans, prev, callVars, kills>>

\* Mutant of Sync: the temporary file is not synced.
SyncNothing(w) ==
  /\ pc[w] = "sync"
  /\ Goto(w, "rename")
  /\ UNCHANGED <<diskVars, prev, failed, callVars, kills>>

\* Sync, then Close and Chmod, which change nothing a reader sees.
Sync(w) ==
  /\ pc[w] = "sync"
  /\ \/ tmp' = [tmp EXCEPT ![w].synced = TRUE] /\ Goto(w, "rename") /\ UNCHANGED failed
     \/ IOFails /\ UNCHANGED tmp /\ Error(w, "remove")
  /\ UNCHANGED <<target, earlier, bak, orphans, prev, callVars, kills>>

\* Mutant of Rename: its failure returns before the temporary file is removed.
RenameOrLeave(w) ==
  /\ pc[w] = "rename"
  /\ \/ /\ target' = tmp[w]
        /\ earlier' = earlier \cup {target.content}
        /\ SetTmp(w, Nothing, TRUE) /\ Goto(w, "remove") /\ UNCHANGED failed
     \/ IOFails /\ UNCHANGED <<target, earlier, tmp>> /\ Error(w, "idle")
  /\ UNCHANGED <<bak, orphans, prev, callVars, kills>>

\* The directory entry is replaced at once; it reaches the disk later.
Rename(w) ==
  /\ pc[w] = "rename"
  /\ \/ /\ target' = tmp[w]
        /\ earlier' = earlier \cup {target.content}
        /\ SetTmp(w, Nothing, TRUE) /\ Goto(w, "remove") /\ UNCHANGED failed
     \/ IOFails /\ UNCHANGED <<target, earlier, tmp>> /\ Error(w, "remove")
  /\ UNCHANGED <<bak, orphans, prev, callVars, kills>>

\* The deferred os.Remove, which finds nothing after a successful rename.  Its
\* error is ignored: a file it could not remove stays.
Remove(w) ==
  /\ pc[w] = "remove"
  /\ SetTmp(w, Nothing, TRUE)
  /\ \/ UNCHANGED orphans
     \/ IOFails /\ tmp[w].content # Nothing /\ orphans' = orphans \cup {call[w]}
  /\ Goto(w, "idle")
  /\ UNCHANGED <<target, earlier, bak, prev, failed, callVars, kills>>

----------------------------------------------------------------------------

\* The kernel gets round to writing what nobody synced.
WriteBack ==
  /\ earlier' = {}
  /\ target' = [target EXCEPT !.synced = TRUE]
  /\ bak' = [bak EXCEPT !.synced = TRUE]
  /\ UNCHANGED <<tmp, orphans, pc, prev, failed, callVars, kills>>

Die ==
  /\ kills < MaxKills
  /\ kills' = kills + 1
  /\ pc' = [w \in Writers |-> "idle"]
  /\ orphans' = orphans \cup {call[w] : w \in {v \in Writers : tmp[v].content # Nothing}}
  /\ tmp' = [w \in Writers |-> NoFile]
  /\ UNCHANGED <<prev, failed, callVars>>

\* Head-Control is killed; the files stay as they are.
Kill == Die /\ UNCHANGED <<target, earlier, bak>>

\* What was not synced may be lost.
Survivor(file) ==
  {file} \cup (IF file.synced THEN {} ELSE {File(Torn, TRUE)})

PowerFailure ==
  /\ Die
  /\ earlier' = {}
  /\ \/ target' \in Survivor(target)
     \/ \E content \in earlier : target' = File(content, TRUE)
  /\ bak' \in Survivor(bak)

----------------------------------------------------------------------------

Init ==
  /\ target \in {File(content, TRUE) : content \in Texts \cup {Nothing}}
  /\ earlier = {}
  /\ bak = NoFile
  /\ tmp = [w \in Writers |-> NoFile]
  /\ orphans = {}
  /\ pc = [w \in Writers |-> "idle"]
  /\ text \in [Writers -> Texts]
  /\ prev = text
  /\ call = [w \in Writers |-> 0]
  /\ failed = [w \in Writers |-> FALSE]
  /\ writes = 0
  /\ kills = 0

WriterStep(w) ==
  \/ Start(w) \/ TruncateBak(w) \/ WriteBak(w) \/ CreateTemp(w)
  \/ WriteTemp(w) \/ Sync(w) \/ Rename(w) \/ Remove(w)

Next ==
  \/ \E w \in Writers : WriterStep(w)
  \/ WriteBack \/ Kill \/ PowerFailure

Spec == Init /\ [][Next]_vars

----------------------------------------------------------------------------
(* Properties.                                                             *)

Labels == {"idle", "truncateBak", "writeBak", "create", "write", "sync",
           "rename", "remove"}

\* Files hold documents or parts of documents, and only a file that was there
\* is copied.
TypeOK ==
  /\ target \in [content : Contents, synced : BOOLEAN]
  /\ earlier \subseteq Contents
  /\ bak \in [content : Contents, synced : BOOLEAN]
  /\ tmp \in [Writers -> [content : Contents, synced : BOOLEAN]]
  /\ orphans \subseteq Nat
  /\ pc \in [Writers -> Labels]
  /\ text \in [Writers -> Texts]
  /\ prev \in [Writers -> Contents \ {Nothing}]
  /\ call \in [Writers -> Nat]
  /\ failed \in [Writers -> BOOLEAN]
  /\ writes \in Nat /\ kills \in Nat

\* "Writes the policy file via tmp + fsync + rename" (policy.go:236): whoever
\* reads the policy file, at any moment and after any crash or power failure,
\* finds a whole document that somebody saved.
TargetIsWhole == target.content \in Texts \cup {Nothing}

\* No path of writeFileAtomic returns with its temporary file forgotten, and a
\* file that outlives its call, because it could not be removed, is that of a
\* call that returned an error: a save that was told to be done never leaves one
\* in the directory headscale mounts, whatever fails.
LeftoversAreReported ==
  [][\A w \in Writers :
       pc[w] # "idle" /\ pc'[w] = "idle" /\ kills' = kills =>
         /\ tmp'[w].content = Nothing
         /\ call[w] \in orphans' => failed'[w]]_vars

\* Seen by its readers the file is replaced as a whole or not at all, by one
\* save after another, and a call returns an error exactly if it was not
\* replaced; this is the Write step of PolicyManager.
Register == INSTANCE FileRegister WITH
  content <- target.content,
  wanted  <- [w \in Writers |->
                IF pc[w] \in {"truncateBak", "writeBak", "create", "write",
                              "sync", "rename"}
                THEN text[w] ELSE Nothing]

WritesAreAtomic == Register!Spec
=============================================================================
