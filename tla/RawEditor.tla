------------------------------ MODULE RawEditor ------------------------------
(***************************************************************************)
(* The raw policy editor in one browser tab (frontend/src/pages/AclPage):  *)
(* a text editor that follows the polled policy while it is pristine, and  *)
(* the save that checks the text first.                                    *)
(*                                                                         *)
(* A policy text is a value.  headscale accepts RawValid.                  *)
(***************************************************************************)
EXTENDS Naturals, Sequences

CONSTANTS
  RawTexts,     \* policy texts
  RawValid,     \* those that headscale accepts
  RawFirst,     \* the policy the server starts with
  RawFaults,    \* requests may fail
  RawMaxTyped,  \* bound: changes of the text in the editor
  RawMaxSaves,  \* bound: saves
  RawMaxOthers  \* bound: changes by others

ASSUME RawAssumption == RawValid \subseteq RawTexts /\ RawFirst \in RawValid

VARIABLES
  rawServed,  \* the policy headscale serves
  rawPolled,  \* the policy polled last, if any
  rawFlight,  \* the poll under way, if any, and what it has read
  rawDoc,     \* the editor's text
  rawDirty,   \* the text was changed since it was loaded or saved
  rawLoaded,  \* loadedHash: the policy the editor loaded last
  rawModal,   \* "Save policy" is open
  rawCall,    \* the check or save under way, if any
  rawUsed     \* how much of each bound is used

rawEditor == <<rawDoc, rawDirty, rawLoaded>>
rawVars == <<rawServed, rawPolled, rawFlight, rawEditor, rawModal, rawCall, rawUsed>>

RawBlank == "blank"
RawUse(bound, limit) == rawUsed[bound] < limit /\ rawUsed' = [rawUsed EXCEPT ![bound] = @ + 1]

RawInit ==
  /\ rawServed = RawFirst /\ rawPolled = <<>> /\ rawFlight = <<>>
  /\ rawDoc = RawBlank /\ rawDirty = FALSE /\ rawLoaded = <<>>
  /\ rawModal = FALSE /\ rawCall = <<>>
  /\ rawUsed = [typed |-> 0, saves |-> 0, others |-> 0]

\* Mutant of RawShow: the editor is pristine while it shows what it loaded.
RawShowIfUntouched(polled, dirty) ==
  LET pristine == ~dirty /\ (rawLoaded = <<>> \/ rawLoaded = <<rawDoc>>)
      loads == pristine /\ polled # <<>> /\ polled # rawLoaded
  IN  /\ rawDoc' = IF loads THEN polled[1] ELSE rawDoc
      /\ rawLoaded' = IF loads THEN polled ELSE rawLoaded
      /\ rawDirty' = dirty

\* The effect after a poll and after the flag was cleared.
RawShow(polled, dirty) ==
  LET loads == ~dirty /\ polled # <<>> /\ polled # <<rawDoc>> /\ polled # rawLoaded
  IN  /\ rawDoc' = IF loads THEN polled[1] ELSE rawDoc
      /\ rawLoaded' = IF loads THEN polled ELSE rawLoaded
      /\ rawDirty' = dirty

-----------------------------------------------------------------------------
RawStartPoll ==
  /\ rawFlight = <<>> /\ rawFlight' = <<<<>>>>
  /\ UNCHANGED <<rawServed, rawPolled, rawEditor, rawModal, rawCall, rawUsed>>

RawServePoll ==
  /\ rawFlight = <<<<>>>> /\ rawFlight' = <<<<rawServed>>>>
  /\ UNCHANGED <<rawServed, rawPolled, rawEditor, rawModal, rawCall, rawUsed>>

RawPollArrives ==
  /\ rawFlight # <<>> /\ rawFlight[1] # <<>>
  /\ rawPolled' = rawFlight[1] /\ rawFlight' = <<>>
  /\ RawShow(rawPolled', rawDirty)
  /\ UNCHANGED <<rawServed, rawModal, rawCall, rawUsed>>

RawPollFails ==
  /\ RawFaults /\ rawFlight # <<>> /\ rawFlight' = <<>>
  /\ UNCHANGED <<rawServed, rawPolled, rawEditor, rawModal, rawCall, rawUsed>>

\* Typing, a snippet; the modal covers the editor.
RawType ==
  /\ ~rawModal /\ RawUse("typed", RawMaxTyped)
  /\ rawDoc' \in RawTexts \ {rawDoc} /\ rawDirty' = TRUE
  /\ UNCHANGED <<rawServed, rawPolled, rawFlight, rawLoaded, rawModal, rawCall>>

\* "load" fetches the version first: it may land while the modal is open.
RawVersionArrives ==
  /\ RawUse("typed", RawMaxTyped)
  /\ rawDoc' \in RawTexts /\ rawDirty' = TRUE
  /\ UNCHANGED <<rawServed, rawPolled, rawFlight, rawLoaded, rawModal, rawCall>>

RawOpenSave ==
  /\ rawDirty /\ ~rawModal /\ rawModal' = TRUE
  /\ UNCHANGED <<rawServed, rawPolled, rawFlight, rawEditor, rawCall, rawUsed>>

RawCloseSave ==
  /\ rawModal /\ rawModal' = FALSE
  /\ UNCHANGED <<rawServed, rawPolled, rawFlight, rawEditor, rawCall, rawUsed>>

\* "Check & save": the check sends the text ...
RawConfirm ==
  /\ rawModal /\ rawCall = <<>> /\ RawUse("saves", RawMaxSaves)
  /\ rawCall' = <<[step |-> "check", text |-> rawDoc]>>
  /\ UNCHANGED <<rawServed, rawPolled, rawFlight, rawEditor, rawModal>>

\* ... and when it was accepted the save sends what the editor holds then.
RawChecked ==
  /\ rawCall # <<>> /\ rawCall[1].step = "check"
  /\ \/ /\ rawCall[1].text \in RawValid
        /\ rawCall' = <<[step |-> "save", text |-> rawDoc]>>
        /\ UNCHANGED rawModal
     \/ /\ rawCall[1].text \notin RawValid \/ RawFaults
        /\ rawCall' = <<>> /\ rawModal' = FALSE
  /\ UNCHANGED <<rawServed, rawPolled, rawFlight, rawEditor, rawUsed>>

\* Save checks again; its answer may get lost.
RawPut ==
  /\ rawCall # <<>> /\ rawCall[1].step = "save"
  /\ \/ /\ rawCall[1].text \in RawValid /\ rawServed' = rawCall[1].text
        /\ \E answer \in {"saved"} \cup (IF RawFaults THEN {"failed"} ELSE {}) :
             rawCall' = <<[rawCall[1] EXCEPT !.step = answer]>>
     \/ /\ rawCall[1].text \notin RawValid \/ RawFaults
        /\ rawCall' = <<[rawCall[1] EXCEPT !.step = "failed"]>>
        /\ UNCHANGED rawServed
  /\ UNCHANGED <<rawPolled, rawFlight, rawEditor, rawModal, rawUsed>>

\* The answer cancels the poll under way and starts a new one.
RawSaved ==
  /\ rawCall # <<>> /\ rawCall[1].step = "saved"
  /\ rawCall' = <<>> /\ rawModal' = FALSE /\ rawFlight' = <<<<>>>>
  /\ RawShow(rawPolled, FALSE)
  /\ UNCHANGED <<rawServed, rawPolled, rawUsed>>

RawSaveFailed ==
  /\ rawCall # <<>> /\ rawCall[1].step = "failed"
  /\ rawCall' = <<>> /\ rawFlight' = <<<<>>>>
  /\ UNCHANGED <<rawServed, rawPolled, rawEditor, rawModal, rawUsed>>

\* The structured editor, another administrator, the headscale CLI.
RawOtherSave ==
  /\ RawUse("others", RawMaxOthers)
  /\ rawServed' \in RawValid \ {rawServed}
  /\ UNCHANGED <<rawPolled, rawFlight, rawEditor, rawModal, rawCall>>

RawNext ==
  \/ RawStartPoll \/ RawServePoll \/ RawPollArrives \/ RawPollFails
  \/ RawType \/ RawVersionArrives \/ RawOpenSave \/ RawCloseSave
  \/ RawConfirm \/ RawChecked \/ RawPut \/ RawSaved \/ RawSaveFailed \/ RawOtherSave

RawSpec == RawInit /\ [][RawNext]_rawVars

\* Polling goes on while the page is open, and not every poll fails.
RawFairness ==
  /\ WF_rawVars(RawStartPoll) /\ SF_rawVars(RawServePoll) /\ SF_rawVars(RawPollArrives)
  /\ WF_rawVars(RawChecked) /\ WF_rawVars(RawPut) /\ WF_rawVars(RawSaved \/ RawSaveFailed)

RawFairSpec == RawSpec /\ RawFairness

-----------------------------------------------------------------------------
\* The pristine editor ends up showing the served policy, in whatever order
\* polls, saves, their answers and the saves of others come; except when the
\* server is back at the text the editor loaded before its own last save,
\* which it takes for seen.
RawEditorFollows == []<>(rawDirty \/ rawDoc = rawServed \/ rawLoaded = <<rawServed>>)
=============================================================================
