---------------------------- MODULE DraftEditor -----------------------------
(***************************************************************************)
(* The structured policy editor in one browser tab                         *)
(* (frontend/src/pages/acls/AclsBetaPage.tsx with RulesTab, DefinitionsTabs*)
(* and PolicySections): a draft that follows the polled model while it has *)
(* no changes, dialogs that keep what they showed when they were opened,   *)
(* a save with an expected hash, and the dialog after a 409.               *)
(*                                                                         *)
(* The server is reduced to the text and the rule table that SaveModel     *)
(* compares and replaces (module PolicyManager has its steps).  One        *)
(* dialog is open at a time: dialogs cover the page.                       *)
(***************************************************************************)
EXTENDS DraftModel

CONSTANTS
  FirstText,    \* the policy the server starts with
  OtherTexts,   \* policies that others bring the server to
  Bodies,       \* inputs: contents of rules and elements
  Members,      \* inputs: members and owners, per section
  EditFaults,   \* saves and writes of the rule table may fail
  MaxEdits,     \* bound: edits
  MaxOpened,    \* bound: opened dialogs
  MaxSends,     \* bound: saves
  MaxOthers     \* bound: changes by others

\* What headscale's syntax guarantees of a policy: sections hold names of their
\* kind, and users and groups own tags; prefixes tell the kinds apart.
WellKeyed(keyed) ==
  /\ DOMAIN keyed = Sections
  /\ \A s \in Sections : DOMAIN keyed[s] \subseteq Names[s]
  /\ \A t \in DOMAIN keyed["tagOwners"] : keyed["tagOwners"][t] \subseteq Users \cup Groups

ASSUME EditorAssumption ==
  /\ (Users \cup Groups) \cap (Tags \cup Hosts) = {}
  /\ \A t \in {FirstText} \cup OtherTexts :
       WellKeyed(t.keyed) /\ t.rules \in Seq(Element) /\ t.extras \in Seq(Element)
  /\ Bodies \subseteq Element

VARIABLES
  text, metas,  \* the server: the served policy and acl_rule_meta
  cache,        \* the model polled last, if any
  flight,       \* the fetch under way, if any, and what it has read
  draft,
  dialog,       \* the open editor or confirmation, if any
  saveOpen,     \* "Review & save" is open
  saving,       \* the save under way, if any
  conflict,     \* the model a 409 brought, while its dialog is open
  written,      \* history: the rules of the last save, if the server has them
  used          \* how much of each bound is used

server == <<text, metas, written>>
page == <<draft, dialog, saveOpen, conflict>>
editorVars == <<server, cache, flight, page, saving, used>>

Model == ModelState(text, metas)
Use(bound, limit) == used[bound] < limit /\ used' = [used EXCEPT ![bound] = @ + 1]

\* The numbers that an open dialog refers to.
Held == IF dialog # <<>> /\ dialog[1].key[1] \in {"new", "extra"} THEN {dialog[1].key[2]} ELSE {}

ShowFirst(d, c) == IF c # <<>> /\ d.base = <<>> THEN DraftFromModel(c[1], Held) ELSE d

\* The effect after every render: a draft without changes follows the model.
Show(d, c) ==
  IF c # <<>> /\ ~Dirty(d) /\ (d.base = <<>> \/ d.base[1].hash # c[1].hash)
  THEN DraftFromModel(c[1], Held) ELSE d

EditorInit ==
  /\ text = FirstText /\ metas = <<>> /\ written = <<>>
  /\ cache = <<>> /\ flight = <<>>
  /\ draft = EmptyDraft /\ dialog = <<>> /\ saveOpen = FALSE
  /\ saving = <<>> /\ conflict = <<>>
  /\ used = [edits |-> 0, opened |-> 0, sends |-> 0, others |-> 0]

-----------------------------------------------------------------------------
(* Fetching the model.  "saved" marks the refetch after a save.            *)

StartFetch ==
  /\ flight = <<>>
  /\ flight' = <<[saved |-> FALSE, read |-> <<>>]>>
  /\ UNCHANGED <<server, cache, page, saving, used>>

ServeFetch ==
  /\ flight # <<>> /\ flight[1].read = <<>>
  /\ flight' = <<[flight[1] EXCEPT !.read = <<Model>>]>>
  /\ UNCHANGED <<server, cache, page, saving, used>>

FetchArrives ==
  /\ flight # <<>> /\ flight[1].read # <<>>
  /\ cache' = flight[1].read /\ flight' = <<>>
  /\ draft' = Show(IF flight[1].saved THEN DraftFromModel(cache'[1], Held) ELSE draft, cache')
  /\ UNCHANGED <<server, dialog, saveOpen, conflict, saving, used>>

\* The refetch after a save then resolves with the data of an earlier fetch.
FetchFails ==
  /\ flight # <<>>
  /\ flight' = <<>>
  /\ draft' = IF flight[1].saved THEN DraftFromModel(cache[1], Held) ELSE draft
  /\ UNCHANGED <<server, cache, dialog, saveOpen, conflict, saving, used>>

-----------------------------------------------------------------------------
(* Editing.                                                                *)

Uncovered == cache # <<>> /\ conflict = <<>> /\ ~saveOpen
PageFree == Uncovered /\ dialog = <<>>

\* Unknown groups and hosts block a form; unknown tags and users do not.
Accepted(S) == S \cap Groups \subseteq DOMAIN draft.keyed["groups"]
               /\ S \cap Hosts \subseteq DOMAIN draft.keyed["hosts"]

Change(d) ==
  /\ Use("edits", MaxEdits)
  /\ draft' = Show(d, cache) /\ dialog' = <<>>
  /\ UNCHANGED <<server, cache, flight, saveOpen, conflict, saving>>

\* A dialog starts from the entry as it was when it was opened.
Open(kind, s, key, uses, label, enabled) ==
  /\ PageFree /\ Use("opened", MaxOpened)
  /\ dialog' = <<[kind |-> kind, section |-> s, key |-> key, uses |-> uses, label |-> label, enabled |-> enabled]>>
  /\ UNCHANGED <<server, cache, flight, draft, saveOpen, conflict, saving>>

OpenDelete(kind, s, key) == Open(kind, s, key, {}, NoLabel, TRUE)

InDialog(kind) == Uncovered /\ dialog # <<>> /\ dialog[1].kind = kind

CloseDialog ==
  /\ dialog # <<>> /\ dialog' = <<>>
  /\ UNCHANGED <<server, cache, flight, draft, saveOpen, conflict, saving, used>>

-----------------------------------------------------------------------------
(* The rules.  Entries the server does not have go without confirmation.   *)

ClickAddRule ==
  /\ PageFree
  /\ \E body \in Bodies, label \in Labels \cup {NoLabel} :
       Accepted(body) /\ Change(AddRule(draft, [uses |-> body, label |-> label, enabled |-> TRUE], Held))

ClickToggle == PageFree /\ \E i \in DOMAIN draft.rules : Change(ToggleRule(draft, draft.rules[i].key))

ClickDuplicate ==
  /\ PageFree
  /\ \E i \in DOMAIN draft.rules, copied \in Labels :
       Change(DuplicateRule(draft, draft.rules[i].key, copied, Held))

ClickDeleteRule ==
  \E i \in DOMAIN draft.rules :
    LET r == draft.rules[i]
    IN  \/ PageFree /\ r.serverId = {} /\ Change(DeleteRule(draft, r.key))
        \/ r.serverId # {} /\ OpenDelete("deleteRule", "", r.key)

ClickEditRule ==
  \E i \in DOMAIN draft.rules :
    LET r == draft.rules[i] IN Open("rule", "", r.key, r.uses, r.label, r.enabled)

SubmitRule ==
  /\ InDialog("rule")
  /\ LET was == [uses |-> dialog[1].uses, label |-> dialog[1].label, enabled |-> dialog[1].enabled]
     IN  \E r \in {[was EXCEPT !.uses = body] : body \in Bodies}
                  \cup {[was EXCEPT !.label = label] : label \in Labels \cup {NoLabel}}
                  \cup {[was EXCEPT !.enabled = ~@]} :
           Accepted(r.uses) /\ Change(UpdateRule(draft, dialog[1].key, r))

ConfirmDeleteRule == InDialog("deleteRule") /\ Change(DeleteRule(draft, dialog[1].key))

RulesTab ==
  \/ ClickAddRule \/ ClickToggle \/ ClickDuplicate \/ ClickDeleteRule
  \/ ClickEditRule \/ SubmitRule \/ ConfirmDeleteRule

-----------------------------------------------------------------------------
(* The elements of a list section.                                         *)

ClickAddExtra ==
  PageFree /\ \E body \in Bodies : Accepted(body) /\ Change(AddExtra(draft, body, Held))

ClickDeleteExtra ==
  \E i \in DOMAIN draft.extras :
    LET it == draft.extras[i]
    IN  \/ PageFree /\ it.origin = 0 /\ Change(DeleteExtra(draft, it.key))
        \/ it.origin # 0 /\ OpenDelete("deleteExtra", "", <<"extra", it.key>>)

ClickEditExtra ==
  \E i \in DOMAIN draft.extras :
    LET it == draft.extras[i] IN Open("extra", "", <<"extra", it.key>>, it.value, NoLabel, TRUE)

SubmitExtra ==
  /\ InDialog("extra")
  /\ \E body \in Bodies : Accepted(body) /\ Change(SetExtra(draft, dialog[1].key[2], body))

ConfirmDeleteExtra == InDialog("deleteExtra") /\ Change(DeleteExtra(draft, dialog[1].key[2]))

ListSection == ClickAddExtra \/ ClickDeleteExtra \/ ClickEditExtra \/ SubmitExtra \/ ConfirmDeleteExtra

-----------------------------------------------------------------------------
(* Named entries: a new name must be free.                                 *)

\* What an entry may list: users are the members of groups and, standing for
\* addresses, of hosts; approvers of a route may not be empty.
MayHold(s, m) ==
  /\ m \subseteq (CASE s \in {"groups", "hosts"} -> Users
                    [] s = "tagOwners" -> Users \cup Groups
                    [] s = "routes" -> Users \cup Groups \cup Tags)
  /\ s = "routes" => m # {}
  /\ Accepted(m)

ClickAddEntry(s) ==
  /\ PageFree
  /\ \E name \in Names[s] \ DOMAIN draft.keyed[s], m \in Members[s] :
       MayHold(s, m) /\ Change(SetEntry(draft, s, name, m))

ClickEditEntry(s) ==
  \E name \in DOMAIN draft.keyed[s] : Open("entry", s, <<"name", name>>, draft.keyed[s][name], NoLabel, TRUE)

ClickDeleteEntry(s) ==
  \E name \in DOMAIN draft.keyed[s] : OpenDelete("deleteEntry", s, <<"name", name>>)

InEntry(kind, s) == InDialog(kind) /\ dialog[1].section = s

\* The names and members that the dialog of an entry may be submitted with.
Submittable(s) ==
  {e \in ({dialog[1].key[2]} \cup (Names[s] \ DOMAIN draft.keyed[s])) \X ({dialog[1].uses} \cup Members[s]) :
     MayHold(s, e[2])}

\* Renaming and setting are dispatched together.
SubmitNamed(s) ==
  /\ InEntry("entry", s)
  /\ \E e \in Submittable(s) : Change(SetEntry(RenameKey(draft, s, dialog[1].key[2], e[1]), s, e[1], e[2]))

ConfirmDeleteEntry(s) == InEntry("deleteEntry", s) /\ Change(DeleteKey(draft, s, dialog[1].key[2]))

EntryTab(s) ==
  ClickAddEntry(s) \/ ClickEditEntry(s) \/ ClickDeleteEntry(s) \/ SubmitNamed(s) \/ ConfirmDeleteEntry(s)

GroupsTab    == EntryTab("groups")
TagOwnersTab == EntryTab("tagOwners")
HostsTab     == EntryTab("hosts")

ClickDeleteRoute ==
  PageFree /\ \E p \in DOMAIN draft.keyed["routes"] : Change(DeleteKey(draft, "routes", p))

SubmitRoute ==
  /\ InEntry("entry", "routes")
  /\ \E e \in Submittable("routes") : Change(SetRoute(draft, dialog[1].key[2], e[1], e[2]))

EditExitNode ==
  PageFree /\ \E m \in Members["routes"] : Accepted(m) /\ Change([draft EXCEPT !.exitNode = m])

AutoApprovers ==
  ClickAddEntry("routes") \/ ClickEditEntry("routes") \/ ClickDeleteRoute \/ SubmitRoute \/ EditExitNode

ClickRandomize == PageFree /\ Change([draft EXCEPT !.randomize = ~@])

PolicySections == ListSection \/ AutoApprovers \/ ClickRandomize

-----------------------------------------------------------------------------
(* Discarding, saving and the 409.                                         *)

Discard ==
  /\ PageFree /\ Dirty(draft)
  /\ draft' = DraftFromModel(cache[1], Held)
  /\ UNCHANGED <<server, cache, flight, dialog, saveOpen, conflict, saving, used>>

OpenSave ==
  /\ PageFree /\ Dirty(draft) /\ saveOpen' = TRUE
  /\ UNCHANGED <<server, cache, flight, draft, dialog, conflict, saving, used>>

CloseSave ==
  /\ saveOpen /\ conflict = <<>> /\ saveOpen' = FALSE
  /\ UNCHANGED <<server, cache, flight, draft, dialog, conflict, saving, used>>

DoSaveOnLatest ==
  /\ saveOpen /\ conflict = <<>> /\ saving = <<>>
  /\ Use("sends", MaxSends)
  /\ saving' = <<[body |-> [ToSaveBody(draft) EXCEPT !.base = cache[1].hash], rules |-> draft.rules,
                  summary |-> DiffDraft(draft.base[1], draft), answer |-> "none", current |-> <<>>]>>
  /\ UNCHANGED <<server, cache, flight, page>>

\* The button is disabled while a save is pending.
DoSave ==
  /\ saveOpen /\ conflict = <<>> /\ saving = <<>>
  /\ Use("sends", MaxSends)
  /\ saving' = <<[body |-> ToSaveBody(draft), rules |-> draft.rules,
                  summary |-> DiffDraft(draft.base[1], draft), answer |-> "none", current |-> <<>>]>>
  /\ UNCHANGED <<server, cache, flight, page>>

Answer(a, current) == saving' = <<[saving[1] EXCEPT !.answer = a, !.current = current]>>

\* SaveModel: a failed table write is a warning, and the answer may get lost.
ServeSave ==
  /\ saving # <<>> /\ saving[1].answer = "none"
  /\ \/ /\ text # saving[1].body.base
        /\ Answer("conflict", <<Model>>)
        /\ UNCHANGED server
     \/ /\ text = saving[1].body.base
        /\ text' = saving[1].body.text
        /\ metas' \in {saving[1].body.metas} \cup (IF EditFaults THEN {metas} ELSE {})
        /\ \E a \in {"ok"} \cup (IF EditFaults THEN {"error"} ELSE {}) : Answer(a, <<>>)
        /\ written' = IF metas' = saving[1].body.metas THEN <<saving[1].rules>> ELSE <<>>
     \/ /\ text = saving[1].body.base /\ EditFaults
        /\ Answer("error", <<>>)
        /\ UNCHANGED server
  /\ UNCHANGED <<cache, flight, page, used>>

\* The answer invalidates the model: a fetch under way is cancelled (one that
\* followed an earlier save then resolves with the old data) and a new one
\* starts.
SaveAnswered ==
  /\ saving # <<>> /\ saving[1].answer # "none"
  /\ saving' = <<>>
  /\ flight' = <<[saved |-> saving[1].answer = "ok", read |-> <<>>]>>
  /\ conflict' = saving[1].current
  /\ saveOpen' = (saveOpen /\ saving[1].answer = "error")
  /\ draft' = IF flight # <<>> /\ flight[1].saved THEN DraftFromModel(cache[1], Held) ELSE draft
  /\ UNCHANGED <<server, cache, dialog, used>>

ReloadAfterConflict ==
  /\ conflict # <<>> /\ conflict' = <<>>
  /\ draft' = Show(DraftFromModel(conflict[1], Held), cache)
  /\ UNCHANGED <<server, cache, flight, dialog, saveOpen, saving, used>>

Rebased == RebaseDraft(draft, conflict[1], DiffDraft(draft.base[1], draft), Held)

RebaseAfterConflict ==
  /\ conflict # <<>> /\ conflict' = <<>>
  /\ draft' = Show(Rebased, cache)
  /\ saveOpen' = TRUE
  /\ UNCHANGED <<server, cache, flight, dialog, saving, used>>

\* Another administrator, the raw editor or the headscale CLI.
OtherSave ==
  /\ Use("others", MaxOthers)
  /\ text' \in OtherTexts \ {text}
  /\ written' = <<>>
  /\ UNCHANGED <<metas, cache, flight, page, saving>>

EditorNext ==
  \/ StartFetch \/ ServeFetch \/ FetchArrives \/ FetchFails
  \/ RulesTab \/ PolicySections \/ GroupsTab \/ TagOwnersTab \/ HostsTab
  \/ CloseDialog \/ Discard \/ OpenSave \/ CloseSave \/ DoSave \/ ServeSave \/ SaveAnswered
  \/ ReloadAfterConflict \/ RebaseAfterConflict \/ OtherSave

\* Polling goes on while the page is open, not every fetch fails, and saves
\* are answered.
EditorFairness ==
  /\ WF_editorVars(StartFetch) /\ SF_editorVars(ServeFetch) /\ SF_editorVars(FetchArrives)
  /\ WF_editorVars(ServeSave) /\ WF_editorVars(SaveAnswered)

EditorSpec == EditorInit /\ [][EditorNext]_editorVars
EditorFairSpec == EditorSpec /\ EditorFairness
=============================================================================
