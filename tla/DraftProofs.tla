----------------------------- MODULE DraftProofs ------------------------------
(***************************************************************************)
(* The structured editor, for any policies and any number of edits.  The   *)
(* first part is about the named entries of a draft: re-applying it after  *)
(* a 409 is a three-way merge, renaming an entry carries every reference   *)
(* over, and a save changes what was listed for review.  The second part   *)
(* is about its lists: their keys and rules stay what they are, and what   *)
(* a save writes is what the server shows (ListsInv).                      *)
(***************************************************************************)
EXTENDS DraftProperties, ListProofs

Entry(f, name) == IF name \in DOMAIN f THEN <<f[name]>> ELSE <<>>

\* What mergeKeys makes of an entry, from the summary that diffKeys made.
LEMMA MergedEntry ==
  ASSUME NEW base, NEW mine, NEW theirs, NEW name
  PROVE  LET changes == DiffKeys(base, mine)
             merged == MergeKeys(theirs, mine, changes)
         IN  Entry(merged, name) = IF name \in Touched(changes) THEN Entry(mine, name) ELSE Entry(theirs, name)
  <1>. DEFINE changes == DiffKeys(base, mine)
  <1>. DEFINE kept == (changes.added \cup changes.changed) \cap DOMAIN mine
  <1>. DEFINE merged == MergeKeys(theirs, mine, changes)
  <1>1. /\ changes.added = DOMAIN mine \ DOMAIN base
        /\ changes.removed = DOMAIN base \ DOMAIN mine
        /\ changes.changed = {k \in DOMAIN base \cap DOMAIN mine : base[k] # mine[k]}
    BY DEF DiffKeys
  <1>2. DOMAIN merged = (DOMAIN theirs \cup kept) \ changes.removed
    BY DEF MergeKeys
  <1>3. \A k \in DOMAIN merged : merged[k] = IF k \in kept THEN mine[k] ELSE theirs[k]
    BY DEF MergeKeys
  <1>. DEFINE AsReviewed == Entry(merged, name) = IF name \in Touched(changes) THEN Entry(mine, name)
                                            ELSE Entry(theirs, name)
  <1>. HIDE DEF changes, merged
  <1>4. ASSUME name \in changes.removed PROVE AsReviewed
    BY <1>1, <1>2, <1>4 DEF Entry, Touched
  <1>5. ASSUME name \in changes.added \cup changes.changed PROVE AsReviewed
    BY <1>1, <1>2, <1>3, <1>5 DEF Entry, Touched
  <1>6. ASSUME name \notin Touched(changes) PROVE AsReviewed
    BY <1>1, <1>2, <1>3, <1>6 DEF Entry, Touched
  <1>. QED  BY <1>4, <1>5, <1>6 DEF Touched, changes, merged

\* Of all steps only "re-apply" opens the save dialog while a conflict closes.
LEMMA OnlyRebaseReapplies ==
  ASSUME Reapplies, EditorNext
  PROVE  RebaseAfterConflict
  <1>. USE DEF Reapplies, page, server
  <1>1. CASE StartFetch \/ ServeFetch \/ FetchArrives \/ FetchFails \/ OtherSave
    BY <1>1 DEF StartFetch, ServeFetch, FetchArrives, FetchFails, OtherSave
  <1>2. ASSUME NEW d, Change(d) PROVE FALSE
    BY <1>2 DEF Change
  <1>3. ASSUME NEW kind, NEW s, NEW key, NEW uses, NEW label, NEW enabled, Open(kind, s, key, uses, label, enabled)
        PROVE  FALSE
    BY <1>3 DEF Open
  <1>4. CASE RulesTab
    BY <1>2, <1>3, <1>4 DEF RulesTab, ClickAddRule, ClickToggle, ClickDuplicate, ClickDeleteRule,
         ClickEditRule, SubmitRule, ConfirmDeleteRule, OpenDelete
  <1>5. CASE ListSection
    BY <1>2, <1>3, <1>5 DEF ListSection, ClickAddExtra, ClickDeleteExtra, ClickEditExtra, SubmitExtra,
         ConfirmDeleteExtra, OpenDelete
  <1>6. ASSUME NEW s, EntryTab(s) PROVE FALSE
    BY <1>2, <1>3, <1>6 DEF EntryTab, ClickAddEntry, ClickEditEntry, ClickDeleteEntry, SubmitNamed,
         ConfirmDeleteEntry, OpenDelete
  <1>7. CASE AutoApprovers \/ ClickRandomize
    BY <1>2, <1>3, <1>7 DEF AutoApprovers, ClickAddEntry, ClickEditEntry, ClickDeleteRoute, SubmitRoute,
         EditExitNode, ClickRandomize, OpenDelete
  <1>8. CASE CloseDialog \/ Discard \/ OpenSave
    BY <1>8 DEF CloseDialog, Discard, OpenSave, PageFree, Uncovered
  <1>9. CASE CloseSave \/ DoSave \/ ServeSave \/ SaveAnswered \/ ReloadAfterConflict
    BY <1>9 DEF CloseSave, DoSave, ServeSave, SaveAnswered, ReloadAfterConflict
  <1>. QED  BY <1>1, <1>4, <1>5, <1>6, <1>7, <1>8, <1>9 DEF EditorNext, PolicySections, GroupsTab, TagOwnersTab, HostsTab

\* The draft that is shown then is the re-applied one: the poll that would
\* replace it has another hash.
LEMMA ReappliedIsShown ==
  ASSUME Reapplies, RebaseAfterConflict
  PROVE  draft' = Rebased
  <1>1. draft' = Show(Rebased, cache) /\ draft'.base = conflict
    BY DEF RebaseAfterConflict, Reapplies
  <1>2. Rebased.base = <<conflict[1]>>
    BY DEF Rebased, RebaseDraft
  <1>3. CASE draft' # Rebased
    <2>1. draft' = DraftFromModel(cache[1], Held) /\ Rebased.base[1].hash # cache[1].hash
      BY <1>1, <1>2, <1>3 DEF Show
    <2>2. draft'.base = <<cache[1]>>
      BY <2>1 DEF DraftFromModel
    <2>3. conflict[1] = cache[1]
      BY <1>1, <2>2
    <2>. QED  BY <1>2, <2>1, <2>3
  <1>. QED  BY <1>3

-----------------------------------------------------------------------------
\* What the user touched is in the re-applied draft as in the old one, and
\* everything else is as the server has it, whatever the three versions are
\* (rebaseDraft, mergeKeys and the effect that follows the model).
THEOREM ReapplyingMergesEntries == EditorSpec => RebaseMergesEntries
  <1>. DEFINE Merges ==
         \A s \in Sections, name \in UNION {Names[t] : t \in Sections} :
           LET E(f) == IF name \in DOMAIN f THEN <<f[name]>> ELSE <<>>
           IN  E(draft'.keyed[s]) = IF name \in Touched(Reviewed.keyed[s])
                                    THEN E(draft.keyed[s]) ELSE E(conflict[1].keyed[s])
  <1>1. ASSUME [EditorNext]_editorVars, Reapplies PROVE Merges
    <2>1. EditorNext  BY <1>1 DEF Reapplies, editorVars, page
    <2>2. draft' = Rebased
      BY <1>1, <2>1, OnlyRebaseReapplies, ReappliedIsShown
    <2>3. SUFFICES ASSUME NEW s \in Sections, NEW name
                   PROVE  Entry(draft'.keyed[s], name) = IF name \in Touched(Reviewed.keyed[s])
                            THEN Entry(draft.keyed[s], name) ELSE Entry(conflict[1].keyed[s], name)
      BY DEF Entry
    <2>4. Reviewed.keyed[s] = DiffKeys(draft.base[1].keyed[s], draft.keyed[s])
      BY DEF Reviewed, DiffDraft
    <2>5. draft'.keyed[s] = MergeKeys(conflict[1].keyed[s], draft.keyed[s], Reviewed.keyed[s])
      BY <2>2 DEF Rebased, RebaseDraft, Reviewed
    <2>. QED  BY <2>4, <2>5, MergedEntry
  <1>2. [EditorNext]_editorVars => [Reapplies => Merges]_editorVars
    BY <1>1
  <1>. QED  BY <1>2, PTL DEF EditorSpec, RebaseMergesEntries

-----------------------------------------------------------------------------
(* Drafts and models, as far as their named entries go.                    *)

\* A model shows the policy text that its hash stands for.
FineModel(m) ==
  /\ WellKeyed(m.keyed) /\ m.hash.keyed = m.keyed
  /\ m.hash.exitNode = m.exitNode /\ m.hash.randomize = m.randomize

NoneOrFine(s) == s = <<>> \/ \E m : s = <<m>> /\ FineModel(m)

Drafted(d) ==
  /\ d = [base |-> d.base, keyed |-> d.keyed, rules |-> d.rules, extras |-> d.extras,
          exitNode |-> d.exitNode, randomize |-> d.randomize]
  /\ WellKeyed(d.keyed) /\ NoneOrFine(d.base)

\* A save under way carries what was reviewed: the entries in which its text
\* differs from its base are those of the summary.
Reviewing(save) ==
  LET base == save.body.base
      new == save.body.text
  IN  /\ \A s \in Sections : save.summary.keyed[s] = DiffKeys(base.keyed[s], new.keyed[s])
      /\ save.summary.exitNode = (base.exitNode # new.exitNode)
      /\ save.summary.randomize = (base.randomize # new.randomize)

FlightOK == flight = <<>> \/ \E f : /\ flight = <<f>> /\ f = [saved |-> f.saved, read |-> f.read]
                                  /\ NoneOrFine(f.read)

SavingOK ==
  saving = <<>> \/ \E save :
    /\ saving = <<save>>
    /\ save = [body |-> save.body, rules |-> save.rules, summary |-> save.summary,
               answer |-> save.answer, current |-> save.current]
    /\ WellKeyed(save.body.text.keyed) /\ Reviewing(save) /\ NoneOrFine(save.current)

DialogOK ==
  dialog # <<>> /\ dialog[1].kind = "entry" =>
    dialog[1].section \in Sections /\ dialog[1].key[2] \in Names[dialog[1].section]

\* What the page has started needs a model.
NeedsModel ==
  /\ saveOpen \/ saving # <<>> \/ conflict # <<>> \/ dialog # <<>> \/ (flight # <<>> /\ flight[1].saved)
       => cache # <<>>
  /\ cache # <<>> => draft.base # <<>>

UsedOK == used = [edits |-> used.edits, opened |-> used.opened, sends |-> used.sends, others |-> used.others]

\* The inductive invariant.
EditorInv ==
  /\ WellKeyed(text.keyed) /\ NoneOrFine(cache) /\ NoneOrFine(conflict) /\ Drafted(draft)
  /\ FlightOK /\ SavingOK /\ DialogOK /\ NeedsModel /\ UsedOK

LEMMA SectionsAre ==
  /\ Sections = {"groups", "tagOwners", "hosts", "routes"}
  /\ Names["groups"] = Groups /\ Names["tagOwners"] = Tags /\ Names["hosts"] = Hosts
  /\ Names["routes"] = RoutePrefixes
  BY DEF Sections, Names

LEMMA ModelDrafted ==
  ASSUME NEW m, FineModel(m), NEW held
  PROVE  Drafted(DraftFromModel(m, held)) /\ DraftFromModel(m, held).base = <<m>>
  BY DEF Drafted, DraftFromModel, FineModel, NoneOrFine

\* The effect after a render keeps a draft a draft, and gives a page with a
\* model a draft of one.
LEMMA ShownIsDrafted ==
  ASSUME NEW d, Drafted(d), NEW c, NoneOrFine(c)
  PROVE  /\ Drafted(Show(d, c))
         /\ c # <<>> => Show(d, c).base # <<>>
         /\ Show(d, c) = d \/ (Show(d, c).base = <<c[1]>> /\ Show(d, c).base # d.base)
  <1>1. CASE c # <<>> /\ ~Dirty(d) /\ (d.base = <<>> \/ d.base[1].hash # c[1].hash)
    <2>1. Show(d, c) = DraftFromModel(c[1], Held)  BY <1>1 DEF Show
    <2>2. FineModel(c[1])  BY <1>1 DEF NoneOrFine
    <2>3. Drafted(Show(d, c)) /\ Show(d, c).base = <<c[1]>>  BY <2>1, <2>2, ModelDrafted
    <2>4. <<c[1]>> # d.base  BY <1>1
    <2>. QED  BY <2>3, <2>4
  <1>2. CASE ~(c # <<>> /\ ~Dirty(d) /\ (d.base = <<>> \/ d.base[1].hash # c[1].hash))
    <2>1. Show(d, c) = d  BY <1>2 DEF Show
    <2>2. c # <<>> => d.base # <<>>  BY <1>2 DEF Dirty
    <2>. QED  BY <2>1, <2>2
  <1>. QED  BY <1>1, <1>2

LEMMA ServedModel ==
  ASSUME EditorInv PROVE FineModel(Model)
  BY DEF EditorInv, Model, ModelState, FineModel

-----------------------------------------------------------------------------
(* Edits make drafts of drafts, on the same base.                          *)

EditOf(d) == Drafted(d) /\ d.base = draft.base

LEMMA OtherParts ==
  ASSUME Drafted(draft), NEW x
  PROVE  /\ EditOf([draft EXCEPT !.rules = x]) /\ EditOf([draft EXCEPT !.extras = x])
         /\ EditOf([draft EXCEPT !.exitNode = x]) /\ EditOf([draft EXCEPT !.randomize = x])
  BY DEF EditOf, Drafted

\* What a section may hold.
SectionOK(s, f) ==
  /\ DOMAIN f \subseteq Names[s]
  /\ s = "tagOwners" => \A t \in DOMAIN f : f[t] \subseteq Users \cup Groups

LEMMA SectionsOK ==
  ASSUME NEW keyed
  PROVE  WellKeyed(keyed) <=> DOMAIN keyed = Sections /\ \A s \in Sections : SectionOK(s, keyed[s])
  BY SectionsAre DEF WellKeyed, SectionOK

LEMMA OneSection ==
  ASSUME NEW d, Drafted(d), d.base = draft.base, NEW s \in Sections, NEW f, SectionOK(s, f)
  PROVE  EditOf([d EXCEPT !.keyed[s] = f])
  <1>1. WellKeyed([d.keyed EXCEPT ![s] = f])
    BY SectionsOK DEF Drafted
  <1>2. [d EXCEPT !.keyed[s] = f] = [d EXCEPT !.keyed = [d.keyed EXCEPT ![s] = f]]
    OBVIOUS
  <1>. QED  BY <1>1, <1>2 DEF EditOf, Drafted

LEMMA SetEntryEdits ==
  ASSUME NEW d, EditOf(d), NEW s \in Sections, NEW name \in Names[s], NEW members, MayHold(s, members)
  PROVE  EditOf(SetEntry(d, s, name, members))
  <1>1. SectionOK(s, d.keyed[s])  BY SectionsOK DEF EditOf, Drafted
  <1>2. s = "tagOwners" => members \subseteq Users \cup Groups  BY DEF MayHold
  <1>3. SectionOK(s, With(d.keyed[s], name, members))  BY <1>1, <1>2 DEF SectionOK, With
  <1>. QED  BY <1>3, OneSection DEF SetEntry, EditOf

LEMMA DeleteKeyEdits ==
  ASSUME Drafted(draft), NEW s \in Sections, NEW name
  PROVE  EditOf(DeleteKey(draft, s, name))
  <1>1. SectionOK(s, draft.keyed[s])  BY SectionsOK DEF Drafted
  <1>2. SectionOK(s, Without(draft.keyed[s], name))  BY <1>1 DEF SectionOK, Without
  <1>. QED  BY <1>2, OneSection DEF DeleteKey

LEMMA SetRouteEdits ==
  ASSUME Drafted(draft), NEW from, NEW prefix \in RoutePrefixes, NEW owners
  PROVE  EditOf(SetRoute(draft, from, prefix, owners))
  <1>1. DOMAIN draft.keyed["routes"] \subseteq RoutePrefixes  BY SectionsAre DEF Drafted, WellKeyed
  <1>2. SectionOK("routes", With(IF from # prefix THEN Without(draft.keyed["routes"], from)
                                 ELSE draft.keyed["routes"], prefix, owners))
    BY <1>1, SectionsAre DEF SectionOK, With, Without
  <1>. QED  BY <1>2, SectionsAre, OneSection DEF SetRoute

\* What is renamed has its new name in its own section, and is a group where
\* tags have owners.
LEMMA RenameKeyEdits ==
  ASSUME Drafted(draft), NEW s \in Sections, NEW from, NEW to \in Names[s]
  PROVE  EditOf(RenameKey(draft, s, from, to))
  <1>. DEFINE moved == [n \in (DOMAIN draft.keyed[s] \ {from}) \cup {to} |->
                          IF n = to THEN draft.keyed[s][from] ELSE draft.keyed[s][n]]
  <1>. DEFINE Renamed(t) == [n \in DOMAIN draft.keyed[t] |-> Swap(draft.keyed[t][n], from, to)]
  <1>. DEFINE keyed == [t \in Sections |-> IF t = s THEN moved
                                           ELSE IF t = "routes" \/ (t = "tagOwners" /\ s = "groups")
                                           THEN Renamed(t) ELSE draft.keyed[t]]
  <1>1. CASE from = to \/ from \notin DOMAIN draft.keyed[s]
    BY <1>1 DEF RenameKey, EditOf
  <1>2. CASE ~(from = to \/ from \notin DOMAIN draft.keyed[s])
    <2>1. \A t \in Sections : SectionOK(t, draft.keyed[t])  BY SectionsOK DEF Drafted
    <2>2. SectionOK(s, moved)  BY <1>2, <2>1 DEF SectionOK
    <2>3. ASSUME NEW t \in Sections \ {s}, t = "routes" \/ (t = "tagOwners" /\ s = "groups")
          PROVE  SectionOK(t, Renamed(t))
      <3>1. DOMAIN Renamed(t) \subseteq Names[t]  BY <2>1 DEF SectionOK
      <3>2. ASSUME t = "tagOwners", NEW n \in DOMAIN Renamed(t) PROVE Renamed(t)[n] \subseteq Users \cup Groups
        <4>1. to \in Groups  BY <2>3, <3>2, SectionsAre
        <4>. QED  BY <2>1, <3>2, <4>1 DEF SectionOK, Swap
      <3>. QED  BY <3>1, <3>2 DEF SectionOK
    <2>4. WellKeyed(keyed)
      <3>1. \A t \in Sections : SectionOK(t, keyed[t])  BY <2>1, <2>2, <2>3
      <3>2. DOMAIN keyed = Sections  OBVIOUS
      <3>. HIDE DEF keyed
      <3>. QED  BY <3>1, <3>2, SectionsOK
    <2>5. RenameKey(draft, s, from, to) =
            [draft EXCEPT !.keyed = keyed,
                          !.rules = [i \in DOMAIN @ |-> RenameInRule(@[i], from, to)],
                          !.extras = [i \in DOMAIN @ |-> RenameInElement(@[i], from, to)],
                          !.exitNode = Swap(@, from, to)]
      BY <1>2, Zenon DEF RenameKey, Drafted
    <2>. HIDE DEF keyed
    <2>. QED  BY <2>4, <2>5 DEF EditOf, Drafted
  <1>. QED  BY <1>1, <1>2

LEMMA MergeDrafted ==
  ASSUME EditorInv, conflict # <<>>, draft.base # <<>>
  PROVE  Drafted(Rebased) /\ Rebased.base = conflict
  <1>1. PICK m : conflict = <<m>> /\ FineModel(m)  BY DEF EditorInv, NoneOrFine
  <1>. DEFINE sum == DiffDraft(draft.base[1], draft)
  <1>. DEFINE keyed == [s \in Sections |-> MergeKeys(m.keyed[s], draft.keyed[s], sum.keyed[s])]
  <1>2. ASSUME NEW s \in Sections PROVE SectionOK(s, MergeKeys(m.keyed[s], draft.keyed[s], sum.keyed[s]))
    <2>1. SectionOK(s, m.keyed[s]) /\ SectionOK(s, draft.keyed[s])
      BY <1>1, SectionsOK DEF FineModel, EditorInv, Drafted
    <2>. HIDE DEF sum
    <2>. QED  BY <2>1 DEF SectionOK, MergeKeys
  <1>3. WellKeyed(keyed)  BY <1>2, SectionsOK
  <1>4. Rebased.keyed = keyed /\ Rebased.base = <<m>>  BY <1>1 DEF Rebased, RebaseDraft
  <1>5. Rebased = [base |-> Rebased.base, keyed |-> Rebased.keyed, rules |-> Rebased.rules,
                   extras |-> Rebased.extras, exitNode |-> Rebased.exitNode, randomize |-> Rebased.randomize]
    BY DEF Rebased, RebaseDraft
  <1>. HIDE DEF keyed
  <1>. QED  BY <1>1, <1>3, <1>4, <1>5 DEF Drafted, NoneOrFine

-----------------------------------------------------------------------------
(* Every action of a tab is an edit or opens a dialog.                     *)

Opens ==
  \E kind, s, key, uses, label, enabled :
    /\ kind = "entry" => s \in Sections /\ key[2] \in Names[s]
    /\ Open(kind, s, key, uses, label, enabled)

Edited == \E d : EditOf(d) /\ Change(d)

LEMMA RulesTabSteps ==
  ASSUME EditorInv, RulesTab PROVE Edited \/ Opens
  <1>. USE DEF EditorInv
  <1>1. CASE ClickAddRule  BY <1>1, OtherParts DEF ClickAddRule, AddRule, Edited
  <1>2. CASE ClickToggle  BY <1>2, OtherParts DEF ClickToggle, ToggleRule, Edited
  <1>3. CASE ClickDuplicate
    <2>1. PICK i, copied : Change(DuplicateRule(draft, draft.rules[i].key, copied, Held))
      BY <1>3 DEF ClickDuplicate
    <2>2. EditOf(DuplicateRule(draft, draft.rules[i].key, copied, Held))
      BY OtherParts DEF DuplicateRule, EditOf
    <2>. QED  BY <2>1, <2>2 DEF Edited
  <1>4. CASE ClickDeleteRule
    BY <1>4, OtherParts DEF ClickDeleteRule, DeleteRule, OpenDelete, Edited, Opens
  <1>5. CASE ClickEditRule  BY <1>5 DEF ClickEditRule, Opens
  <1>6. CASE SubmitRule  BY <1>6, OtherParts DEF SubmitRule, UpdateRule, Edited
  <1>7. CASE ConfirmDeleteRule  BY <1>7, OtherParts DEF ConfirmDeleteRule, DeleteRule, Edited
  <1>. QED  BY <1>1, <1>2, <1>3, <1>4, <1>5, <1>6, <1>7 DEF RulesTab

LEMMA ListSectionSteps ==
  ASSUME EditorInv, ListSection PROVE Edited \/ Opens
  <1>. USE DEF EditorInv
  <1>1. CASE ClickAddExtra  BY <1>1, OtherParts DEF ClickAddExtra, AddExtra, Edited
  <1>2. CASE ClickDeleteExtra
    BY <1>2, OtherParts DEF ClickDeleteExtra, DeleteExtra, OpenDelete, Edited, Opens
  <1>3. CASE ClickEditExtra  BY <1>3 DEF ClickEditExtra, Opens
  <1>4. CASE SubmitExtra  BY <1>4, OtherParts DEF SubmitExtra, SetExtra, Edited
  <1>5. CASE ConfirmDeleteExtra  BY <1>5, OtherParts DEF ConfirmDeleteExtra, DeleteExtra, Edited
  <1>. QED  BY <1>1, <1>2, <1>3, <1>4, <1>5 DEF ListSection

LEMMA OpenedEntry ==
  ASSUME EditorInv, NEW s \in Sections, ClickEditEntry(s) PROVE Opens
  <1>1. PICK name \in DOMAIN draft.keyed[s] :
          Open("entry", s, <<"name", name>>, draft.keyed[s][name], NoLabel, TRUE)
    BY DEF ClickEditEntry
  <1>2. name \in Names[s]  BY DEF EditorInv, Drafted, WellKeyed
  <1>. QED  BY <1>1, <1>2 DEF Opens

LEMMA AddedEntry ==
  ASSUME EditorInv, NEW s \in Sections, ClickAddEntry(s) PROVE Edited
  <1>1. PICK name, m : name \in Names[s] /\ MayHold(s, m) /\ Change(SetEntry(draft, s, name, m))
    BY DEF ClickAddEntry
  <1>2. EditOf(draft)  BY DEF EditOf, EditorInv
  <1>. QED  BY <1>1, <1>2, SetEntryEdits DEF Edited

LEMMA SubmittedNames ==
  ASSUME EditorInv, NEW s \in Sections, InEntry("entry", s), NEW e \in Submittable(s)
  PROVE  e[1] \in Names[s] /\ MayHold(s, e[2])
  <1>1. dialog[1].key[2] \in Names[s]  BY DEF EditorInv, DialogOK, InEntry, InDialog
  <1>. QED  BY <1>1 DEF Submittable

LEMMA EntryTabSteps ==
  ASSUME EditorInv, NEW s \in Sections, EntryTab(s) PROVE Edited \/ Opens
  <1>1. CASE ClickAddEntry(s)  BY <1>1, AddedEntry
  <1>2. CASE ClickEditEntry(s)  BY <1>2, OpenedEntry
  <1>3. CASE ClickDeleteEntry(s)  BY <1>3 DEF ClickDeleteEntry, OpenDelete, Opens
  <1>4. CASE SubmitNamed(s)
    <2>1. PICK e \in Submittable(s) :
            Change(SetEntry(RenameKey(draft, s, dialog[1].key[2], e[1]), s, e[1], e[2]))
      BY <1>4 DEF SubmitNamed
    <2>2. e[1] \in Names[s] /\ MayHold(s, e[2])  BY <1>4, SubmittedNames DEF SubmitNamed
    <2>. QED  BY <2>1, <2>2, RenameKeyEdits, SetEntryEdits DEF Edited, EditorInv
  <1>5. CASE ConfirmDeleteEntry(s)
    BY <1>5, DeleteKeyEdits DEF ConfirmDeleteEntry, Edited, EditorInv
  <1>. QED  BY <1>1, <1>2, <1>3, <1>4, <1>5 DEF EntryTab

LEMMA AutoApproversSteps ==
  ASSUME EditorInv, AutoApprovers \/ ClickRandomize PROVE Edited \/ Opens
  <1>0. "routes" \in Sections  BY SectionsAre
  <1>1. CASE ClickAddEntry("routes")  BY <1>0, <1>1, AddedEntry
  <1>2. CASE ClickEditEntry("routes")  BY <1>0, <1>2, OpenedEntry
  <1>3. CASE ClickDeleteRoute  BY <1>0, <1>3, DeleteKeyEdits DEF ClickDeleteRoute, Edited, EditorInv
  <1>4. CASE SubmitRoute
    <2>1. PICK e \in Submittable("routes") : Change(SetRoute(draft, dialog[1].key[2], e[1], e[2]))
      BY <1>4 DEF SubmitRoute
    <2>2. e[1] \in RoutePrefixes  BY <1>0, <1>4, SubmittedNames, SectionsAre DEF SubmitRoute
    <2>. QED  BY <2>1, <2>2, SetRouteEdits DEF Edited, EditorInv
  <1>5. CASE EditExitNode  BY <1>5, OtherParts DEF EditExitNode, Edited, EditorInv
  <1>6. CASE ClickRandomize  BY <1>6, OtherParts DEF ClickRandomize, Edited, EditorInv
  <1>. QED  BY <1>1, <1>2, <1>3, <1>4, <1>5, <1>6 DEF AutoApprovers

-----------------------------------------------------------------------------
(* The invariant holds.                                                    *)

LEMMA EditorStarts == EditorInit => EditorInv
  <1>. SUFFICES ASSUME EditorInit PROVE EditorInv
    OBVIOUS
  <1>1. Drafted(draft)  BY SectionsAre DEF EditorInit, EmptyDraft, Drafted, WellKeyed, NoneOrFine
  <1>2. WellKeyed(text.keyed)  BY EditorAssumption DEF EditorInit
  <1>. QED  BY <1>1, <1>2 DEF EditorInit, EditorInv, NoneOrFine, FlightOK, SavingOK, DialogOK, NeedsModel, UsedOK

LEMMA EditStep == ASSUME EditorInv, Edited \/ Opens PROVE EditorInv'
  <1>1. CASE Edited
    <2>1. PICK d : EditOf(d) /\ Change(d)  BY <1>1 DEF Edited
    <2>2. /\ draft' = Show(d, cache) /\ dialog' = <<>> /\ used' = [used EXCEPT !.edits = @ + 1]
          /\ UNCHANGED <<text, cache, flight, saveOpen, conflict, saving>>
      BY <2>1 DEF Change, Use, server
    <2>3. Drafted(draft') /\ (cache # <<>> => draft'.base # <<>>)
      BY <2>1, <2>2, ShownIsDrafted DEF EditOf, EditorInv
    <2>4. UsedOK'  BY <2>2 DEF EditorInv, UsedOK
    <2>. QED  BY <2>2, <2>3, <2>4 DEF EditorInv, FlightOK, SavingOK, DialogOK, NeedsModel
  <1>2. CASE Opens
    <2>1. PICK kind, s, key, uses, label, enabled :
            /\ kind = "entry" => s \in Sections /\ key[2] \in Names[s]
            /\ Open(kind, s, key, uses, label, enabled)
      BY <1>2 DEF Opens
    <2>2. UsedOK' /\ DialogOK'  BY <2>1 DEF Open, Use, EditorInv, UsedOK, DialogOK
    <2>. QED  BY <2>1, <2>2 DEF Open, server, PageFree, Uncovered, EditorInv, FlightOK, SavingOK, NeedsModel
  <1>. QED  BY <1>1, <1>2

LEMMA FetchStep ==
  ASSUME EditorInv, StartFetch \/ ServeFetch \/ FetchArrives \/ FetchFails PROVE EditorInv'
  <1>. USE DEF server, page
  <1>1. CASE StartFetch
    BY <1>1 DEF StartFetch, EditorInv, FlightOK, NoneOrFine, SavingOK, DialogOK, NeedsModel, UsedOK
  <1>2. CASE ServeFetch
    <2>1. PICK f : flight = <<f>> /\ f = [saved |-> f.saved, read |-> f.read]
      BY <1>2 DEF ServeFetch, EditorInv, FlightOK
    <2>2. flight' = <<[saved |-> f.saved, read |-> <<Model>>]>>  BY <1>2, <2>1 DEF ServeFetch
    <2>3. FlightOK'  BY <2>2, ServedModel DEF FlightOK, NoneOrFine
    <2>. QED  BY <1>2, <2>1, <2>2, <2>3 DEF ServeFetch, EditorInv, SavingOK, DialogOK, NeedsModel, UsedOK
  <1>3. CASE FetchArrives
    <2>1. NoneOrFine(cache') /\ cache' # <<>> /\ flight' = <<>>
      BY <1>3 DEF FetchArrives, EditorInv, FlightOK
    <2>2. FineModel(cache'[1])  BY <2>1 DEF NoneOrFine
    <2>3. Drafted(draft') /\ draft'.base # <<>>
      BY <1>3, <2>1, <2>2, ShownIsDrafted, ModelDrafted DEF FetchArrives, EditorInv
    <2>. QED  BY <1>3, <2>1, <2>3 DEF FetchArrives, EditorInv, FlightOK, SavingOK, DialogOK, NeedsModel, UsedOK
  <1>4. CASE FetchFails
    <2>1. flight[1].saved => FineModel(cache[1])
      BY <1>4 DEF FetchFails, EditorInv, NeedsModel, NoneOrFine
    <2>2. Drafted(draft') /\ (cache # <<>> => draft'.base # <<>>)
      BY <1>4, <2>1, ModelDrafted DEF FetchFails, EditorInv, NeedsModel
    <2>. QED  BY <1>4, <2>2 DEF FetchFails, EditorInv, FlightOK, SavingOK, DialogOK, NeedsModel, UsedOK
  <1>. QED  BY <1>1, <1>2, <1>3, <1>4

LEMMA DialogStep ==
  ASSUME EditorInv, CloseDialog \/ Discard \/ OpenSave \/ CloseSave \/ OtherSave PROVE EditorInv'
  <1>. USE DEF server, page
  <1>1. CASE CloseDialog
    BY <1>1 DEF CloseDialog, EditorInv, FlightOK, SavingOK, DialogOK, NeedsModel, UsedOK
  <1>2. CASE Discard
    <2>1. FineModel(cache[1])  BY <1>2 DEF Discard, PageFree, Uncovered, EditorInv, NoneOrFine
    <2>2. Drafted(draft') /\ draft'.base # <<>>  BY <1>2, <2>1, ModelDrafted DEF Discard
    <2>. QED  BY <1>2, <2>2 DEF Discard, EditorInv, FlightOK, SavingOK, DialogOK, NeedsModel, UsedOK
  <1>3. CASE OpenSave
    BY <1>3 DEF OpenSave, PageFree, Uncovered, EditorInv, FlightOK, SavingOK, DialogOK, NeedsModel, UsedOK
  <1>4. CASE CloseSave
    BY <1>4 DEF CloseSave, EditorInv, FlightOK, SavingOK, DialogOK, NeedsModel, UsedOK
  <1>5. CASE OtherSave
    <2>1. WellKeyed(text'.keyed)  BY <1>5, EditorAssumption DEF OtherSave
    <2>2. UsedOK'  BY <1>5 DEF OtherSave, Use, EditorInv, UsedOK
    <2>. QED  BY <1>5, <2>1, <2>2 DEF OtherSave, EditorInv, FlightOK, SavingOK, DialogOK, NeedsModel
  <1>. QED  BY <1>1, <1>2, <1>3, <1>4, <1>5

\* A save is sent with the summary of the draft it carries.
LEMMA SendStep == ASSUME EditorInv, DoSave PROVE EditorInv'
  <1>1. draft.base # <<>> /\ cache # <<>>  BY DEF DoSave, EditorInv, NeedsModel
  <1>2. PICK m : draft.base = <<m>> /\ FineModel(m)  BY <1>1 DEF EditorInv, Drafted, NoneOrFine
  <1>. DEFINE save == [body |-> ToSaveBody(draft), rules |-> draft.rules,
                       summary |-> DiffDraft(draft.base[1], draft), answer |-> "none", current |-> <<>>]
  <1>3. saving' = <<save>>  BY DEF DoSave
  <1>4. save.body.base = m.hash /\ save.body.text.keyed = draft.keyed
        /\ save.body.text.exitNode = draft.exitNode /\ save.body.text.randomize = draft.randomize
    BY <1>2 DEF ToSaveBody, SavedText
  <1>5. /\ \A s \in Sections : save.summary.keyed[s] = DiffKeys(m.keyed[s], draft.keyed[s])
        /\ save.summary.exitNode = (m.exitNode # draft.exitNode)
        /\ save.summary.randomize = (m.randomize # draft.randomize)
    BY <1>2 DEF DiffDraft
  <1>6. save = [body |-> save.body, rules |-> save.rules, summary |-> save.summary,
                answer |-> save.answer, current |-> save.current] /\ save.current = <<>>
    OBVIOUS
  <1>. HIDE DEF save
  <1>7. Reviewing(save)  BY <1>2, <1>4, <1>5 DEF Reviewing, FineModel
  <1>8. SavingOK'  BY <1>3, <1>4, <1>6, <1>7 DEF SavingOK, NoneOrFine, EditorInv, Drafted
  <1>9. UsedOK'  BY DEF DoSave, Use, EditorInv, UsedOK
  <1>. QED  BY <1>1, <1>8, <1>9 DEF DoSave, server, page, EditorInv, FlightOK, DialogOK, NeedsModel

LEMMA AnsweredSave ==
  ASSUME NEW save, NEW answer, NEW current,
         save = [body |-> save.body, rules |-> save.rules, summary |-> save.summary,
                 answer |-> save.answer, current |-> save.current]
  PROVE  [save EXCEPT !.answer = answer, !.current = current] =
         [body |-> save.body, rules |-> save.rules, summary |-> save.summary, answer |-> answer, current |-> current]
  <1>. DEFINE answered == [save EXCEPT !.answer = answer]
  <1>1. answered = [body |-> save.body, rules |-> save.rules, summary |-> save.summary,
                    answer |-> answer, current |-> save.current]
    OBVIOUS
  <1>2. [save EXCEPT !.answer = answer, !.current = current] = [answered EXCEPT !.current = current]
    OBVIOUS
  <1>. HIDE DEF answered
  <1>. QED  BY <1>1, <1>2

LEMMA ServeStep == ASSUME EditorInv, ServeSave PROVE EditorInv'
  <1>1. PICK save : /\ saving = <<save>>
                    /\ save = [body |-> save.body, rules |-> save.rules, summary |-> save.summary,
                               answer |-> save.answer, current |-> save.current]
                    /\ WellKeyed(save.body.text.keyed) /\ Reviewing(save)
    BY DEF ServeSave, EditorInv, SavingOK
  <1>2. PICK a, current : Answer(a, current) /\ NoneOrFine(current)
    <2>1. NoneOrFine(<<>>) /\ NoneOrFine(<<Model>>)  BY ServedModel DEF NoneOrFine
    <2>. QED  BY <2>1 DEF ServeSave
  <1>3. saving' = <<[body |-> save.body, rules |-> save.rules, summary |-> save.summary,
                     answer |-> a, current |-> current]>>
    <2>1. saving' = <<[save EXCEPT !.answer = a, !.current = current]>>  BY <1>1, <1>2 DEF Answer
    <2>2. save = [body |-> save.body, rules |-> save.rules, summary |-> save.summary,
                  answer |-> save.answer, current |-> save.current]
      BY <1>1
    <2>3. [save EXCEPT !.answer = a, !.current = current] =
            [body |-> save.body, rules |-> save.rules, summary |-> save.summary, answer |-> a, current |-> current]
      BY <2>2, AnsweredSave
    <2>. QED  BY <2>1, <2>3
  <1>4. SavingOK'  BY <1>1, <1>2, <1>3 DEF SavingOK, Reviewing
  <1>5. WellKeyed(text'.keyed)  BY <1>1 DEF ServeSave, server, EditorInv
  <1>. QED  BY <1>1, <1>4, <1>5 DEF ServeSave, page, EditorInv, FlightOK, DialogOK, NeedsModel, UsedOK

LEMMA AnswerStep == ASSUME EditorInv, SaveAnswered PROVE EditorInv'
  <1>1. saving # <<>> /\ cache # <<>> /\ NoneOrFine(conflict')
    BY DEF SaveAnswered, EditorInv, SavingOK, NeedsModel
  <1>2. FlightOK'  BY DEF SaveAnswered, FlightOK, NoneOrFine
  <1>3. FineModel(cache[1])  BY <1>1 DEF EditorInv, NoneOrFine
  <1>4. Drafted(draft') /\ draft'.base # <<>>
    BY <1>1, <1>3, ModelDrafted DEF SaveAnswered, EditorInv, NeedsModel
  <1>. QED  BY <1>1, <1>2, <1>4 DEF SaveAnswered, server, EditorInv, SavingOK, DialogOK, NeedsModel, UsedOK

LEMMA ConflictStep ==
  ASSUME EditorInv, ReloadAfterConflict \/ RebaseAfterConflict PROVE EditorInv'
  <1>1. cache # <<>> /\ draft.base # <<>> /\ conflict # <<>>
    BY DEF ReloadAfterConflict, RebaseAfterConflict, EditorInv, NeedsModel
  <1>2. FineModel(conflict[1])  BY <1>1 DEF EditorInv, NoneOrFine
  <1>3. Drafted(draft') /\ draft'.base # <<>>
    BY <1>1, <1>2, ModelDrafted, MergeDrafted, ShownIsDrafted
    DEF ReloadAfterConflict, RebaseAfterConflict, EditorInv
  <1>. QED  BY <1>1, <1>3 DEF ReloadAfterConflict, RebaseAfterConflict, server, EditorInv, NoneOrFine,
                            FlightOK, SavingOK, DialogOK, NeedsModel, UsedOK

LEMMA EditorStep == EditorInv /\ [EditorNext]_editorVars => EditorInv'
  <1>. SUFFICES ASSUME EditorInv, [EditorNext]_editorVars PROVE EditorInv'
    OBVIOUS
  <1>1. CASE UNCHANGED editorVars
    BY <1>1 DEF editorVars, server, page, EditorInv, FlightOK, SavingOK, DialogOK, NeedsModel, UsedOK
  <1>2. CASE RulesTab \/ PolicySections \/ GroupsTab \/ TagOwnersTab \/ HostsTab
    BY <1>2, RulesTabSteps, ListSectionSteps, EntryTabSteps, AutoApproversSteps, EditStep, SectionsAre
    DEF PolicySections, GroupsTab, TagOwnersTab, HostsTab
  <1>3. CASE EditorNext /\ ~(RulesTab \/ PolicySections \/ GroupsTab \/ TagOwnersTab \/ HostsTab)
    BY <1>3, FetchStep, DialogStep, SendStep, ServeStep, AnswerStep, ConflictStep DEF EditorNext
  <1>. QED  BY <1>1, <1>2, <1>3

LEMMA EditorInvariance == EditorSpec => []EditorInv
  BY EditorStarts, EditorStep, PTL DEF EditorSpec

-----------------------------------------------------------------------------
(* Renaming.                                                               *)

\* Of the edits, those from the dialog of an entry set it.
LEMMA EntriesAreSubmitted ==
  ASSUME EditorInv, EditorNext, used'.edits # used.edits, dialog # <<>>, dialog[1].kind = "entry"
  PROVE  (\E t \in Named : SubmitNamed(t)) \/ SubmitRoute
  <1>1. ~PageFree  BY DEF PageFree
  <1>2. \A kind \in {"rule", "deleteRule", "extra", "deleteExtra", "deleteEntry"} : ~InDialog(kind)
    BY DEF InDialog
  <1>3. UsedOK  BY DEF EditorInv
  <1>4. \A kind, s, key, uses, label, enabled : ~Open(kind, s, key, uses, label, enabled)
    BY <1>1 DEF Open
  <1>5. ~RulesTab
    BY <1>1, <1>2, <1>4 DEF RulesTab, ClickAddRule, ClickToggle, ClickDuplicate, ClickDeleteRule,
         ClickEditRule, SubmitRule, ConfirmDeleteRule, OpenDelete
  <1>6. ~ListSection
    BY <1>1, <1>2, <1>4 DEF ListSection, ClickAddExtra, ClickDeleteExtra, ClickEditExtra, SubmitExtra,
         ConfirmDeleteExtra, OpenDelete
  <1>7. \A s \in Named : EntryTab(s) => SubmitNamed(s)
    BY <1>1, <1>2, <1>4 DEF EntryTab, ClickAddEntry, ClickEditEntry, ClickDeleteEntry,
         ConfirmDeleteEntry, InEntry, OpenDelete
  <1>8. AutoApprovers => SubmitRoute
    BY <1>1, <1>4 DEF AutoApprovers, ClickAddEntry, ClickEditEntry, ClickDeleteRoute, EditExitNode
  <1>9. ~ClickRandomize  BY <1>1 DEF ClickRandomize
  <1>10. ~(StartFetch \/ ServeFetch \/ FetchArrives \/ FetchFails \/ CloseDialog \/ Discard
           \/ OpenSave \/ CloseSave \/ ServeSave \/ SaveAnswered \/ ReloadAfterConflict \/ RebaseAfterConflict)
    BY DEF StartFetch, ServeFetch, FetchArrives, FetchFails, CloseDialog, Discard, OpenSave, CloseSave,
         ServeSave, SaveAnswered, ReloadAfterConflict, RebaseAfterConflict
  <1>11. ~(DoSave \/ OtherSave)  BY <1>3 DEF DoSave, OtherSave, Use, UsedOK
  <1>12. {"groups", "tagOwners", "hosts"} \subseteq Named  BY SectionsAre DEF Named
  <1>. QED  BY <1>5, <1>6, <1>7, <1>8, <1>9, <1>10, <1>11, <1>12
            DEF EditorNext, PolicySections, GroupsTab, TagOwnersTab, HostsTab

\* A draft that keeps its base is the edited one.
LEMMA EditIsShown ==
  ASSUME EditorInv, NEW d, EditOf(d), Change(d), draft'.base = draft.base
  PROVE  draft' = d
  BY ShownIsDrafted DEF Change, EditOf, EditorInv

\* Swapped sets.
LEMMA SwapMoves ==
  ASSUME NEW S, NEW from, NEW to, from # to
  PROVE  from \notin Swap(S, from, to) /\ (from \in S => to \in Swap(S, from, to))
  BY DEF Swap

\* What RenameKey and the entry set after it make of the references.
LEMMA RenamedReferences ==
  ASSUME Drafted(draft), NEW s \in Named, NEW from \in DOMAIN draft.keyed[s],
         NEW to \in Names[s] \ DOMAIN draft.keyed[s], NEW members, MayHold(s, members)
  PROVE  LET d == SetEntry(RenameKey(draft, s, from, to), s, to, members)
             was == ReferencesOf(draft, from)
             is == ReferencesOf(d, to)
             left == ReferencesOf(d, from)
         IN  /\ from \notin DOMAIN d.keyed[s]
             /\ \A part \in {"rules", "owners", "extras", "routes"} : left[part] = {} /\ was[part] \subseteq is[part]
             /\ ~left["exit"] /\ (was["exit"] => is["exit"])
  <1>. DEFINE d == SetEntry(RenameKey(draft, s, from, to), s, to, members)
  <1>1. from # to /\ s \in Sections /\ s # "routes"  BY DEF Named
  <1>2. /\ d.rules = [i \in DOMAIN draft.rules |-> RenameInRule(draft.rules[i], from, to)]
        /\ d.extras = [i \in DOMAIN draft.extras |-> RenameInElement(draft.extras[i], from, to)]
        /\ d.exitNode = Swap(draft.exitNode, from, to)
    BY <1>1 DEF SetEntry, RenameKey, Drafted
  <1>3. \A t \in Sections \ {s} :
          d.keyed[t] = IF t = "routes" \/ (t = "tagOwners" /\ s = "groups")
                       THEN [n \in DOMAIN draft.keyed[t] |-> Swap(draft.keyed[t][n], from, to)]
                       ELSE draft.keyed[t]
    BY <1>1 DEF SetEntry, RenameKey, Drafted
  <1>4. d.keyed[s] = With([n \in (DOMAIN draft.keyed[s] \ {from}) \cup {to} |->
                             IF n = to THEN draft.keyed[s][from] ELSE draft.keyed[s][n]], to, members)
    BY <1>1 DEF SetEntry, RenameKey, Drafted
  <1>. HIDE DEF d
  <1>5. from \notin DOMAIN d.keyed[s]  BY <1>1, <1>4 DEF With
  <1>6. /\ \A i \in DOMAIN d.rules : from \notin d.rules[i].uses
        /\ \A i \in DOMAIN draft.rules : from \in draft.rules[i].uses => i \in DOMAIN d.rules /\ to \in d.rules[i].uses
    BY <1>1, <1>2, SwapMoves DEF RenameInRule
  <1>7. /\ \A i \in DOMAIN d.extras : from \notin d.extras[i].value
        /\ \A i \in DOMAIN draft.extras : from \in draft.extras[i].value => i \in DOMAIN d.extras /\ to \in d.extras[i].value
    BY <1>1, <1>2, SwapMoves DEF RenameInElement
  <1>8. /\ \A p \in DOMAIN d.keyed["routes"] : from \notin d.keyed["routes"][p]
        /\ \A p \in DOMAIN draft.keyed["routes"] : from \in draft.keyed["routes"][p] =>
             p \in DOMAIN d.keyed["routes"] /\ to \in d.keyed["routes"][p]
    <2>1. d.keyed["routes"] = [p \in DOMAIN draft.keyed["routes"] |-> Swap(draft.keyed["routes"][p], from, to)]
      BY <1>1, <1>3, SectionsAre
    <2>. QED  BY <1>1, <2>1, SwapMoves
  <1>9. /\ \A t \in DOMAIN d.keyed["tagOwners"] : from \notin d.keyed["tagOwners"][t]
        /\ \A t \in DOMAIN draft.keyed["tagOwners"] : from \in draft.keyed["tagOwners"][t] =>
             t \in DOMAIN d.keyed["tagOwners"] /\ to \in d.keyed["tagOwners"][t]
    <2>1. CASE s = "groups"
      <3>1. d.keyed["tagOwners"] = [t \in DOMAIN draft.keyed["tagOwners"] |-> Swap(draft.keyed["tagOwners"][t], from, to)]
        BY <1>1, <1>3, <2>1, SectionsAre
      <3>. QED  BY <1>1, <3>1, SwapMoves
    <2>2. CASE s # "groups"
      <3>1. from \in Tags \cup Hosts  BY <1>1, <2>2, SectionsAre DEF Drafted, WellKeyed
      <3>2. \A t \in DOMAIN draft.keyed["tagOwners"] : from \notin draft.keyed["tagOwners"][t]
        BY <3>1, EditorAssumption DEF Drafted, WellKeyed
      <3>3. s = "tagOwners" => from \notin members  BY <3>1, EditorAssumption DEF MayHold
      <3>4. CASE s = "tagOwners"
        <4>1. d.keyed["tagOwners"] =
                With([n \in (DOMAIN draft.keyed["tagOwners"] \ {from}) \cup {to} |->
                        IF n = to THEN draft.keyed["tagOwners"][from] ELSE draft.keyed["tagOwners"][n]], to, members)
          BY <1>4, <3>4
        <4>2. /\ DOMAIN d.keyed["tagOwners"] = (DOMAIN draft.keyed["tagOwners"] \ {from}) \cup {to}
              /\ \A t \in DOMAIN d.keyed["tagOwners"] :
                   d.keyed["tagOwners"][t] = IF t = to THEN members ELSE draft.keyed["tagOwners"][t]
          BY <4>1 DEF With
        <4>. QED  BY <3>2, <3>3, <3>4, <4>2
      <3>5. CASE s # "tagOwners"
        BY <1>3, <2>2, <3>2, <3>5, SectionsAre
      <3>. QED  BY <3>2, <3>4, <3>5
    <2>. QED  BY <2>1, <2>2
  <1>10. ~(from \in d.exitNode) /\ (from \in draft.exitNode => to \in d.exitNode)
    BY <1>1, <1>2, SwapMoves
  <1>. DEFINE was == ReferencesOf(draft, from)
              is == ReferencesOf(d, to)
              left == ReferencesOf(d, from)
  <1>11. left["rules"] = {} /\ was["rules"] \subseteq is["rules"]  BY <1>6 DEF ReferencesOf
  <1>12. left["extras"] = {} /\ was["extras"] \subseteq is["extras"]  BY <1>7 DEF ReferencesOf
  <1>13. left["routes"] = {} /\ was["routes"] \subseteq is["routes"]  BY <1>8 DEF ReferencesOf
  <1>14. left["owners"] = {} /\ was["owners"] \subseteq is["owners"]  BY <1>9 DEF ReferencesOf
  <1>15. ~left["exit"] /\ (was["exit"] => is["exit"])  BY <1>10 DEF ReferencesOf
  <1>. HIDE DEF was, is, left
  <1>16. \A part \in {"rules", "owners", "extras", "routes"} : left[part] = {} /\ was[part] \subseteq is[part]
    BY <1>11, <1>12, <1>13, <1>14
  <1>. QED  BY <1>5, <1>15, <1>16 DEF d, was, is, left

\* What is submitted for section t.
Submitted(t, name, members) == SetEntry(RenameKey(draft, t, dialog[1].key[2], name), t, name, members)

LEMMA SubmittedIsShown ==
  ASSUME EditorInv, NEW t \in Sections, SubmitNamed(t), draft'.base = draft.base
  PROVE  \E name, members : name \in Names[t] /\ MayHold(t, members) /\ draft' = Submitted(t, name, members)
  <1>1. PICK e \in Submittable(t) :
          Change(SetEntry(RenameKey(draft, t, dialog[1].key[2], e[1]), t, e[1], e[2]))
    BY DEF SubmitNamed
  <1>2. e[1] \in Names[t] /\ MayHold(t, e[2])  BY SubmittedNames DEF SubmitNamed
  <1>3. EditOf(SetEntry(RenameKey(draft, t, dialog[1].key[2], e[1]), t, e[1], e[2]))
    BY <1>2, RenameKeyEdits, SetEntryEdits DEF EditorInv
  <1>. QED  BY <1>1, <1>2, <1>3, EditIsShown DEF Submitted

\* The other sections keep their names.
LEMMA OtherNamesStay ==
  ASSUME Drafted(draft), NEW t \in Sections, NEW name, NEW members, NEW s \in Sections \ {t}
  PROVE  DOMAIN Submitted(t, name, members).keyed[s] = DOMAIN draft.keyed[s]
  <1>. DEFINE from == dialog[1].key[2]
  <1>1. CASE from = name \/ from \notin DOMAIN draft.keyed[t]
    BY <1>1 DEF Submitted, RenameKey, SetEntry, Drafted
  <1>2. CASE ~(from = name \/ from \notin DOMAIN draft.keyed[t])
    BY <1>2 DEF Submitted, RenameKey, SetEntry, Drafted
  <1>. QED  BY <1>1, <1>2

\* Its own section gets the submitted name and no other one.
LEMMA NewName ==
  ASSUME Drafted(draft), NEW t \in Sections, NEW name, NEW members,
         NEW to \in DOMAIN Submitted(t, name, members).keyed[t], to \notin DOMAIN draft.keyed[t]
  PROVE  to = name
  <1>. DEFINE from == dialog[1].key[2]
  <1>1. CASE from = name \/ from \notin DOMAIN draft.keyed[t]
    BY <1>1 DEF Submitted, RenameKey, SetEntry, With, Drafted
  <1>2. CASE ~(from = name \/ from \notin DOMAIN draft.keyed[t])
    BY <1>2 DEF Submitted, RenameKey, SetEntry, With, Drafted
  <1>. QED  BY <1>1, <1>2

LEMMA RouteLeavesOthers ==
  ASSUME EditorInv, SubmitRoute, draft'.base = draft.base, NEW s \in Named
  PROVE  draft'.keyed[s] = draft.keyed[s]
  <1>0. "routes" \in Sections /\ s # "routes"  BY SectionsAre DEF Named
  <1>1. PICK e \in Submittable("routes") : Change(SetRoute(draft, dialog[1].key[2], e[1], e[2]))
    BY DEF SubmitRoute
  <1>2. e[1] \in RoutePrefixes  BY <1>0, SubmittedNames, SectionsAre DEF SubmitRoute
  <1>3. EditOf(SetRoute(draft, dialog[1].key[2], e[1], e[2]))  BY <1>2, SetRouteEdits DEF EditorInv
  <1>4. draft' = SetRoute(draft, dialog[1].key[2], e[1], e[2])  BY <1>1, <1>3, EditIsShown
  <1>. QED  BY <1>0, <1>4 DEF SetRoute, EditorInv, Drafted, Named

\* Renaming a group, tag or host in its dialog leaves no reference to the old
\* name behind and carries every reference over (renameKey, renameInRule,
\* renameInValue): in every reachable state of the page, with polls, saves of
\* others and merges before it, for any sets of names.
THEOREM RenamingMovesReferences == EditorSpec => RenameMovesReferences
  <1>. DEFINE Moved(s, from, to) ==
         LET was == ReferencesOf(draft, from)
             is == ReferencesOf(draft', to)
             left == ReferencesOf(draft', from)
         IN  /\ from \notin DOMAIN draft'.keyed[s]
             /\ \A part \in {"rules", "owners", "extras", "routes"} :
                  left[part] = {} /\ was[part] \subseteq is[part]
             /\ ~left["exit"] /\ (was["exit"] => is["exit"])
  <1>. DEFINE Renames(s, from, to) ==
         /\ dialog # <<>> /\ dialog[1].kind = "entry" /\ dialog[1].key = <<"name", from>>
         /\ used'.edits # used.edits /\ draft'.base = draft.base
         /\ to \in DOMAIN draft'.keyed[s]
  <1>. DEFINE AllMoved == \A s \in Named : \A from \in DOMAIN draft.keyed[s] :
                            \A to \in Names[s] \ DOMAIN draft.keyed[s] : Renames(s, from, to) => Moved(s, from, to)
  <1>1. ASSUME EditorInv, [EditorNext]_editorVars, NEW s \in Named, NEW from \in DOMAIN draft.keyed[s],
               NEW to \in Names[s] \ DOMAIN draft.keyed[s], Renames(s, from, to)
        PROVE  Moved(s, from, to)
    <2>1. EditorNext  BY <1>1 DEF editorVars
    <2>2. Drafted(draft) /\ s \in Sections  BY <1>1 DEF EditorInv, Named
    <2>3. ~SubmitRoute  BY <1>1, RouteLeavesOthers
    <2>4. PICK t \in Named : SubmitNamed(t)  BY <1>1, <2>1, <2>3, EntriesAreSubmitted
    <2>5. t \in Sections  BY DEF Named
    <2>6. PICK name, members : name \in Names[t] /\ MayHold(t, members) /\ draft' = Submitted(t, name, members)
      BY <1>1, <2>4, <2>5, SubmittedIsShown
    <2>7. t = s  BY <1>1, <2>2, <2>5, <2>6, OtherNamesStay
    <2>8. to = name  BY <1>1, <2>2, <2>6, <2>7, NewName
    <2>9. dialog[1].key[2] = from  BY <1>1
    <2>10. draft' = SetEntry(RenameKey(draft, s, from, to), s, to, members)
      BY <2>6, <2>7, <2>8, <2>9 DEF Submitted
    <2>. QED  BY <2>2, <2>6, <2>7, <2>10, RenamedReferences
  <1>2. EditorInv /\ [EditorNext]_editorVars => [AllMoved]_editorVars
    BY <1>1
  <1>. QED  BY <1>2, EditorInvariance, PTL DEF EditorSpec, RenameMovesReferences

-----------------------------------------------------------------------------
\* The server's policy and a save under way change together only when the
\* server applies the save.
AppliesSave == text' # text /\ saving # <<>> /\ saving' # saving

LEMMA AppliedSave ==
  ASSUME EditorInv, [EditorNext]_editorVars, AppliesSave
  PROVE  text = saving[1].body.base /\ text' = saving[1].body.text /\ Reviewing(saving[1])
  <1>0. text' # text /\ saving # <<>> /\ saving' # saving  BY DEF AppliesSave
  <1>1. EditorNext  BY <1>0 DEF editorVars, server
  <1>2. ASSUME NEW d, Change(d) PROVE FALSE  BY <1>0, <1>2 DEF Change, server
  <1>3. ASSUME NEW kind, NEW s, NEW key, NEW uses, NEW label, NEW enabled,
               Open(kind, s, key, uses, label, enabled)
        PROVE  FALSE
    BY <1>0, <1>3 DEF Open, server
  <1>4. ~(RulesTab \/ PolicySections \/ GroupsTab \/ TagOwnersTab \/ HostsTab)
    <2>1. ~(Edited \/ Opens)  BY <1>2, <1>3 DEF Edited, Opens
    <2>. QED  BY <2>1, RulesTabSteps, ListSectionSteps, EntryTabSteps, AutoApproversSteps, SectionsAre
              DEF PolicySections, GroupsTab, TagOwnersTab, HostsTab
  <1>5. ~(\/ StartFetch \/ ServeFetch \/ FetchArrives \/ FetchFails \/ CloseDialog \/ Discard \/ OpenSave
          \/ CloseSave \/ DoSave \/ SaveAnswered \/ ReloadAfterConflict \/ RebaseAfterConflict \/ OtherSave)
    BY <1>0 DEF StartFetch, ServeFetch, FetchArrives, FetchFails, CloseDialog, Discard, OpenSave, CloseSave,
                DoSave, SaveAnswered, ReloadAfterConflict, RebaseAfterConflict, OtherSave, server
  <1>6. ServeSave  BY <1>1, <1>4, <1>5 DEF EditorNext
  <1>7. text = saving[1].body.base /\ text' = saving[1].body.text  BY <1>0, <1>6 DEF ServeSave, server
  <1>8. Reviewing(saving[1])  BY <1>0 DEF EditorInv, SavingOK
  <1>. QED  BY <1>7, <1>8

-----------------------------------------------------------------------------
(* Numbers that nothing holds.                                             *)

LEMMA FreeNumbers ==
  ASSUME NEW held, IsFiniteSet(held), NEW n \in Nat
  PROVE  LET S == (1..(n + Cardinality(held))) \ held
         IN  /\ Cardinality(held) \in Nat /\ Places(S, n + Cardinality(held))
             /\ Cardinality(S) \in Nat /\ n <= Cardinality(S)
  <1>. DEFINE N == n + Cardinality(held)
              all == 1..N
              S == all \ held
  <1>1. Cardinality(held) \in Nat  BY FS_CardinalityType
  <1>2. N \in Nat  BY <1>1
  <1>3. IsFiniteSet(all) /\ Cardinality(all) = N  BY <1>2, Upto
  <1>4. Places(S, N)  BY DEF Places
  <1>. HIDE DEF N, all
  <1>5. IsFiniteSet(all \cap held) /\ Cardinality(all \cap held) <= Cardinality(held)
        /\ Cardinality(all \cap held) \in Nat
    BY FS_Subset, FS_CardinalityType
  <1>6. Cardinality(S) = N - Cardinality(all \cap held) /\ IsFiniteSet(S)  BY <1>3, FS_Difference
  <1>7. n <= Cardinality(S) /\ Cardinality(S) \in Nat
    <2>1. Cardinality(S) \in Nat  BY <1>6, FS_CardinalityType
    <2>. HIDE DEF S
    <2>. QED  BY <1>1, <1>5, <1>6, <2>1 DEF N
  <1>. QED  BY <1>1, <1>4, <1>7 DEF N, all

\* A new key is a number nothing else holds.
LEMMA NewKeyIsFree ==
  ASSUME NEW held, IsFiniteSet(held), NEW n \in Nat, n > 0
  PROVE  NewKey(held, n) \in Nat /\ NewKey(held, n) \notin held
  <1>. DEFINE N == n + Cardinality(held)
              S == (1..N) \ held
  <1>1. N \in Nat /\ Places(S, N) /\ n \in 1..Cardinality(S)  BY FreeNumbers
  <1>2. NthOf(S, n) \in S
    <2>. HIDE DEF S, N
    <2>. QED  BY <1>1, NthPlace
  <1>. QED  BY <1>1, <1>2 DEF NewKey

\* Two new keys made together differ.
LEMMA NewKeysGrow ==
  ASSUME NEW held, IsFiniteSet(held), NEW n \in Nat, NEW m \in Nat, 0 < n, n < m
  PROVE  NewKey(held, n) < NewKey(held, m)
  <1>. DEFINE C == Cardinality(held)
              S == (1..(n + C)) \ held
              L == (1..(m + C)) \ held
  <1>1. C \in Nat /\ Places(S, n + C) /\ n \in 1..Cardinality(S)  BY FreeNumbers
  <1>2. Places(L, m + C) /\ Cardinality(L) \in Nat /\ m <= Cardinality(L)  BY FreeNumbers
  <1>. DEFINE k == NthOf(S, n)
  <1>3. k \in S /\ Rank(S, k) = n
    <2>. HIDE DEF S, C
    <2>. QED  BY <1>1, NthPlace
  <1>. HIDE DEF k
  <1>4. k \in L /\ k \in Int /\ k <= n + C  BY <1>1, <1>3
  <1>5. Rank(L, k) = Rank(S, k)
    <2>1. \A j : j \in L /\ j <= k <=> j \in S /\ j <= k  BY <1>1, <1>4
    <2>2. {j \in L : j <= k} = {j \in S : j <= k}  BY <2>1, Zenon
    <2>. QED  BY <2>2 DEF Rank
  <1>. HIDE DEF S, L, C
  <1>6. NthOf(L, n) = k  BY <1>1, <1>2, <1>3, <1>4, <1>5, NthIs
  <1>7. NthOf(L, n) < NthOf(L, m)  BY <1>1, <1>2, NthGrows
  <1>. QED  BY <1>6, <1>7 DEF NewKey, k, S, L, C

-----------------------------------------------------------------------------
(* The lists of drafts and models.                                         *)

LabelsOrNone == Labels \cup {NoLabel}
ShownRule == [uses : Element, label : LabelsOrNone, enabled : BOOLEAN]
RuleKeys == ({"id"} \X Element) \cup ({"new"} \X Nat)
DraftRule == [key : RuleKeys, serverId : SUBSET Selectors, uses : Element, label : LabelsOrNone, enabled : BOOLEAN]
Item == [key : Nat, origin : Nat, value : Element]

\* A model shows the enabled rules of the policy it was made from, in order,
\* and rules that the policy does not have as disabled.
ShowsLive(rules, live) ==
  LiveRules(rules) = live /\ \A i \in DOMAIN rules : rules[i].enabled <=> rules[i].uses \in Values(live)

ListedModel(m) ==
  /\ m.rules \in Seq(ShownRule) /\ m.extras \in Seq(Element)
  /\ m.extras = m.hash.extras /\ ShowsLive(m.rules, m.hash.rules)
NoneOrListed(s) == s # <<>> => ListedModel(s[1])

DistinctKeys(items) == \A i, j \in DOMAIN items : items[i].key = items[j].key => i = j
ListedItems(items) == items \in Seq(Item) /\ DistinctKeys(items)

Listed(d) == d.rules \in Seq(DraftRule) /\ ListedItems(d.extras) /\ NoneOrListed(d.base)

\* The rows of acl_rule_meta.
Row(N) == [label : LabelsOrNone, enabled : BOOLEAN, pos : 1..N]
Table(rows) == \E N \in Nat : \A fp \in DOMAIN rows : fp \in Element /\ rows[fp] \in Row(N)

\* What modelState starts from, and the disabled rules that it puts back.
Shown(live, rows) == [i \in DOMAIN live |->
                        [uses |-> live[i], enabled |-> TRUE,
                         label |-> IF live[i] \in DOMAIN rows THEN rows[live[i]].label ELSE NoLabel]]
OffRows(live, rows) == {fp \in DOMAIN rows : ~rows[fp].enabled /\ fp \notin Values(live)}
OffPlaces(live, rows) == {rows[fp].pos : fp \in OffRows(live, rows)}
OffRow(live, rows, n) == CHOOSE fp \in OffRows(live, rows) : rows[fp].pos = NthOf(OffPlaces(live, rows), n)
PutBack(rules, live, rows, n) == WithDisabled(rules, OffRow(live, rows, n), rows[OffRow(live, rows, n)])

LEMMA OffRowIs ==
  ASSUME NEW live, NEW rows, NEW N \in Nat, \A fp \in DOMAIN rows : fp \in Element /\ rows[fp] \in Row(N),
         NEW n \in 1..Cardinality(OffPlaces(live, rows))
  PROVE  /\ OffRow(live, rows, n) \in OffRows(live, rows)
         /\ rows[OffRow(live, rows, n)].pos = NthOf(OffPlaces(live, rows), n)
  <1>1. Places(OffPlaces(live, rows), N)  BY DEF Places, OffPlaces, OffRows, Row
  <1>2. NthOf(OffPlaces(live, rows), n) \in OffPlaces(live, rows)  BY <1>1, NthPlace
  <1>3. \E fp \in OffRows(live, rows) : rows[fp].pos = NthOf(OffPlaces(live, rows), n)
    BY <1>2, Zenon DEF OffPlaces
  <1>. QED  BY <1>3, Zenon DEF OffRow

LEMMA PutBackListed ==
  ASSUME NEW live, NEW rows, Table(rows), NEW n \in 1..Cardinality(OffPlaces(live, rows)),
         NEW rules \in Seq(ShownRule)
  PROVE  PutBack(rules, live, rows, n) \in Seq(ShownRule)
  <1>1. PICK N \in Nat : \A fp \in DOMAIN rows : fp \in Element /\ rows[fp] \in Row(N)  BY DEF Table
  <1>. DEFINE fp == OffRow(live, rows, n)
              row == rows[fp]
              e == [uses |-> fp, label |-> row.label, enabled |-> FALSE]
              p == IF row.pos > Len(rules) THEN Len(rules) + 1 ELSE row.pos
  <1>2. fp \in DOMAIN rows  BY <1>1, OffRowIs DEF OffRows
  <1>. HIDE DEF fp
  <1>3. fp \in Element /\ row \in Row(N)  BY <1>1, <1>2
  <1>4. e \in ShownRule  BY <1>3 DEF Row, ShownRule
  <1>5. p \in 1..(Len(rules) + 1)
    <2>1. Len(rules) \in Nat /\ row.pos \in 1..N  BY <1>3 DEF Row
    <2>. HIDE DEF row
    <2>. QED  BY <2>1
  <1>6. WithDisabled(rules, fp, row) = InsertAt(rules, p, e)  BY DEF WithDisabled
  <1>. HIDE DEF e, p, row
  <1>7. InsertAt(rules, p, e) \in Seq(ShownRule)  BY <1>4, <1>5, AnInsertion
  <1>. QED  BY <1>6, <1>7 DEF PutBack, row, fp

LEMMA ShownListed ==
  ASSUME NEW live \in Seq(Element), NEW rows, Table(rows)
  PROVE  Shown(live, rows) \in Seq(ShownRule) /\ Len(Shown(live, rows)) = Len(live)
  <1>1. Len(live) \in Nat /\ DOMAIN live = 1..Len(live) /\ \A i \in 1..Len(live) : live[i] \in Element
    OBVIOUS
  <1>2. \A i \in 1..Len(live) : live[i] \in DOMAIN rows => rows[live[i]].label \in LabelsOrNone
    BY <1>1 DEF Table, Row
  <1>3. NoLabel \in LabelsOrNone  BY DEF LabelsOrNone
  <1>4. ASSUME NEW i \in 1..Len(live) PROVE Shown(live, rows)[i] \in ShownRule
    BY <1>1, <1>2, <1>3 DEF Shown, ShownRule
  <1>5. Shown(live, rows) \in [1..Len(live) -> ShownRule]  BY <1>1, <1>4 DEF Shown
  <1>. HIDE DEF Shown
  <1>. QED  BY <1>1, <1>5, AList

\* The rounds of modelState's loop over the disabled rules.
Rounds(f, live, rows) ==
  /\ f[0] = Shown(live, rows)
  /\ \A n \in 1..Cardinality(OffPlaces(live, rows)) : f[n] = PutBack(f[n - 1], live, rows, n)
  /\ ModelRules(live, rows) = f[Cardinality(OffPlaces(live, rows))]

LEMMA ModelRulesRounds ==
  ASSUME NEW live \in Seq(Element), NEW rows, Table(rows)
  PROVE  /\ Cardinality(OffPlaces(live, rows)) \in Nat
         /\ \E f \in [0..Cardinality(OffPlaces(live, rows)) -> Seq(ShownRule)] : Rounds(f, live, rows)
  <1>. DEFINE N == Cardinality(OffPlaces(live, rows))
              S == Seq(ShownRule)
              base == Shown(live, rows)
              step == [r \in S |-> [n \in 1..N |-> PutBack(r, live, rows, n)]]
              Loop(f) == f = [n \in 0..N |-> IF n = 0 THEN base ELSE PutBack(f[n - 1], live, rows, n)]
              chosen == CHOOSE f : Loop(f)
  <1>1. N \in Nat
    <2>1. PICK M \in Nat : \A fp \in DOMAIN rows : fp \in Element /\ rows[fp] \in Row(M)  BY DEF Table
    <2>2. Places(OffPlaces(live, rows), M)  BY <2>1 DEF Places, OffPlaces, OffRows, Row
    <2>. QED  BY <2>2, PlacesFinite
  <1>2. base \in S  BY ShownListed
  <1>3. step \in [S -> [1..N -> S]]  BY PutBackListed
  <1>4. \A r \in S : \A n \in 1..N : step[r][n] = PutBack(r, live, rows, n)  OBVIOUS
  <1>5. ModelRules(live, rows) = chosen[N]
    BY Zenon DEF ModelRules, Shown, PutBack, OffRow, OffPlaces, OffRows
  <1>. HIDE DEF N, base, step
  <1>6. PICK f \in [0..N -> S] : IsRun(f, base, N, step)
    <2>. HIDE DEF S
    <2>. QED  BY <1>1, <1>2, <1>3, Iteration
  <1>7. \A n \in 1..N : n - 1 \in 0..N /\ f[n - 1] \in S /\ f[n] = PutBack(f[n - 1], live, rows, n)
    <2>1. \A n \in 1..N : n - 1 \in 0..N  BY <1>1
    <2>. HIDE DEF S
    <2>. QED  BY <1>4, <1>6, <2>1 DEF IsRun
  <1>8. Loop(f)
    <2>1. \A n \in 0..N : f[n] = IF n = 0 THEN base ELSE PutBack(f[n - 1], live, rows, n)
      <3>1. \A n \in 0..N : n = 0 \/ n \in 1..N  BY <1>1
      <3>2. f[0] = base  BY <1>6 DEF IsRun
      <3>. QED  BY <1>7, <3>1, <3>2
    <2>. HIDE DEF S
    <2>. QED  BY <1>6, <2>1
  <1>9. Loop(chosen)  BY <1>8, Zenon
  <1>. HIDE DEF chosen
  <1>10. DOMAIN chosen = 0..N /\ \A n \in 0..N : chosen[n] = IF n = 0 THEN base ELSE PutBack(chosen[n - 1], live, rows, n)
    BY <1>9
  <1>. DEFINE T == {n \in Nat : n <= N => chosen[n] \in S}
  <1>11. Nat \subseteq T
    <2>1. 0 \in T  BY <1>1, <1>2, <1>10
    <2>2. ASSUME NEW n \in Nat, n \in T PROVE n + 1 \in T
      <3>1. SUFFICES ASSUME n + 1 <= N PROVE chosen[n + 1] \in S  OBVIOUS
      <3>2. chosen[n] \in S /\ n + 1 \in 1..N  BY <1>1, <2>2, <3>1
      <3>3. chosen[n + 1] = PutBack(chosen[n], live, rows, n + 1)
        <4>1. n + 1 \in 0..N /\ n + 1 # 0 /\ (n + 1) - 1 = n  BY <1>1, <3>1
        <4>. QED  BY <1>10, <4>1
      <3>. QED  BY <3>2, <3>3, PutBackListed DEF N
    <2>. HIDE DEF T
    <2>. QED  BY <2>1, <2>2, AllNumbers
  <1>12. chosen \in [0..N -> S]
    <2>1. \A n \in 0..N : chosen[n] \in S  BY <1>1, <1>11
    <2>2. chosen = [n \in 0..N |-> chosen[n]]  BY <1>9
    <2>. HIDE DEF S
    <2>. QED  BY <2>1, <2>2
  <1>13. Rounds(chosen, live, rows)
    <2>1. chosen[0] = base  BY <1>1, <1>10
    <2>2. ASSUME NEW n \in 1..N PROVE chosen[n] = PutBack(chosen[n - 1], live, rows, n)
      <3>1. n \in 0..N /\ n # 0  BY <1>1
      <3>. QED  BY <1>10, <3>1
    <2>. QED  BY <1>5, <2>1, <2>2 DEF Rounds, N, base
  <1>. QED  BY <1>1, <1>12, <1>13 DEF N

LEMMA ModelRulesListed ==
  ASSUME NEW live \in Seq(Element), NEW rows, Table(rows)
  PROVE  ModelRules(live, rows) \in Seq(ShownRule)
  <1>. DEFINE N == Cardinality(OffPlaces(live, rows))
  <1>1. N \in Nat  BY ModelRulesRounds
  <1>2. PICK f \in [0..N -> Seq(ShownRule)] : Rounds(f, live, rows)  BY ModelRulesRounds
  <1>3. N \in 0..N  BY <1>1
  <1>. HIDE DEF N
  <1>4. f[N] \in Seq(ShownRule)  BY <1>2, <1>3
  <1>. QED  BY <1>2, <1>4 DEF Rounds, N

\* A disabled rule that is put back leaves the enabled ones what they are.
LEMMA OffStaysOff ==
  ASSUME NEW live, NEW rules \in Seq(ShownRule), ShowsLive(rules, live), NEW p \in 1..(Len(rules) + 1),
         NEW e \in ShownRule, ~e.enabled, e.uses \notin Values(live)
  PROVE  ShowsLive(Inserted(rules, p, e), live)
  <1>. DEFINE N == Len(rules)
              x == Inserted(rules, p, e)
              On == {r \in ShownRule : r.enabled}
  <1>1. N \in Nat /\ DOMAIN rules = 1..N /\ p \in Nat /\ \A i \in 1..N : rules[i] \in ShownRule  OBVIOUS
  <1>2. DOMAIN x = 1..(N + 1) /\ \A i \in 1..(N + 1) : x[i] = IF i < p THEN rules[i] ELSE IF i = p THEN e ELSE rules[i - 1]
    BY DEF Inserted
  <1>. HIDE DEF x
  <1>3. ASSUME NEW i \in 1..(N + 1)
        PROVE  x[i] \in ShownRule /\ (x[i].enabled <=> x[i].uses \in Values(live))
    <2>1. CASE i < p
      <3>1. i \in 1..N /\ x[i] = rules[i]  BY <1>1, <1>2, <2>1
      <3>. QED  BY <1>1, <3>1 DEF ShowsLive
    <2>2. CASE i = p  BY <1>2, <2>2
    <2>3. CASE i > p
      <3>1. i - 1 \in 1..N /\ x[i] = rules[i - 1]  BY <1>1, <1>2, <2>3
      <3>. QED  BY <1>1, <3>1 DEF ShowsLive
    <2>. QED  BY <1>1, <2>1, <2>2, <2>3
  <1>4. {i \in DOMAIN x : x[i].enabled} = {i \in DOMAIN x : x[i] \in On}  BY <1>2, <1>3
  <1>5. {i \in DOMAIN rules : rules[i].enabled} = {i \in DOMAIN rules : rules[i] \in On}  BY <1>1
  <1>6. Among(x, On) = Among(rules, On)
    <2>1. e \notin On  OBVIOUS
    <2>. HIDE DEF On
    <2>. QED  BY <2>1, AmongInserted DEF x
  <1>. HIDE DEF On
  <1>7. LiveRules(x) = LiveRules(rules)  BY <1>4, <1>5, <1>6 DEF LiveRules, Among
  <1>. QED  BY <1>2, <1>3, <1>7 DEF ShowsLive, x

LEMMA PutBackShowsLive ==
  ASSUME NEW live, NEW rows, Table(rows), NEW n \in 1..Cardinality(OffPlaces(live, rows)),
         NEW rules \in Seq(ShownRule), ShowsLive(rules, live)
  PROVE  ShowsLive(PutBack(rules, live, rows, n), live)
  <1>1. PICK N \in Nat : \A fp \in DOMAIN rows : fp \in Element /\ rows[fp] \in Row(N)  BY DEF Table
  <1>. DEFINE fp == OffRow(live, rows, n)
              row == rows[fp]
              e == [uses |-> fp, label |-> row.label, enabled |-> FALSE]
              p == IF row.pos > Len(rules) THEN Len(rules) + 1 ELSE row.pos
  <1>2. fp \in DOMAIN rows /\ fp \notin Values(live)  BY <1>1, OffRowIs DEF OffRows
  <1>. HIDE DEF fp
  <1>3. fp \in Element /\ row \in Row(N)  BY <1>1, <1>2
  <1>4. e \in ShownRule /\ ~e.enabled /\ e.uses \notin Values(live)  BY <1>2, <1>3 DEF Row, ShownRule
  <1>5. p \in 1..(Len(rules) + 1)
    <2>1. Len(rules) \in Nat /\ row.pos \in 1..N  BY <1>3 DEF Row
    <2>. HIDE DEF row
    <2>. QED  BY <2>1
  <1>6. PutBack(rules, live, rows, n) = InsertAt(rules, p, e)  BY DEF PutBack, WithDisabled, fp
  <1>. HIDE DEF e, p, row
  <1>7. InsertAt(rules, p, e) = Inserted(rules, p, e)  BY <1>4, <1>5, AnInsertion
  <1>. QED  BY <1>4, <1>5, <1>6, <1>7, OffStaysOff

LEMMA ShownShowsLive ==
  ASSUME NEW live \in Seq(Element), NEW rows, Table(rows)
  PROVE  ShowsLive(Shown(live, rows), live)
  <1>. DEFINE x == Shown(live, rows)
  <1>1. x \in Seq(ShownRule) /\ Len(x) = Len(live) /\ Len(live) \in Nat /\ DOMAIN live = 1..Len(live)
    BY ShownListed
  <1>2. DOMAIN x = DOMAIN live /\ \A i \in DOMAIN live : x[i].uses = live[i] /\ x[i].enabled  BY DEF Shown
  <1>. HIDE DEF x
  <1>3. {i \in DOMAIN x : x[i].enabled} = 1..Len(x)  BY <1>1, <1>2
  <1>4. Sublist(x, {i \in DOMAIN x : x[i].enabled}) = x  BY <1>1, <1>3, WholeList
  <1>5. LiveRules(x) = [i \in DOMAIN live |-> live[i]]
    <2>1. LiveRules(x) = [i \in DOMAIN x |-> x[i].uses]  BY <1>4 DEF LiveRules
    <2>. QED  BY <1>2, <2>1
  <1>6. live = [i \in DOMAIN live |-> live[i]]  OBVIOUS
  <1>. QED  BY <1>2, <1>5, <1>6 DEF ShowsLive, Values, x

LEMMA ModelShowsLive ==
  ASSUME NEW live \in Seq(Element), NEW rows, Table(rows)
  PROVE  ShowsLive(ModelRules(live, rows), live)
  <1>. DEFINE N == Cardinality(OffPlaces(live, rows))
  <1>1. N \in Nat  BY ModelRulesRounds
  <1>2. PICK f \in [0..N -> Seq(ShownRule)] : Rounds(f, live, rows)  BY ModelRulesRounds
  <1>. DEFINE T == {n \in Nat : n <= N => ShowsLive(f[n], live)}
  <1>3. 0 \in T  BY <1>2, ShownShowsLive DEF Rounds
  <1>4. ASSUME NEW n \in Nat, n \in T PROVE n + 1 \in T
    <2>1. SUFFICES ASSUME n + 1 <= N PROVE ShowsLive(f[n + 1], live)  OBVIOUS
    <2>2. n \in 0..N /\ n + 1 \in 1..N /\ (n + 1) - 1 = n /\ ShowsLive(f[n], live)  BY <1>1, <1>4, <2>1
    <2>3. f[n] \in Seq(ShownRule) /\ f[n + 1] = PutBack(f[n], live, rows, n + 1)  BY <1>2, <2>2 DEF Rounds
    <2>. HIDE DEF T
    <2>. QED  BY <2>2, <2>3, PutBackShowsLive
  <1>. HIDE DEF T
  <1>5. N \in T  BY <1>1, <1>3, <1>4, AllNumbers
  <1>. QED  BY <1>1, <1>2, <1>5 DEF Rounds, T

-----------------------------------------------------------------------------
(* The rows of acl_rule_meta that a save writes.                           *)

Kept(rules) == {i \in DOMAIN rules : ~rules[i].enabled \/ rules[i].label # NoLabel}
FinalPlace(rules, fp) == CHOOSE i \in Kept(rules) : /\ rules[i].uses = fp
                                                 /\ \A j \in Kept(rules) : rules[j].uses = fp => j <= i

LEMMA MetaRowsAre ==
  ASSUME NEW rules
  PROVE  /\ DOMAIN MetaRows(rules) = {rules[i].uses : i \in Kept(rules)}
         /\ \A i \in Kept(rules) : MetaRows(rules)[rules[i].uses] =
              [label |-> rules[FinalPlace(rules, rules[i].uses)].label,
               enabled |-> rules[FinalPlace(rules, rules[i].uses)].enabled,
               pos |-> FinalPlace(rules, rules[i].uses)]
  BY Zenon DEF MetaRows, Kept, FinalPlace

LEMMA FinalPlaceIs ==
  ASSUME NEW rules \in Seq(DraftRule), NEW i \in Kept(rules)
  PROVE  FinalPlace(rules, rules[i].uses) \in Kept(rules) /\ rules[FinalPlace(rules, rules[i].uses)].uses = rules[i].uses
  <1>. DEFINE fp == rules[i].uses
              S == {j \in Kept(rules) : rules[j].uses = fp}
  <1>1. Len(rules) \in Nat /\ Places(S, Len(rules))  BY DEF Places, Kept
  <1>2. i \in S  OBVIOUS
  <1>3. PICK k \in S : \A j \in S : j <= k
    <2>. HIDE DEF S
    <2>. QED  BY <1>1, <1>2, GreatestPlace
  <1>4. \E k2 \in Kept(rules) : rules[k2].uses = fp /\ \A j \in Kept(rules) : rules[j].uses = fp => j <= k2
    BY <1>3
  <1>. QED  BY <1>4, Zenon DEF FinalPlace

LEMMA MetaRowsTable ==
  ASSUME NEW rules \in Seq(DraftRule)
  PROVE  Table(MetaRows(rules))
  <1>. DEFINE N == Len(rules)
  <1>1. N \in Nat /\ DOMAIN rules = 1..N /\ \A i \in 1..N : rules[i] \in DraftRule  OBVIOUS
  <1>2. \A i \in Kept(rules) : i \in 1..N /\ rules[i] \in DraftRule  BY <1>1 DEF Kept
  <1>3. ASSUME NEW i \in Kept(rules)
        PROVE  rules[i].uses \in Element /\ MetaRows(rules)[rules[i].uses] \in Row(N)
    <2>. DEFINE k == FinalPlace(rules, rules[i].uses)
    <2>1. k \in Kept(rules)  BY FinalPlaceIs
    <2>2. MetaRows(rules)[rules[i].uses] = [label |-> rules[k].label, enabled |-> rules[k].enabled, pos |-> k]
      BY MetaRowsAre
    <2>. HIDE DEF k
    <2>. QED  BY <1>2, <2>1, <2>2 DEF Row, DraftRule
  <1>4. \A fp \in DOMAIN MetaRows(rules) : fp \in Element /\ MetaRows(rules)[fp] \in Row(N)
    <2>1. SUFFICES ASSUME NEW fp \in DOMAIN MetaRows(rules) PROVE fp \in Element /\ MetaRows(rules)[fp] \in Row(N)
      OBVIOUS
    <2>2. PICK i \in Kept(rules) : fp = rules[i].uses
      <3>1. DOMAIN MetaRows(rules) = {rules[i].uses : i \in Kept(rules)}  BY MetaRowsAre
      <3>. QED  BY <3>1, Zenon
    <2>. QED  BY <1>3, <2>2
  <1>. QED  BY <1>1, <1>4 DEF Table

LEMMA LiveRulesAre ==
  ASSUME NEW rules \in Seq(DraftRule), NEW on, on = {i \in DOMAIN rules : rules[i].enabled}
  PROVE  /\ LiveRules(rules) \in Seq(Element) /\ Places(on, Len(rules))
         /\ Len(LiveRules(rules)) = Cardinality(on) /\ Cardinality(on) \in Nat
         /\ \A n \in 1..Cardinality(on) : NthOf(on, n) \in on /\ LiveRules(rules)[n] = rules[NthOf(on, n)].uses
  <1>. DEFINE live == Sublist(rules, on)
              C == Cardinality(on)
              L == LiveRules(rules)
  <1>1. Len(rules) \in Nat /\ DOMAIN rules = 1..Len(rules)  OBVIOUS
  <1>2. Places(on, Len(rules))  BY <1>1 DEF Places
  <1>3. live \in Seq(DraftRule) /\ Len(live) = C /\ C \in Nat
        /\ \A n \in 1..C : live[n] = rules[NthOf(on, n)] /\ NthOf(on, n) \in on
    BY <1>2, ASublist
  <1>4. L = [i \in DOMAIN live |-> live[i].uses]  BY DEF LiveRules
  <1>. HIDE DEF live, C, L
  <1>5. DOMAIN live = 1..C /\ \A n \in 1..C : live[n] \in DraftRule  BY <1>3
  <1>6. L \in [1..C -> Element]  BY <1>4, <1>5 DEF DraftRule
  <1>7. L \in Seq(Element) /\ Len(L) = C  BY <1>3, <1>6, AList
  <1>. QED  BY <1>2, <1>3, <1>4, <1>5, <1>7 DEF L, C

-----------------------------------------------------------------------------
(* What the server shows of the rules it was sent.                         *)

\* The places of the rules that are shown after n rounds.
PlacedAfter(rules, on, off, n) == on \cup {j \in off : Rank(off, j) <= n}

LEMMA SavedRulesShown ==
  ASSUME NEW rules \in Seq(DraftRule), AllDifferent([i \in DOMAIN rules |-> rules[i].uses])
  PROVE  ModelRules(LiveRules(rules), MetaRows(rules)) = Content(rules)
  <1>. DEFINE L == Len(rules)
              live == LiveRules(rules)
              rows == MetaRows(rules)
              C == Content(rules)
              on == {i \in DOMAIN rules : rules[i].enabled}
              off == {i \in DOMAIN rules : ~rules[i].enabled}
              N == Cardinality(off)
  <1>1. L \in Nat /\ DOMAIN rules = 1..L /\ \A i \in 1..L : rules[i] \in DraftRule  OBVIOUS
  <1>2. \A i, j \in 1..L : rules[i].uses = rules[j].uses => i = j
    BY <1>1 DEF AllDifferent
  <1>3. C \in Seq(ShownRule) /\ Len(C) = L
        /\ \A i \in 1..L : C[i] = [uses |-> rules[i].uses, label |-> rules[i].label, enabled |-> rules[i].enabled]
    <2>1. C = [i \in 1..L |-> [uses |-> rules[i].uses, label |-> rules[i].label, enabled |-> rules[i].enabled]]
      BY <1>1 DEF Content
    <2>2. C \in [1..L -> ShownRule]  BY <1>1, <2>1 DEF DraftRule, ShownRule
    <2>. HIDE DEF C
    <2>. QED  BY <1>1, <2>1, <2>2, AList
  <1>4. /\ live \in Seq(Element) /\ Places(on, L) /\ Len(live) = Cardinality(on) /\ Cardinality(on) \in Nat
        /\ \A n \in 1..Cardinality(on) : NthOf(on, n) \in on /\ live[n] = rules[NthOf(on, n)].uses
    BY LiveRulesAre
  <1>5. Places(off, L)  BY <1>1 DEF Places
  <1>6. Table(rows)  BY MetaRowsTable
  <1>7. \A i \in 1..L : i \in Kept(rules) <=> ~rules[i].enabled \/ rules[i].label # NoLabel
    BY <1>1 DEF Kept
  <1>8. \A i \in Kept(rules) : i \in 1..L  BY <1>1 DEF Kept
  <1>9. \A i \in Kept(rules) : /\ rows[rules[i].uses].label = rules[i].label
                             /\ rows[rules[i].uses].enabled = rules[i].enabled
                             /\ rows[rules[i].uses].pos = i
    <2>1. \A i \in Kept(rules) : FinalPlace(rules, rules[i].uses) = i  BY <1>2, <1>8, FinalPlaceIs
    <2>2. ASSUME NEW i \in Kept(rules)
          PROVE  /\ rows[rules[i].uses].label = rules[i].label
                 /\ rows[rules[i].uses].enabled = rules[i].enabled
                 /\ rows[rules[i].uses].pos = i
      <3>1. FinalPlace(rules, rules[i].uses) = i  BY <2>1
      <3>2. rows[rules[i].uses] = [label |-> rules[i].label, enabled |-> rules[i].enabled, pos |-> i]
        BY <3>1, MetaRowsAre
      <3>. HIDE DEF rows
      <3>. QED  BY <3>2
    <2>. HIDE DEF rows
    <2>. QED  BY <2>2
  <1>10. DOMAIN rows = {rules[i].uses : i \in Kept(rules)}  BY MetaRowsAre
  <1>11. \A i \in on : i \in 1..L /\ rules[i].enabled /\ i \notin off  BY <1>1
  <1>12. \A i \in off : i \in 1..L /\ ~rules[i].enabled /\ i \in Kept(rules) /\ i \notin on  BY <1>1, <1>7
  <1>13. \A i \in 1..L : i \in on \/ i \in off  BY <1>1
  <1>. HIDE DEF live, rows, C, on, off
  <1>14. \A i \in on : rules[i].uses \in Values(live)
    <2>1. SUFFICES ASSUME NEW i \in on PROVE rules[i].uses \in Values(live)  OBVIOUS
    <2>2. Rank(on, i) \in 1..Cardinality(on) /\ NthOf(on, Rank(on, i)) = i  BY <1>1, <1>4, NthIs
    <2>3. live[Rank(on, i)] = rules[i].uses /\ Rank(on, i) \in DOMAIN live  BY <1>4, <2>2
    <2>. QED  BY <2>3 DEF Values
  <1>15. \A fp \in Values(live) : \E i \in on : fp = rules[i].uses
    BY <1>4 DEF Values
  <1>16. OffRows(live, rows) = {rules[i].uses : i \in off}
    <2>1. ASSUME NEW fp \in OffRows(live, rows) PROVE fp \in {rules[i].uses : i \in off}
      <3>1. PICK i \in Kept(rules) : fp = rules[i].uses  BY <1>10 DEF OffRows
      <3>2. ~rules[i].enabled  BY <1>9, <3>1 DEF OffRows
      <3>3. i \in off  BY <1>8, <1>11, <1>13, <3>2
      <3>. QED  BY <3>1, <3>3
    <2>2. ASSUME NEW i \in off PROVE rules[i].uses \in OffRows(live, rows)
      <3>0. i \in Kept(rules) /\ ~rules[i].enabled  BY <1>12
      <3>1. rules[i].uses \in DOMAIN rows /\ ~rows[rules[i].uses].enabled  BY <1>9, <1>10, <3>0
      <3>2. rules[i].uses \notin Values(live)  BY <1>2, <1>11, <1>12, <1>15
      <3>. QED  BY <3>1, <3>2 DEF OffRows
    <2>. QED  BY <2>1, <2>2
  <1>17. OffPlaces(live, rows) = off
    <2>1. \A i \in off : rows[rules[i].uses].pos = i  BY <1>9, <1>12
    <2>. QED  BY <1>16, <2>1 DEF OffPlaces
  <1>18. N \in Nat  BY <1>1, <1>5, PlacesFinite
  <1>19. PICK f \in [0..N -> Seq(ShownRule)] : Rounds(f, live, rows)
    BY <1>4, <1>6, <1>17, ModelRulesRounds
  <1>. DEFINE at(n) == PlacedAfter(rules, on, off, n)
              Same(n) == f[n] = Sublist(C, at(n))
              T == {n \in Nat : n <= N => Same(n)}
  <1>20. \A n : Places(at(n), L)  BY <1>4, <1>5 DEF Places, PlacedAfter
  <1>21. Same(0)
    <2>1. at(0) = on
      <3>1. \A j \in off : ~(Rank(off, j) <= 0)  BY <1>1, <1>5, NthIs
      <3>. QED  BY <3>1 DEF PlacedAfter
    <2>2. Sublist(C, on) = [n \in 1..Cardinality(on) |-> C[NthOf(on, n)]]  BY DEF Sublist
    <2>3. ASSUME NEW n \in 1..Cardinality(on) PROVE Shown(live, rows)[n] = C[NthOf(on, n)]
      <3>. DEFINE i == NthOf(on, n)
      <3>1. i \in on /\ live[n] = rules[i].uses /\ n \in DOMAIN live  BY <1>4
      <3>. HIDE DEF i
      <3>2. i \in 1..L /\ rules[i].enabled = TRUE
        <4>1. i \in 1..L /\ rules[i].enabled  BY <1>11, <3>1
        <4>. QED  BY <1>1, <4>1 DEF DraftRule
      <3>. SUFFICES Shown(live, rows)[n] = C[i]  BY DEF i
      <3>3. CASE i \in Kept(rules)
        <4>1. live[n] \in DOMAIN rows /\ rows[live[n]].label = rules[i].label  BY <1>9, <1>10, <3>1, <3>3
        <4>2. Shown(live, rows)[n] = [uses |-> rules[i].uses, enabled |-> TRUE, label |-> rules[i].label]
          BY <3>1, <4>1 DEF Shown
        <4>. QED  BY <1>3, <3>2, <4>2
      <3>4. CASE i \notin Kept(rules)
        <4>1. rules[i].label = NoLabel  BY <1>7, <3>2, <3>4
        <4>2. live[n] \notin DOMAIN rows  BY <1>2, <1>8, <1>10, <3>1, <3>2, <3>4
        <4>3. Shown(live, rows)[n] = [uses |-> rules[i].uses, enabled |-> TRUE, label |-> rules[i].label]
          BY <3>1, <4>1, <4>2 DEF Shown
        <4>. QED  BY <1>3, <3>2, <4>3
      <3>. QED  BY <3>3, <3>4
    <2>4. DOMAIN live = 1..Cardinality(on)  BY <1>4
    <2>5. Shown(live, rows) = [n \in 1..Cardinality(on) |-> Shown(live, rows)[n]]  BY <2>4 DEF Shown
    <2>6. Shown(live, rows) = Sublist(C, on)
      <3>. HIDE DEF Shown
      <3>. QED  BY <2>2, <2>3, <2>5
    <2>. QED  BY <1>19, <2>1, <2>6 DEF Rounds
  <1>22. ASSUME NEW n \in Nat, n + 1 <= N, Same(n) PROVE Same(n + 1)
    <2>. DEFINE p == NthOf(off, n + 1)
    <2>1. n + 1 \in 1..N  BY <1>18, <1>22
    <2>2. p \in off /\ Rank(off, p) = n + 1  BY <1>1, <1>5, <2>1, NthPlace
    <2>. HIDE DEF p
    <2>3. p \in 1..L /\ ~rules[p].enabled /\ p \in Kept(rules) /\ p \notin on  BY <1>12, <2>2
    <2>4. p \notin at(n)  BY <2>2, <2>3 DEF PlacedAfter
    <2>5. ASSUME NEW i \in 1..(p - 1) PROVE i \in at(n)
      <3>1. i \in 1..L /\ i < p  BY <1>1, <2>3
      <3>2. CASE i \in off
        <4>1. Rank(off, i) < Rank(off, p) /\ Rank(off, i) \in Nat
          BY <1>1, <1>5, <2>2, <3>1, <3>2, RankGrows, RankIsNumber
        <4>. QED  BY <2>2, <3>2, <4>1 DEF PlacedAfter
      <3>. QED  BY <1>13, <3>1, <3>2 DEF PlacedAfter
    <2>6. at(n + 1) = at(n) \cup {p}
      <3>1. ASSUME NEW j \in off PROVE Rank(off, j) <= n + 1 <=> Rank(off, j) <= n \/ j = p
        <4>1. Rank(off, j) \in Nat /\ NthOf(off, Rank(off, j)) = j  BY <1>1, <1>5, RankIsNumber, NthIs
        <4>2. Rank(off, j) = n + 1 => j = p  BY <4>1 DEF p
        <4>. QED  BY <2>2, <4>1, <4>2
      <3>. QED  BY <2>2, <3>1 DEF PlacedAfter
    <2>7. /\ p \in 1..(Cardinality(at(n)) + 1)
          /\ Sublist(C, at(n) \cup {p}) = InsertAt(Sublist(C, at(n)), p, C[p])
      <3>. HIDE DEF at
      <3>. QED  BY <1>3, <1>20, <2>3, <2>4, <2>5, OneMorePlace
    <2>8. Len(f[n]) = Cardinality(at(n)) /\ Cardinality(at(n)) \in Nat
      <3>. HIDE DEF at
      <3>. QED  BY <1>3, <1>20, <1>22, ASublist
    <2>. DEFINE fp == OffRow(live, rows, n + 1)
    <2>9. fp = rules[p].uses
      <3>1. PICK M \in Nat : \A x \in DOMAIN rows : x \in Element /\ rows[x] \in Row(M)  BY <1>6 DEF Table
      <3>2. fp \in OffRows(live, rows) /\ rows[fp].pos = p  BY <1>17, <2>1, <3>1, OffRowIs DEF p
      <3>. HIDE DEF fp
      <3>3. PICK i \in off : fp = rules[i].uses  BY <1>16, <3>2
      <3>4. rows[fp].pos = i  BY <1>9, <1>12, <3>3
      <3>. QED  BY <3>2, <3>3, <3>4
    <2>. HIDE DEF fp
    <2>10. rows[fp].pos = p /\ rows[fp].label = rules[p].label  BY <1>9, <2>3, <2>9
    <2>11. C[p] = [uses |-> fp, label |-> rows[fp].label, enabled |-> FALSE]
      BY <1>1, <1>3, <2>3, <2>9, <2>10 DEF DraftRule
    <2>12. (IF rows[fp].pos > Len(f[n]) THEN Len(f[n]) + 1 ELSE rows[fp].pos) = p
      <3>1. p \in Int /\ p <= Len(f[n]) + 1  BY <2>7, <2>8
      <3>. QED  BY <2>8, <2>10, <3>1
    <2>13. WithDisabled(f[n], fp, rows[fp]) = InsertAt(f[n], p, C[p])
      BY <2>11, <2>12 DEF WithDisabled
    <2>14. f[n + 1] = WithDisabled(f[n], fp, rows[fp])
      <3>1. f[n + 1] = PutBack(f[n], live, rows, n + 1)  BY <1>17, <1>19, <2>1 DEF Rounds
      <3>. QED  BY <3>1 DEF PutBack, fp
    <2>. HIDE DEF at
    <2>. QED  BY <1>22, <2>6, <2>7, <2>13, <2>14
  <1>. HIDE DEF Same
  <1>23. Nat \subseteq T
    <2>1. 0 \in T  BY <1>21
    <2>2. ASSUME NEW n \in Nat, n \in T PROVE n + 1 \in T  BY <1>18, <1>22, <2>2
    <2>. HIDE DEF T
    <2>. QED  BY <2>1, <2>2, AllNumbers
  <1>24. Same(N)  BY <1>18, <1>23
  <1>25. at(N) = 1..L
    <2>1. \A j \in off : Rank(off, j) <= N  BY <1>1, <1>5, RankIsNumber
    <2>. QED  BY <1>11, <1>12, <1>13, <2>1 DEF PlacedAfter
  <1>26. ModelRules(live, rows) = f[N]  BY <1>17, <1>19 DEF Rounds
  <1>27. Sublist(C, 1..L) = C  BY <1>3, WholeList
  <1>. QED  BY <1>24, <1>25, <1>26, <1>27 DEF Same, live, rows, C

-----------------------------------------------------------------------------
(* Edits keep the lists what they are.                                     *)

LEMMA HeldIsFinite == IsFiniteSet(Held)
  <1>1. \A x : IsFiniteSet({x})  BY FS_Singleton
  <1>2. Held = {} \/ \E x : Held = {x}  BY DEF Held
  <1>. QED  BY <1>1, <1>2, FS_EmptySet

LEMMA NumbersFinite ==
  ASSUME NEW rules \in Seq(DraftRule)
  PROVE  IsFiniteSet(Numbers(rules))
  <1>. DEFINE S == {j \in DOMAIN rules : rules[j].key[1] = "new"}
              f == [i \in S |-> rules[i].key[2]]
  <1>1. Len(rules) \in Nat /\ Places(S, Len(rules))  BY DEF Places
  <1>2. IsFiniteSet(S)
    <2>. HIDE DEF S
    <2>. QED  BY <1>1, PlacesFinite
  <1>3. IsFiniteSet({f[i] : i \in S})
    <2>. HIDE DEF S, f
    <2>. QED  BY <1>2, FiniteImage
  <1>4. {f[i] : i \in S} = Numbers(rules)  BY DEF Numbers
  <1>. QED  BY <1>3, <1>4

LEMMA ExtraKeysFinite ==
  ASSUME NEW items \in Seq(Item), NEW S, S \subseteq DOMAIN items
  PROVE  IsFiniteSet({items[i].key : i \in S})
  <1>. DEFINE f == [i \in S |-> items[i].key]
  <1>1. Len(items) \in Nat /\ Places(S, Len(items))  BY DEF Places
  <1>2. IsFiniteSet(S)  BY <1>1, PlacesFinite
  <1>3. IsFiniteSet({f[i] : i \in S})
    <2>. HIDE DEF f
    <2>. QED  BY <1>2, FiniteImage
  <1>4. {f[i] : i \in S} = {items[i].key : i \in S}  OBVIOUS
  <1>. QED  BY <1>3, <1>4

\* The other fields of a draft do not matter.
LEMMA RulesOnly ==
  ASSUME NEW d, Drafted(d), Listed(d), NEW x \in Seq(DraftRule)
  PROVE  Listed([d EXCEPT !.rules = x])
  BY DEF Drafted, Listed

LEMMA ExtrasOnly ==
  ASSUME NEW d, Drafted(d), Listed(d), NEW x, ListedItems(x)
  PROVE  Listed([d EXCEPT !.extras = x])
  BY DEF Drafted, Listed

LEMMA OthersOnly ==
  ASSUME NEW d, Drafted(d), Listed(d), NEW x
  PROVE  /\ Listed([d EXCEPT !.keyed = x]) /\ Listed([d EXCEPT !.exitNode = x])
         /\ Listed([d EXCEPT !.randomize = x])
  BY DEF Drafted, Listed

LEMMA RulesMapped ==
  ASSUME NEW rules \in Seq(DraftRule), NEW f, f = [i \in DOMAIN rules |-> f[i]],
         \A i \in DOMAIN rules : f[i] \in DraftRule
  PROVE  f \in Seq(DraftRule)
  <1>1. Len(rules) \in Nat /\ DOMAIN rules = 1..Len(rules)  OBVIOUS
  <1>2. f \in [1..Len(rules) -> DraftRule]  BY <1>1
  <1>. QED  BY <1>1, <1>2, AList

\* Contents may change, keys may not.
LEMMA ItemsMapped ==
  ASSUME NEW items, ListedItems(items), NEW f, f = [i \in DOMAIN items |-> f[i]],
         \A i \in DOMAIN items : f[i] \in Item /\ f[i].key = items[i].key
  PROVE  ListedItems(f)
  <1>1. items \in Seq(Item)  BY DEF ListedItems
  <1>2. Len(items) \in Nat /\ DOMAIN items = 1..Len(items)  BY <1>1
  <1>3. f \in [1..Len(items) -> Item] /\ DOMAIN f = DOMAIN items  BY <1>2
  <1>4. f \in Seq(Item)  BY <1>2, <1>3, AList
  <1>. QED  BY <1>3, <1>4 DEF ListedItems, DistinctKeys

LEMMA RulesPicked ==
  ASSUME NEW rules \in Seq(DraftRule), NEW at, at \subseteq DOMAIN rules
  PROVE  Sublist(rules, at) \in Seq(DraftRule)
  <1>1. Places(at, Len(rules))  BY DEF Places
  <1>. QED  BY <1>1, ASublist

LEMMA ItemsPicked ==
  ASSUME NEW items, ListedItems(items), NEW at, at \subseteq DOMAIN items
  PROVE  /\ ListedItems(Sublist(items, at))
         /\ \A n \in DOMAIN Sublist(items, at) : \E i \in at : Sublist(items, at)[n] = items[i]
  <1>. DEFINE C == Cardinality(at)
              x == Sublist(items, at)
  <1>1. items \in Seq(Item)  BY DEF ListedItems
  <1>2. Len(items) \in Nat /\ Places(at, Len(items))  BY <1>1 DEF Places
  <1>3. x \in Seq(Item) /\ Len(x) = C /\ C \in Nat
        /\ \A n \in 1..C : x[n] = items[NthOf(at, n)] /\ NthOf(at, n) \in at
    BY <1>1, <1>2, ASublist
  <1>. HIDE DEF x
  <1>4. DOMAIN x = 1..C  BY <1>3
  <1>5. ASSUME NEW n \in 1..C, NEW m \in 1..C, x[n].key = x[m].key PROVE n = m
    <2>1. items[NthOf(at, n)].key = items[NthOf(at, m)].key  BY <1>3, <1>5
    <2>2. NthOf(at, n) = NthOf(at, m)  BY <1>3, <2>1 DEF ListedItems, DistinctKeys
    <2>3. Rank(at, NthOf(at, n)) = n /\ Rank(at, NthOf(at, m)) = m
      <3>. HIDE DEF C
      <3>. QED  BY <1>2, NthPlace DEF C
    <2>. QED  BY <2>2, <2>3
  <1>. HIDE DEF C
  <1>6. ListedItems(x)  BY <1>3, <1>4, <1>5 DEF ListedItems, DistinctKeys
  <1>. QED  BY <1>3, <1>4, <1>6 DEF x

LEMMA SwapElement ==
  ASSUME NEW S \in Element, NEW from, NEW to \in Selectors
  PROVE  Swap(S, from, to) \in Element
  <1>1. Swap(S, from, to) \subseteq Selectors  BY DEF Swap, Element
  <1>2. S # {}  BY DEF Element
  <1>3. Swap(S, from, to) # {}  BY <1>2 DEF Swap
  <1>. QED  BY <1>1, <1>3 DEF Element

-----------------------------------------------------------------------------
(* One lemma per kind of edit.                                             *)

LEMMA NewRuleKey ==
  ASSUME NEW rules \in Seq(DraftRule), NEW held, IsFiniteSet(held)
  PROVE  <<"new", NewKey(Numbers(rules) \cup held, 1)>> \in RuleKeys
  <1>1. IsFiniteSet(Numbers(rules) \cup held)  BY NumbersFinite, FS_Union
  <1>2. NewKey(Numbers(rules) \cup held, 1) \in Nat  BY <1>1, NewKeyIsFree
  <1>. QED  BY <1>2 DEF RuleKeys

LEMMA AddRuleListed ==
  ASSUME NEW d, Drafted(d), Listed(d), NEW held, IsFiniteSet(held),
         NEW rule, rule.uses \in Element, rule.label \in LabelsOrNone, rule.enabled \in BOOLEAN
  PROVE  Listed(AddRule(d, rule, held))
  <1>. DEFINE r == [key |-> <<"new", NewKey(Numbers(d.rules) \cup held, 1)>>, serverId |-> {},
                    uses |-> rule.uses, label |-> rule.label, enabled |-> rule.enabled]
  <1>1. d.rules \in Seq(DraftRule)  BY DEF Listed
  <1>2. r \in DraftRule  BY <1>1, NewRuleKey DEF DraftRule
  <1>. HIDE DEF r
  <1>3. Append(d.rules, r) \in Seq(DraftRule)  BY <1>1, <1>2
  <1>4. AddRule(d, rule, held) = [d EXCEPT !.rules = Append(d.rules, r)]  BY DEF AddRule, r
  <1>. QED  BY <1>3, <1>4, RulesOnly

LEMMA RuleFields ==
  ASSUME NEW r \in DraftRule, NEW uses \in Element, NEW label \in LabelsOrNone, NEW enabled \in BOOLEAN
  PROVE  [r EXCEPT !.uses = uses, !.label = label, !.enabled = enabled] \in DraftRule
  <1>. DEFINE a == [r EXCEPT !.uses = uses]
              b == [a EXCEPT !.label = label]
  <1>1. a \in DraftRule  BY DEF DraftRule
  <1>2. b \in DraftRule
    <2>. HIDE DEF a
    <2>. QED  BY <1>1 DEF DraftRule
  <1>3. [b EXCEPT !.enabled = enabled] \in DraftRule
    <2>. HIDE DEF b
    <2>. QED  BY <1>2 DEF DraftRule
  <1>4. [r EXCEPT !.uses = uses, !.label = label, !.enabled = enabled] = [b EXCEPT !.enabled = enabled]
    OBVIOUS
  <1>. QED  BY <1>3, <1>4

LEMMA UpdateRuleListed ==
  ASSUME NEW d, Drafted(d), Listed(d), NEW key,
         NEW rule, rule.uses \in Element, rule.label \in LabelsOrNone, rule.enabled \in BOOLEAN
  PROVE  Listed(UpdateRule(d, key, rule))
  <1>. DEFINE f == [i \in DOMAIN d.rules |->
                      IF d.rules[i].key = key
                      THEN [d.rules[i] EXCEPT !.uses = rule.uses, !.label = rule.label, !.enabled = rule.enabled]
                      ELSE d.rules[i]]
  <1>1. d.rules \in Seq(DraftRule)  BY DEF Listed
  <1>2. \A i \in DOMAIN d.rules : d.rules[i] \in DraftRule  BY <1>1
  <1>3. \A i \in DOMAIN d.rules :
          [d.rules[i] EXCEPT !.uses = rule.uses, !.label = rule.label, !.enabled = rule.enabled] \in DraftRule
    BY <1>2, RuleFields
  <1>4. \A i \in DOMAIN d.rules : f[i] \in DraftRule  BY <1>2, <1>3
  <1>5. f = [i \in DOMAIN d.rules |-> f[i]]  OBVIOUS
  <1>6. UpdateRule(d, key, rule) = [d EXCEPT !.rules = f]  BY DEF UpdateRule, Drafted
  <1>. HIDE DEF f
  <1>7. f \in Seq(DraftRule)  BY <1>1, <1>4, <1>5, RulesMapped
  <1>. QED  BY <1>6, <1>7, RulesOnly

LEMMA ToggleRuleListed ==
  ASSUME NEW d, Drafted(d), Listed(d), NEW key
  PROVE  Listed(ToggleRule(d, key))
  <1>. DEFINE f == [i \in DOMAIN d.rules |->
                      IF d.rules[i].key = key THEN [d.rules[i] EXCEPT !.enabled = ~d.rules[i].enabled] ELSE d.rules[i]]
  <1>1. d.rules \in Seq(DraftRule)  BY DEF Listed
  <1>2. \A i \in DOMAIN d.rules : d.rules[i] \in DraftRule  BY <1>1
  <1>3. \A i \in DOMAIN d.rules : [d.rules[i] EXCEPT !.enabled = ~d.rules[i].enabled] \in DraftRule  BY <1>2 DEF DraftRule
  <1>4. \A i \in DOMAIN d.rules : f[i] \in DraftRule  BY <1>2, <1>3
  <1>5. f = [i \in DOMAIN d.rules |-> f[i]]  OBVIOUS
  <1>6. ToggleRule(d, key) = [d EXCEPT !.rules = f]  BY DEF ToggleRule, Drafted
  <1>. HIDE DEF f
  <1>7. f \in Seq(DraftRule)  BY <1>1, <1>4, <1>5, RulesMapped
  <1>. QED  BY <1>6, <1>7, RulesOnly

LEMMA DeleteRuleListed ==
  ASSUME NEW d, Drafted(d), Listed(d), NEW key
  PROVE  Listed(DeleteRule(d, key))
  <1>. DEFINE at == {i \in DOMAIN d.rules : d.rules[i].key # key}
  <1>1. d.rules \in Seq(DraftRule) /\ at \subseteq DOMAIN d.rules  BY DEF Listed
  <1>2. DeleteRule(d, key) = [d EXCEPT !.rules = Sublist(d.rules, at)]  BY DEF DeleteRule, Drafted
  <1>. HIDE DEF at
  <1>3. Sublist(d.rules, at) \in Seq(DraftRule)  BY <1>1, RulesPicked
  <1>. QED  BY <1>2, <1>3, RulesOnly

LEMMA DuplicateRuleListed ==
  ASSUME NEW d, Drafted(d), Listed(d), NEW key, NEW copied \in LabelsOrNone, NEW held, IsFiniteSet(held)
  PROVE  Listed(DuplicateRule(d, key, copied, held))
  <1>. DEFINE hits == {i \in DOMAIN d.rules : d.rules[i].key = key}
              at == CHOOSE i \in hits : \A j \in hits : i <= j
              rule == d.rules[at]
              k == <<"new", NewKey(Numbers(d.rules) \cup held, 1)>>
              copy == [rule EXCEPT !.key = k, !.serverId = {}, !.label = IF @ = NoLabel THEN NoLabel ELSE copied]
  <1>1. d.rules \in Seq(DraftRule)  BY DEF Listed
  <1>2. CASE hits = {}  BY <1>2 DEF DuplicateRule
  <1>3. CASE hits # {}
    <2>1. hits \subseteq Nat /\ hits \subseteq DOMAIN d.rules  BY <1>1
    <2>2. at \in hits
      <3>. HIDE DEF hits
      <3>. QED  BY <1>3, <2>1, LeastNumber
    <2>. HIDE DEF at
    <2>3. rule \in DraftRule /\ at + 1 \in 1..(Len(d.rules) + 1)  BY <1>1, <2>1, <2>2
    <2>4. k \in RuleKeys  BY <1>1, NewRuleKey
    <2>. HIDE DEF rule, k
    <2>5. copy \in DraftRule
      <3>. DEFINE a == [rule EXCEPT !.key = k]
                  b == [a EXCEPT !.serverId = {}]
                  label == IF rule.label = NoLabel THEN NoLabel ELSE copied
      <3>1. a \in DraftRule /\ a.label = rule.label  BY <2>3, <2>4 DEF DraftRule
      <3>2. b \in DraftRule /\ b.label = rule.label
        <4>. HIDE DEF a
        <4>. QED  BY <3>1 DEF DraftRule
      <3>3. label \in LabelsOrNone  BY DEF LabelsOrNone
      <3>4. copy = [b EXCEPT !.label = label]  BY <2>3 DEF DraftRule
      <3>. HIDE DEF b, label
      <3>. QED  BY <3>2, <3>3, <3>4 DEF DraftRule
    <2>6. DuplicateRule(d, key, copied, held) = [d EXCEPT !.rules = InsertAt(d.rules, at + 1, copy)]
      BY <1>3 DEF DuplicateRule, Drafted, at, rule, k
    <2>. HIDE DEF copy
    <2>7. InsertAt(d.rules, at + 1, copy) \in Seq(DraftRule)  BY <1>1, <2>3, <2>5, AnInsertion
    <2>. QED  BY <2>6, <2>7, RulesOnly
  <1>. QED  BY <1>2, <1>3

LEMMA AddExtraListed ==
  ASSUME NEW d, Drafted(d), Listed(d), NEW held, IsFiniteSet(held), NEW value \in Element
  PROVE  Listed(AddExtra(d, value, held))
  <1>. DEFINE it == [key |-> NewKey(ExtraKeys(d) \cup held, 1), origin |-> 0, value |-> value]
              x == Append(d.extras, it)
              L == Len(d.extras)
  <1>1. d.extras \in Seq(Item) /\ DistinctKeys(d.extras)  BY DEF Listed, ListedItems
  <1>2. L \in Nat /\ DOMAIN d.extras = 1..L  BY <1>1
  <1>3. IsFiniteSet(ExtraKeys(d) \cup held)
    <2>1. IsFiniteSet(ExtraKeys(d))  BY <1>1, ExtraKeysFinite DEF ExtraKeys
    <2>. QED  BY <2>1, FS_Union
  <1>4. it.key \in Nat /\ it.key \notin ExtraKeys(d)  BY <1>3, NewKeyIsFree
  <1>5. it \in Item  BY <1>4 DEF Item
  <1>6. AddExtra(d, value, held) = [d EXCEPT !.extras = x]  BY DEF AddExtra, Drafted
  <1>. HIDE DEF it
  <1>7. x \in Seq(Item) /\ DOMAIN x = 1..(L + 1) /\ x[L + 1] = it /\ \A i \in 1..L : x[i] = d.extras[i]
    BY <1>1, <1>2, <1>5
  <1>. HIDE DEF x
  <1>8. \A i \in 1..L : x[i].key # it.key  BY <1>2, <1>4, <1>7 DEF ExtraKeys
  <1>9. DistinctKeys(x)
    <2>1. SUFFICES ASSUME NEW i \in 1..(L + 1), NEW j \in 1..(L + 1), x[i].key = x[j].key PROVE i = j
      BY <1>7 DEF DistinctKeys
    <2>2. \A n \in 1..(L + 1) : n \in 1..L \/ n = L + 1  BY <1>2
    <2>3. CASE i \in 1..L /\ j \in 1..L  BY <1>1, <1>2, <1>7, <2>1, <2>3 DEF DistinctKeys
    <2>. QED  BY <1>7, <1>8, <2>1, <2>2, <2>3
  <1>. QED  BY <1>6, <1>7, <1>9, ExtrasOnly DEF ListedItems

LEMMA SetExtraListed ==
  ASSUME NEW d, Drafted(d), Listed(d), NEW key, NEW value \in Element
  PROVE  Listed(SetExtra(d, key, value))
  <1>. DEFINE f == [i \in DOMAIN d.extras |->
                      IF d.extras[i].key = key THEN [d.extras[i] EXCEPT !.value = value] ELSE d.extras[i]]
  <1>1. d.extras \in Seq(Item) /\ ListedItems(d.extras)  BY DEF Listed, ListedItems
  <1>2. \A i \in DOMAIN d.extras : d.extras[i] \in Item  BY <1>1
  <1>3. \A i \in DOMAIN d.extras : /\ [d.extras[i] EXCEPT !.value = value] \in Item
                                   /\ [d.extras[i] EXCEPT !.value = value].key = d.extras[i].key
    BY <1>2 DEF Item
  <1>4. \A i \in DOMAIN d.extras : f[i] \in Item /\ f[i].key = d.extras[i].key  BY <1>2, <1>3
  <1>5. f = [i \in DOMAIN d.extras |-> f[i]]  OBVIOUS
  <1>6. SetExtra(d, key, value) = [d EXCEPT !.extras = f]  BY DEF SetExtra, Drafted
  <1>. HIDE DEF f
  <1>7. ListedItems(f)  BY <1>1, <1>4, <1>5, ItemsMapped
  <1>. QED  BY <1>6, <1>7, ExtrasOnly

LEMMA DeleteExtraListed ==
  ASSUME NEW d, Drafted(d), Listed(d), NEW key
  PROVE  Listed(DeleteExtra(d, key))
  <1>. DEFINE at == {i \in DOMAIN d.extras : d.extras[i].key # key}
  <1>1. ListedItems(d.extras) /\ at \subseteq DOMAIN d.extras  BY DEF Listed
  <1>2. DeleteExtra(d, key) = [d EXCEPT !.extras = Sublist(d.extras, at)]  BY DEF DeleteExtra, Drafted
  <1>. HIDE DEF at
  <1>3. ListedItems(Sublist(d.extras, at))  BY <1>1, ItemsPicked
  <1>. QED  BY <1>2, <1>3, ExtrasOnly

\* Items with new keys.
LEMMA FreshItems ==
  ASSUME NEW held, IsFiniteSet(held), NEW L \in Nat, NEW x, x = [i \in 1..L |-> x[i]],
         \A i \in 1..L : /\ x[i] = [key |-> NewKey(held, i), origin |-> x[i].origin, value |-> x[i].value]
                       /\ x[i].origin \in Nat /\ x[i].value \in Element
  PROVE  ListedItems(x)
  <1>1. \A i \in 1..L : NewKey(held, i) \in Nat  BY NewKeyIsFree
  <1>2. \A i \in 1..L : x[i] \in Item /\ x[i].key = NewKey(held, i)
    <2>1. SUFFICES ASSUME NEW i \in 1..L PROVE x[i] \in Item /\ x[i].key = NewKey(held, i)  OBVIOUS
    <2>2. x[i] = [key |-> NewKey(held, i), origin |-> x[i].origin, value |-> x[i].value]  OBVIOUS
    <2>3. NewKey(held, i) \in Nat /\ x[i].origin \in Nat /\ x[i].value \in Element  BY <1>1
    <2>. QED  BY <2>2, <2>3 DEF Item
  <1>3. x \in [1..L -> Item] /\ DOMAIN x = 1..L  BY <1>2
  <1>4. x \in Seq(Item)  BY <1>3, AList
  <1>5. ASSUME NEW i \in 1..L, NEW j \in 1..L, x[i].key = x[j].key PROVE i = j
    <2>1. NewKey(held, i) = NewKey(held, j)  BY <1>2, <1>5
    <2>2. i \in Nat /\ j \in Nat /\ 0 < i /\ 0 < j  OBVIOUS
    <2>3. NewKey(held, i) \in Nat /\ NewKey(held, j) \in Nat  BY <1>1
    <2>4. ~(i < j) /\ ~(j < i)  BY <2>1, <2>2, <2>3, NewKeysGrow
    <2>. QED  BY <2>2, <2>4
  <1>. QED  BY <1>3, <1>4, <1>5 DEF ListedItems, DistinctKeys

\* The draft of a model.
LEMMA DraftedLists ==
  ASSUME NEW m, ListedModel(m), NEW held, IsFiniteSet(held)
  PROVE  DraftRules(m) \in Seq(DraftRule) /\ ListedItems(DraftExtras(m, held))
  <1>1. m.rules \in Seq(ShownRule) /\ m.extras \in Seq(Element)  BY DEF ListedModel
  <1>2. /\ Len(m.rules) \in Nat /\ DOMAIN m.rules = 1..Len(m.rules)
        /\ \A i \in 1..Len(m.rules) : m.rules[i] \in ShownRule
    BY <1>1
  <1>3. DraftRules(m) \in Seq(DraftRule)
    <2>1. ASSUME NEW i \in 1..Len(m.rules)
          PROVE  [key |-> <<"id", m.rules[i].uses>>, serverId |-> m.rules[i].uses, uses |-> m.rules[i].uses,
                  label |-> m.rules[i].label, enabled |-> m.rules[i].enabled] \in DraftRule
      <3>1. m.rules[i] \in ShownRule  BY <1>2
      <3>2. m.rules[i].uses \in Element /\ m.rules[i].uses \in SUBSET Selectors  BY <3>1 DEF ShownRule, Element
      <3>. QED  BY <3>1, <3>2 DEF ShownRule, DraftRule, RuleKeys
    <2>2. DraftRules(m) \in [1..Len(m.rules) -> DraftRule]  BY <1>2, <2>1 DEF DraftRules
    <2>. QED  BY <1>2, <2>2, AList
  <1>4. ListedItems(DraftExtras(m, held))
    <2>. DEFINE L == Len(m.extras)
                x == DraftExtras(m, held)
    <2>1. L \in Nat /\ DOMAIN m.extras = 1..L /\ \A i \in 1..L : m.extras[i] \in Element  BY <1>1
    <2>2. x = [i \in 1..L |-> [key |-> NewKey(held, i), origin |-> i, value |-> m.extras[i]]]
      BY <2>1 DEF DraftExtras
    <2>3. \A i \in 1..L : x[i] = [key |-> NewKey(held, i), origin |-> i, value |-> m.extras[i]]  BY <2>2
    <2>4. x = [i \in 1..L |-> x[i]]  BY <2>2
    <2>. HIDE DEF x
    <2>5. \A i \in 1..L : x[i] = [key |-> NewKey(held, i), origin |-> x[i].origin, value |-> x[i].value]
                        /\ x[i].origin \in Nat /\ x[i].value \in Element
      <3>1. SUFFICES ASSUME NEW i \in 1..L
                     PROVE  /\ x[i] = [key |-> NewKey(held, i), origin |-> x[i].origin, value |-> x[i].value]
                            /\ x[i].origin \in Nat /\ x[i].value \in Element
        OBVIOUS
      <3>2. x[i] = [key |-> NewKey(held, i), origin |-> i, value |-> m.extras[i]]  BY <2>3
      <3>3. x[i].origin = i /\ x[i].value = m.extras[i]  BY <3>2
      <3>. QED  BY <2>1, <3>2, <3>3
    <2>6. ListedItems(x)  BY <2>1, <2>4, <2>5, FreshItems
    <2>. QED  BY <2>6 DEF x
  <1>. QED  BY <1>3, <1>4

LEMMA DraftFromModelListed ==
  ASSUME NEW m, ListedModel(m), NEW held, IsFiniteSet(held)
  PROVE  Listed(DraftFromModel(m, held))
  BY DraftedLists DEF DraftFromModel, Listed, NoneOrListed

\* Renaming.
LEMMA RenameKeyListed ==
  ASSUME NEW d, Drafted(d), Listed(d), NEW s \in Sections, NEW from, NEW to \in Selectors
  PROVE  Listed(RenameKey(d, s, from, to))
  <1>. DEFINE f == [i \in DOMAIN d.rules |-> RenameInRule(d.rules[i], from, to)]
              g == [i \in DOMAIN d.extras |-> RenameInElement(d.extras[i], from, to)]
  <1>1. d.rules \in Seq(DraftRule) /\ ListedItems(d.extras) /\ d.extras \in Seq(Item)  BY DEF Listed, ListedItems
  <1>2. f \in Seq(DraftRule)
    <2>1. \A r \in DraftRule : RenameInRule(r, from, to) \in DraftRule  BY SwapElement DEF RenameInRule, DraftRule
    <2>2. \A i \in DOMAIN d.rules : d.rules[i] \in DraftRule  BY <1>1
    <2>3. \A i \in DOMAIN d.rules : f[i] \in DraftRule  BY <2>1, <2>2
    <2>4. f = [i \in DOMAIN d.rules |-> f[i]]  OBVIOUS
    <2>. HIDE DEF f
    <2>. QED  BY <1>1, <2>3, <2>4, RulesMapped
  <1>3. ListedItems(g)
    <2>1. \A it \in Item : RenameInElement(it, from, to) \in Item /\ RenameInElement(it, from, to).key = it.key
      BY SwapElement DEF RenameInElement, Item
    <2>2. \A i \in DOMAIN d.extras : d.extras[i] \in Item  BY <1>1
    <2>3. \A i \in DOMAIN d.extras : g[i] \in Item /\ g[i].key = d.extras[i].key  BY <2>1, <2>2
    <2>4. g = [i \in DOMAIN d.extras |-> g[i]]  OBVIOUS
    <2>. HIDE DEF g
    <2>. QED  BY <1>1, <2>3, <2>4, ItemsMapped
  <1>. DEFINE n == RenameKey(d, s, from, to)
  <1>4. n = d \/ (n.rules = f /\ n.extras = g /\ n.base = d.base)
    BY DEF RenameKey, Drafted
  <1>. HIDE DEF n, f, g
  <1>5. Listed(n)  BY <1>2, <1>3, <1>4 DEF Listed
  <1>. QED  BY <1>5 DEF n

\* Setting and removing named entries.
LEMMA EntriesListed ==
  ASSUME NEW d, Drafted(d), Listed(d), NEW s, NEW name, NEW members, NEW from
  PROVE  /\ Listed(SetEntry(d, s, name, members)) /\ Listed(DeleteKey(d, s, name))
         /\ Listed(SetRoute(d, from, name, members))
         /\ Listed([d EXCEPT !.exitNode = members]) /\ Listed([d EXCEPT !.randomize = name])
  <1>1. Listed([d EXCEPT !.exitNode = members]) /\ Listed([d EXCEPT !.randomize = name])  BY OthersOnly
  <1>2. \A t, f : [d EXCEPT !.keyed[t] = f] = [d EXCEPT !.keyed = [d.keyed EXCEPT ![t] = f]]  OBVIOUS
  <1>3. \A t, f : Listed([d EXCEPT !.keyed[t] = f])  BY <1>2, OthersOnly
  <1>. QED  BY <1>1, <1>3 DEF SetEntry, DeleteKey, SetRoute

-----------------------------------------------------------------------------
(* The merge after a 409.                                                  *)

LEMMA JoinedItems ==
  ASSUME NEW a, ListedItems(a), NEW b, ListedItems(b),
         \A i \in DOMAIN a : \A j \in DOMAIN b : a[i].key # b[j].key
  PROVE  ListedItems(a \o b)
  <1>. DEFINE x == a \o b
  <1>1. a \in Seq(Item) /\ b \in Seq(Item)  BY DEF ListedItems
  <1>2. /\ Len(a) \in Nat /\ DOMAIN a = 1..Len(a)
        /\ Len(b) \in Nat /\ DOMAIN b = 1..Len(b)
    BY <1>1
  <1>3. /\ x \in Seq(Item) /\ Len(x) = Len(a) + Len(b)
        /\ \A i \in 1..Len(a) : x[i] = a[i]
        /\ \A i \in 1..Len(b) : x[Len(a) + i] = b[i]
    BY <1>1, Joined
  <1>. HIDE DEF x
  <1>4. DOMAIN x = 1..(Len(a) + Len(b))  BY <1>3
  <1>5. \A i \in DOMAIN x : (i \in 1..Len(a) /\ x[i] = a[i])
                           \/ \E k \in 1..Len(b) : i = Len(a) + k /\ x[i] = b[k]
    <2>1. SUFFICES ASSUME NEW i \in 1..(Len(a) + Len(b)), ~(i \in 1..Len(a))
                   PROVE  \E k \in 1..Len(b) : i = Len(a) + k /\ x[i] = b[k]
      BY <1>3, <1>4
    <2>2. i - Len(a) \in 1..Len(b) /\ i = Len(a) + (i - Len(a))  BY <1>2, <2>1
    <2>. QED  BY <1>3, <2>2
  <1>6. ASSUME NEW i \in DOMAIN x, NEW j \in DOMAIN x, x[i].key = x[j].key PROVE i = j
    <2>1. CASE i \in 1..Len(a) /\ x[i] = a[i]
      <3>1. CASE j \in 1..Len(a) /\ x[j] = a[j]  BY <1>2, <1>6, <2>1, <3>1 DEF ListedItems, DistinctKeys
      <3>2. CASE \E k \in 1..Len(b) : j = Len(a) + k /\ x[j] = b[k]  BY <1>2, <1>6, <2>1, <3>2
      <3>. QED  BY <1>5, <3>1, <3>2
    <2>2. CASE \E k \in 1..Len(b) : i = Len(a) + k /\ x[i] = b[k]
      <3>1. CASE j \in 1..Len(a) /\ x[j] = a[j]  BY <1>2, <1>6, <2>2, <3>1
      <3>2. CASE \E k \in 1..Len(b) : j = Len(a) + k /\ x[j] = b[k]
        BY <1>2, <1>6, <2>2, <3>2 DEF ListedItems, DistinctKeys
      <3>. QED  BY <1>5, <3>1, <3>2
    <2>. QED  BY <1>5, <2>1, <2>2
  <1>. QED  BY <1>3, <1>6 DEF ListedItems, DistinctKeys, x

\* The last edit of a rule.
LEMMA EditedRuleIs ==
  ASSUME NEW sum, sum.rules.changed \in Seq(DraftRule), NEW id, After(sum, id) # {}
  PROVE  EditedRule(sum, id) \in DraftRule
  <1>. DEFINE S == After(sum, id)
              L == Len(sum.rules.changed)
  <1>1. L \in Nat /\ Places(S, L) /\ DOMAIN sum.rules.changed = 1..L  BY DEF Places, After
  <1>2. \E i \in S : \A j \in S : j <= i
    <2>. HIDE DEF S, L
    <2>. QED  BY <1>1, GreatestPlace DEF S
  <1>3. PICK i \in S : EditedRule(sum, id) = sum.rules.changed[i]  BY <1>2, Zenon DEF EditedRule
  <1>4. i \in 1..L  BY <1>1, <1>3 DEF After
  <1>. QED  BY <1>3, <1>4

Rekeyed(r, key, id) == [r EXCEPT !.key = key, !.serverId = id]

LEMMA RekeyedRule ==
  ASSUME NEW r \in DraftRule, NEW key \in RuleKeys, NEW id, id \in SUBSET Selectors
  PROVE  /\ Rekeyed(r, key, id) \in DraftRule
         /\ Rekeyed(r, key, id).key = key /\ Rekeyed(r, key, id).serverId = id
  <1>. DEFINE a == [r EXCEPT !.key = key]
              b == [a EXCEPT !.serverId = id]
  <1>1. a \in DraftRule /\ a.key = key  BY DEF DraftRule
  <1>2. Rekeyed(r, key, id) = b  BY DEF Rekeyed
  <1>3. b \in DraftRule /\ b.key = key /\ b.serverId = id
    <2>. HIDE DEF a
    <2>. QED  BY <1>1 DEF DraftRule
  <1>. HIDE DEF b
  <1>. QED  BY <1>2, <1>3

\* The server's rules keep their keys.
KeyKept(f, fresh) ==
  /\ DOMAIN f = DOMAIN fresh
  /\ \A i \in DOMAIN fresh : f[i].key = fresh[i].key /\ f[i].serverId = fresh[i].serverId

TakesEditOf(fresh, sum, i) ==
  After(sum, fresh[i].serverId) # {} /\ \A j \in 1..(i - 1) : fresh[j].serverId # fresh[i].serverId

LEMMA KeptRulesAre ==
  ASSUME NEW fresh \in Seq(DraftRule), NEW sum, sum.rules.changed \in Seq(DraftRule)
  PROVE  \E f \in Seq(DraftRule), at \in SUBSET DOMAIN fresh :
           /\ KeptRules(fresh, sum) = Sublist(f, at) /\ KeyKept(f, fresh)
           /\ at = {i \in DOMAIN fresh : fresh[i].serverId \notin sum.rules.removed}
           /\ \A i \in DOMAIN fresh :
                f[i] = IF TakesEditOf(fresh, sum, i)
                       THEN Rekeyed(EditedRule(sum, fresh[i].serverId), fresh[i].key, fresh[i].serverId)
                       ELSE fresh[i]
  <1>. DEFINE first(i) == \A j \in 1..(i - 1) : fresh[j].serverId # fresh[i].serverId
              next(i) == IF After(sum, fresh[i].serverId) # {} /\ first(i)
                         THEN [EditedRule(sum, fresh[i].serverId) EXCEPT !.key = fresh[i].key,
                                                                         !.serverId = fresh[i].serverId]
                         ELSE fresh[i]
              f == [i \in DOMAIN fresh |-> next(i)]
              at == {i \in DOMAIN fresh : fresh[i].serverId \notin sum.rules.removed}
  <1>1. KeptRules(fresh, sum) = Sublist(f, at)  BY Zenon DEF KeptRules
  <1>2. ASSUME NEW i \in DOMAIN fresh
        PROVE  next(i) \in DraftRule /\ next(i).key = fresh[i].key /\ next(i).serverId = fresh[i].serverId
    <2>1. fresh[i] \in DraftRule  OBVIOUS
    <2>2. fresh[i].key \in RuleKeys /\ fresh[i].serverId \in SUBSET Selectors  BY <2>1 DEF DraftRule
    <2>3. CASE After(sum, fresh[i].serverId) # {} /\ first(i)
      <3>1. EditedRule(sum, fresh[i].serverId) \in DraftRule  BY <2>3, EditedRuleIs
      <3>. DEFINE r == Rekeyed(EditedRule(sum, fresh[i].serverId), fresh[i].key, fresh[i].serverId)
      <3>2. r \in DraftRule /\ r.key = fresh[i].key /\ r.serverId = fresh[i].serverId
        BY <2>2, <3>1, RekeyedRule
      <3>3. next(i) = r  BY <2>3 DEF Rekeyed
      <3>. HIDE DEF r, next
      <3>. QED  BY <3>2, <3>3
    <2>. QED  BY <2>1, <2>3
  <1>3. \A i \in DOMAIN fresh : f[i] \in DraftRule /\ f[i].key = fresh[i].key /\ f[i].serverId = fresh[i].serverId
    <2>1. \A i \in DOMAIN fresh : f[i] = next(i)  OBVIOUS
    <2>. HIDE DEF f, next
    <2>. QED  BY <1>2, <2>1
  <1>4. f = [i \in DOMAIN fresh |-> f[i]] /\ DOMAIN f = DOMAIN fresh /\ at \subseteq DOMAIN fresh  OBVIOUS
  <1>5. \A i \in DOMAIN fresh :
          f[i] = IF TakesEditOf(fresh, sum, i)
                 THEN Rekeyed(EditedRule(sum, fresh[i].serverId), fresh[i].key, fresh[i].serverId) ELSE fresh[i]
    BY DEF TakesEditOf, Rekeyed
  <1>. HIDE DEF f
  <1>6. f \in Seq(DraftRule)  BY <1>3, <1>4, RulesMapped
  <1>7. KeyKept(f, fresh)  BY <1>3, <1>4 DEF KeyKept
  <1>. QED  BY <1>1, <1>4, <1>5, <1>6, <1>7

LEMMA OrphanedRulesListed ==
  ASSUME NEW fresh \in Seq(DraftRule), NEW sum, sum.rules.changed \in Seq(DraftRule)
  PROVE  OrphanedRules(fresh, sum) \in Seq(DraftRule)
  <1>. DEFINE changed == sum.rules.changed
              f == [i \in DOMAIN changed |-> EditedRule(sum, changed[i].serverId)]
              ids == {fresh[i].serverId : i \in DOMAIN fresh}
              at == {i \in DOMAIN changed : /\ changed[i].serverId \notin ids
                                           /\ \A j \in After(sum, changed[i].serverId) : i <= j}
  <1>1. OrphanedRules(fresh, sum) = Sublist(f, at)  BY Zenon DEF OrphanedRules
  <1>2. \A i \in DOMAIN changed : i \in After(sum, changed[i].serverId)  BY DEF After
  <1>3. \A i \in DOMAIN changed : f[i] \in DraftRule  BY <1>2, EditedRuleIs
  <1>4. f = [i \in DOMAIN changed |-> f[i]] /\ DOMAIN f = DOMAIN changed /\ at \subseteq DOMAIN changed  OBVIOUS
  <1>. HIDE DEF f, at
  <1>5. f \in Seq(DraftRule)  BY <1>3, <1>4, RulesMapped
  <1>. QED  BY <1>1, <1>4, <1>5, RulesPicked

\* Orphans get new keys, additions keep theirs.
Renumbered(orphans, taken) ==
  [i \in DOMAIN orphans |-> [orphans[i] EXCEPT !.key = <<"new", NewKey(taken, i)>>, !.serverId = {}]]
Additions(added) == [i \in DOMAIN added |-> [added[i] EXCEPT !.serverId = {}]]

LEMMA RenumberedAre ==
  ASSUME NEW orphans \in Seq(DraftRule), NEW taken, IsFiniteSet(taken)
  PROVE  /\ Renumbered(orphans, taken) \in Seq(DraftRule)
         /\ DOMAIN Renumbered(orphans, taken) = DOMAIN orphans /\ DOMAIN orphans \subseteq Nat \ {0}
         /\ \A i \in DOMAIN orphans : /\ Renumbered(orphans, taken)[i].key = <<"new", NewKey(taken, i)>>
                                      /\ Renumbered(orphans, taken)[i].serverId = {}
  <1>. DEFINE g == Renumbered(orphans, taken)
  <1>1. Len(orphans) \in Nat /\ DOMAIN orphans = 1..Len(orphans) /\ \A i \in DOMAIN orphans : orphans[i] \in DraftRule
    OBVIOUS
  <1>2. \A i \in DOMAIN orphans : <<"new", NewKey(taken, i)>> \in RuleKeys  BY <1>1, NewKeyIsFree DEF RuleKeys
  <1>3. \A i \in DOMAIN orphans : g[i] = Rekeyed(orphans[i], <<"new", NewKey(taken, i)>>, {})
    BY DEF Renumbered, Rekeyed
  <1>4. g = [i \in DOMAIN orphans |-> g[i]] /\ DOMAIN g = DOMAIN orphans  BY DEF Renumbered
  <1>. HIDE DEF g
  <1>5. \A i \in DOMAIN orphans :
          g[i] \in DraftRule /\ g[i].key = <<"new", NewKey(taken, i)>> /\ g[i].serverId = {}
    <2>1. SUFFICES ASSUME NEW i \in DOMAIN orphans
                   PROVE  g[i] \in DraftRule /\ g[i].key = <<"new", NewKey(taken, i)>> /\ g[i].serverId = {}
      OBVIOUS
    <2>. DEFINE key == <<"new", NewKey(taken, i)>>
                id == {}
    <2>2. orphans[i] \in DraftRule /\ key \in RuleKeys /\ g[i] = Rekeyed(orphans[i], key, id) /\ id \in SUBSET Selectors
      BY <1>1, <1>2, <1>3
    <2>. HIDE DEF key, id
    <2>3. g[i] \in DraftRule /\ g[i].key = key /\ g[i].serverId = id  BY <2>2, RekeyedRule
    <2>. QED  BY <2>3 DEF key, id
  <1>6. g \in Seq(DraftRule)  BY <1>4, <1>5, RulesMapped
  <1>7. DOMAIN orphans \subseteq Nat \ {0}  BY <1>1
  <1>. QED  BY <1>4, <1>5, <1>6, <1>7 DEF g

LEMMA AdditionsAre ==
  ASSUME NEW added \in Seq(DraftRule)
  PROVE  /\ Additions(added) \in Seq(DraftRule) /\ DOMAIN Additions(added) = DOMAIN added
         /\ \A i \in DOMAIN added : Additions(added)[i].key = added[i].key /\ Additions(added)[i].serverId = {}
  <1>. DEFINE h == Additions(added)
  <1>1. \A r \in DraftRule : LET s == [r EXCEPT !.serverId = {}]
                            IN  s \in DraftRule /\ s.key = r.key /\ s.serverId = {}
    BY DEF DraftRule
  <1>2. \A i \in DOMAIN added : added[i] \in DraftRule  OBVIOUS
  <1>3. \A i \in DOMAIN added : h[i] \in DraftRule /\ h[i].key = added[i].key /\ h[i].serverId = {}
    BY <1>1, <1>2 DEF Additions
  <1>4. h = [i \in DOMAIN added |-> h[i]] /\ DOMAIN h = DOMAIN added  BY DEF Additions
  <1>. HIDE DEF h
  <1>5. h \in Seq(DraftRule)  BY <1>3, <1>4, RulesMapped
  <1>. QED  BY <1>3, <1>4, <1>5 DEF h

LEMMA RebaseRulesListed ==
  ASSUME NEW fresh \in Seq(DraftRule), NEW sum, sum.rules.changed \in Seq(DraftRule),
         sum.rules.added \in Seq(DraftRule), NEW held, IsFiniteSet(held)
  PROVE  RebaseRules(fresh, sum, held) \in Seq(DraftRule)
  <1>. DEFINE orphans == OrphanedRules(fresh, sum)
              taken == held \cup Numbers(sum.rules.added)
  <1>1. PICK f \in Seq(DraftRule), at \in SUBSET DOMAIN fresh :
               KeptRules(fresh, sum) = Sublist(f, at) /\ KeyKept(f, fresh)
    BY KeptRulesAre
  <1>2. KeptRules(fresh, sum) \in Seq(DraftRule)  BY <1>1, RulesPicked DEF KeyKept
  <1>3. Renumbered(orphans, taken) \in Seq(DraftRule)
    <2>1. IsFiniteSet(taken) /\ orphans \in Seq(DraftRule)  BY NumbersFinite, FS_Union, OrphanedRulesListed
    <2>. QED  BY <2>1, RenumberedAre
  <1>4. Additions(sum.rules.added) \in Seq(DraftRule)  BY AdditionsAre
  <1>5. RebaseRules(fresh, sum, held) =
          KeptRules(fresh, sum) \o Renumbered(orphans, taken) \o Additions(sum.rules.added)
    BY DEF RebaseRules, Renumbered, Additions
  <1>. HIDE DEF orphans, taken
  <1>. QED  BY <1>2, <1>3, <1>4, <1>5, Joined

\* The last edit of an element.
LEMMA LastEditIs ==
  ASSUME NEW base, NEW items \in Seq(Item), NEW v, Edits(base, items, v) # {}
  PROVE  LastEdit(base, items, v) \in Element
  <1>. DEFINE S == Edits(base, items, v)
              L == Len(items)
  <1>1. L \in Nat /\ Places(S, L) /\ DOMAIN items = 1..L  BY DEF Places, Edits
  <1>2. \E i \in S : \A j \in S : j <= i
    <2>. HIDE DEF S, L
    <2>. QED  BY <1>1, GreatestPlace DEF S
  <1>3. PICK i \in S : LastEdit(base, items, v) = items[i].value  BY <1>2, Zenon DEF LastEdit
  <1>4. i \in 1..L  BY <1>1, <1>3 DEF Edits
  <1>5. items[i] \in Item  BY <1>4
  <1>. QED  BY <1>3, <1>5 DEF Item

MergedItem == [origin : Nat, value : Element]

\* A part of a list whose elements are merged ones.
LEMMA MergedPart ==
  ASSUME NEW n \in Nat, NEW f, DOMAIN f = 1..n, NEW at, at \subseteq 1..n,
         \A i \in at : f[i] \in MergedItem
  PROVE  Sublist(f, at) \in Seq(MergedItem)
  <1>1. Places(at, n)  BY DEF Places
  <1>2. Cardinality(at) \in Nat  BY <1>1, PlacesFinite
  <1>3. \A k \in 1..Cardinality(at) : NthOf(at, k) \in at  BY <1>1, NthPlace
  <1>4. Sublist(f, at) \in [1..Cardinality(at) -> MergedItem]  BY <1>3 DEF Sublist
  <1>. QED  BY <1>2, <1>4, AList

LEMMA KeptElementsListed ==
  ASSUME NEW base, NEW items \in Seq(Item), NEW theirs \in Seq(Element)
  PROVE  KeptElements(base, items, theirs) \in Seq(MergedItem)
  <1>. DEFINE L == Len(theirs)
              next(j) == [origin |-> j, value |-> IF TakesEdit(base, items, theirs, j)
                                                  THEN LastEdit(base, items, theirs[j]) ELSE theirs[j]]
              f == [j \in DOMAIN theirs |-> next(j)]
              at == {j \in DOMAIN theirs : Nth(theirs, j) > Drops(base, items, theirs[j])}
  <1>1. L \in Nat /\ DOMAIN theirs = 1..L /\ \A j \in 1..L : theirs[j] \in Element  OBVIOUS
  <1>2. KeptElements(base, items, theirs) = Sublist(f, at)  BY Zenon DEF KeptElements
  <1>3. ASSUME NEW j \in 1..L PROVE next(j) \in MergedItem
    <2>1. TakesEdit(base, items, theirs, j) => LastEdit(base, items, theirs[j]) \in Element
      BY LastEditIs DEF TakesEdit
    <2>2. (IF TakesEdit(base, items, theirs, j) THEN LastEdit(base, items, theirs[j]) ELSE theirs[j]) \in Element
      BY <1>1, <2>1
    <2>. QED  BY <2>2 DEF MergedItem
  <1>4. DOMAIN f = 1..L /\ at \subseteq 1..L /\ \A j \in 1..L : f[j] \in MergedItem  BY <1>1, <1>3
  <1>. HIDE DEF f, at, L
  <1>. QED  BY <1>1, <1>2, <1>4, MergedPart

LEMMA OrphanedElementsListed ==
  ASSUME NEW base, NEW items \in Seq(Item), NEW theirs \in Seq(Element)
  PROVE  OrphanedElements(base, items, theirs) \in Seq(MergedItem)
  <1>. DEFINE L == Len(items)
              orphan(i) == /\ IsEdited(base, items[i])
                           /\ \A j \in Edits(base, items, base[items[i].origin]) : i <= j
                           /\ \A j \in DOMAIN theirs : theirs[j] = base[items[i].origin] =>
                                                        ~TakesEdit(base, items, theirs, j)
              f == [i \in DOMAIN items |->
                      [origin |-> 0, value |-> IF orphan(i) THEN LastEdit(base, items, base[items[i].origin]) ELSE {}]]
              at == {i \in DOMAIN items : orphan(i)}
  <1>1. L \in Nat /\ DOMAIN items = 1..L  OBVIOUS
  <1>2. OrphanedElements(base, items, theirs) = Sublist(f, at)  BY Zenon DEF OrphanedElements
  <1>3. ASSUME NEW i \in at PROVE f[i] \in MergedItem
    <2>1. i \in DOMAIN items /\ orphan(i)  OBVIOUS
    <2>2. i \in Edits(base, items, base[items[i].origin])  BY <2>1 DEF Edits
    <2>3. LastEdit(base, items, base[items[i].origin]) \in Element  BY <2>2, LastEditIs
    <2>. HIDE DEF orphan
    <2>. QED  BY <2>1, <2>3 DEF MergedItem
  <1>4. DOMAIN f = 1..L /\ at \subseteq 1..L  BY <1>1
  <1>. HIDE DEF f, at, L
  <1>. QED  BY <1>1, <1>2, <1>3, <1>4, MergedPart

LEMMA RebaseExtrasListed ==
  ASSUME NEW base, NEW items, ListedItems(items), NEW theirs \in Seq(Element), NEW held, IsFiniteSet(held)
  PROVE  ListedItems(RebaseExtras(base, items, theirs, held))
  <1>. DEFINE merged == KeptElements(base, items, theirs) \o OrphanedElements(base, items, theirs)
              at == {i \in DOMAIN items : IsNew(base, items[i])}
              added == Sublist(items, at)
              taken == {added[i].key : i \in DOMAIN added} \cup held
              g == [i \in DOMAIN merged |-> [key |-> NewKey(taken, i), origin |-> merged[i].origin, value |-> merged[i].value]]
              h == [i \in DOMAIN added |-> [added[i] EXCEPT !.origin = 0]]
  <1>0. items \in Seq(Item)  BY DEF ListedItems
  <1>1. merged \in Seq(MergedItem)  BY <1>0, KeptElementsListed, OrphanedElementsListed, Joined
  <1>2. ListedItems(added)
    <2>1. at \subseteq DOMAIN items  OBVIOUS
    <2>. HIDE DEF at
    <2>. QED  BY <2>1, ItemsPicked
  <1>3. RebaseExtras(base, items, theirs, held) = g \o h  BY Zenon DEF RebaseExtras
  <1>. HIDE DEF merged, added
  <1>4. added \in Seq(Item)  BY <1>2 DEF ListedItems
  <1>5. IsFiniteSet(taken)
    <2>1. IsFiniteSet({added[i].key : i \in DOMAIN added})  BY <1>4, ExtraKeysFinite
    <2>. QED  BY <2>1, FS_Union
  <1>6. \A i \in DOMAIN added : added[i].key \in taken  OBVIOUS
  <1>. HIDE DEF taken
  <1>7. Len(merged) \in Nat /\ DOMAIN merged = 1..Len(merged) /\ \A i \in 1..Len(merged) : merged[i] \in MergedItem
    BY <1>1
  <1>8. \A i \in 1..Len(merged) : /\ g[i] = [key |-> NewKey(taken, i), origin |-> g[i].origin, value |-> g[i].value]
                                  /\ g[i].origin \in Nat /\ g[i].value \in Element
    <2>1. SUFFICES ASSUME NEW i \in 1..Len(merged)
                   PROVE  /\ g[i] = [key |-> NewKey(taken, i), origin |-> g[i].origin, value |-> g[i].value]
                          /\ g[i].origin \in Nat /\ g[i].value \in Element
      OBVIOUS
    <2>2. g[i] = [key |-> NewKey(taken, i), origin |-> merged[i].origin, value |-> merged[i].value]  BY <1>7
    <2>3. merged[i].origin \in Nat /\ merged[i].value \in Element  BY <1>7 DEF MergedItem
    <2>. HIDE DEF g
    <2>. QED  BY <2>2, <2>3
  <1>9. g = [i \in 1..Len(merged) |-> g[i]]  BY <1>7
  <1>10. ListedItems(g)
    <2>. HIDE DEF g
    <2>. QED  BY <1>5, <1>7, <1>8, <1>9, FreshItems
  <1>11. ListedItems(h) /\ DOMAIN h = DOMAIN added /\ \A i \in DOMAIN added : h[i].key = added[i].key
    <2>1. \A it \in Item : [it EXCEPT !.origin = 0] \in Item /\ [it EXCEPT !.origin = 0].key = it.key  BY DEF Item
    <2>2. \A i \in DOMAIN added : added[i] \in Item  BY <1>4
    <2>3. \A i \in DOMAIN added : h[i] \in Item /\ h[i].key = added[i].key  BY <2>1, <2>2
    <2>4. h = [i \in DOMAIN added |-> h[i]] /\ DOMAIN h = DOMAIN added  OBVIOUS
    <2>. HIDE DEF h
    <2>. QED  BY <1>2, <2>3, <2>4, ItemsMapped
  <1>12. \A i \in 1..Len(merged) : g[i].key = NewKey(taken, i)  BY <1>7
  <1>13. \A i \in 1..Len(merged) : NewKey(taken, i) \notin taken  BY <1>5, NewKeyIsFree
  <1>14. DOMAIN g = 1..Len(merged)  BY <1>7
  <1>. HIDE DEF g, h
  <1>15. \A i \in DOMAIN g : \A j \in DOMAIN h : g[i].key # h[j].key
    BY <1>6, <1>11, <1>12, <1>13, <1>14
  <1>. QED  BY <1>3, <1>10, <1>11, <1>15, JoinedItems

LEMMA MergeListed ==
  ASSUME EditorInv, Listed(draft), conflict # <<>>, ListedModel(conflict[1]), draft.base # <<>>
  PROVE  Listed(Rebased)
  <1>. DEFINE m == conflict[1]
              sum == DiffDraft(draft.base[1], draft)
              base == draft.base[1].extras
  <1>1. draft.rules \in Seq(DraftRule) /\ ListedItems(draft.extras) /\ m.extras \in Seq(Element)
    BY DEF Listed, ListedModel
  <1>2. IsFiniteSet(Held)  BY HeldIsFinite
  <1>3. sum.rules.added \in Seq(DraftRule) /\ sum.rules.changed \in Seq(DraftRule)
    <2>. DEFINE a == {i \in DOMAIN draft.rules : IsAdded(draft.base[1], draft.rules[i])}
                c == {i \in DOMAIN draft.rules : IsChanged(draft.base[1], draft.rules[i])}
    <2>1. sum.rules.added = Sublist(draft.rules, a) /\ sum.rules.changed = Sublist(draft.rules, c)
      BY DEF DiffDraft, DiffRules
    <2>2. a \subseteq DOMAIN draft.rules /\ c \subseteq DOMAIN draft.rules  OBVIOUS
    <2>. HIDE DEF a, c, sum
    <2>. QED  BY <1>1, <2>1, <2>2, RulesPicked
  <1>. DEFINE keyed == [s \in Sections |-> MergeKeys(m.keyed[s], draft.keyed[s], sum.keyed[s])]
              rules == RebaseRules(DraftRules(m), sum, Held)
              extras == IF Touched(sum.extras) = {} THEN DraftExtras(m, Held)
                        ELSE RebaseExtras(base, draft.extras, m.extras, Held)
              exitNode == IF sum.exitNode THEN draft.exitNode ELSE m.exitNode
              randomize == IF sum.randomize THEN draft.randomize ELSE m.randomize
  <1>4. Rebased = [base |-> <<m>>, keyed |-> keyed, rules |-> rules, extras |-> extras,
                   exitNode |-> exitNode, randomize |-> randomize]
    BY DEF Rebased, RebaseDraft
  <1>. HIDE DEF sum
  <1>5. rules \in Seq(DraftRule)  BY <1>2, <1>3, DraftedLists, RebaseRulesListed
  <1>6. ListedItems(extras)  BY <1>1, <1>2, DraftedLists, RebaseExtrasListed
  <1>. HIDE DEF keyed, rules, extras, exitNode, randomize
  <1>. QED  BY <1>4, <1>5, <1>6 DEF Listed, NoneOrListed

-----------------------------------------------------------------------------
(* The invariant of the lists.                                             *)

ListedDialog(g) == g.kind = "rule" => g.uses \in Element /\ g.label \in LabelsOrNone /\ g.enabled \in BOOLEAN
DialogLists == dialog = <<>> \/ \E g : dialog = <<g>> /\ ListedDialog(g)

\* A save carries the list, its enabled rules and its rows.
ListedSave(save) ==
  /\ save.rules \in Seq(DraftRule) /\ NoneOrListed(save.current)
  /\ save.body.text.rules = LiveRules(save.rules) /\ save.body.text.extras \in Seq(Element)
  /\ save.body.metas = MetaRows(save.rules)
SavingLists == saving # <<>> => ListedSave(saving[1])

\* The server's policy and rows are those of the last save, if it has them.
WrittenOK ==
  written # <<>> => /\ written[1] \in Seq(DraftRule)
                    /\ text.rules = LiveRules(written[1]) /\ metas = MetaRows(written[1])

ListsInv ==
  /\ text.rules \in Seq(Element) /\ text.extras \in Seq(Element) /\ Table(metas) /\ WrittenOK
  /\ NoneOrListed(cache) /\ NoneOrListed(conflict) /\ (flight # <<>> => NoneOrListed(flight[1].read))
  /\ Listed(draft) /\ DialogLists /\ SavingLists

LEMMA ServedLists ==
  ASSUME ListsInv PROVE ListedModel(Model)
  <1>1. ModelRules(text.rules, metas) \in Seq(ShownRule)  BY ModelRulesListed DEF ListsInv
  <1>2. ShowsLive(ModelRules(text.rules, metas), text.rules)  BY ModelShowsLive DEF ListsInv
  <1>. QED  BY <1>1, <1>2 DEF Model, ModelState, ListedModel, ListsInv

LEMMA ShownIsListed ==
  ASSUME NEW d, Listed(d), NEW c, NoneOrListed(c)
  PROVE  Listed(Show(d, c))
  BY HeldIsFinite, DraftFromModelListed DEF Show, NoneOrListed

LEMMA ListsStart == EditorInit => ListsInv
  <1>. SUFFICES ASSUME EditorInit PROVE ListsInv
    OBVIOUS
  <1>1. text.rules \in Seq(Element) /\ text.extras \in Seq(Element)  BY EditorAssumption DEF EditorInit
  <1>2. metas = <<>> /\ DOMAIN metas = {}  BY DEF EditorInit
  <1>3. Table(metas)  BY <1>2 DEF Table
  <1>4. Listed(draft)
    <2>1. draft.rules = <<>> /\ draft.extras = <<>> /\ draft.base = <<>>  BY DEF EditorInit, EmptyDraft
    <2>. QED  BY <2>1 DEF Listed, ListedItems, DistinctKeys, NoneOrListed
  <1>. QED  BY <1>1, <1>3, <1>4 DEF EditorInit, ListsInv, WrittenOK, NoneOrListed, DialogLists, SavingLists

\* Every action of a tab edits the lists or opens a dialog.
ListsEdited == \E d : Listed(d) /\ Change(d)
ListsOpen ==
  \E kind, s, key, uses, label, enabled :
    /\ kind = "rule" => uses \in Element /\ label \in LabelsOrNone /\ enabled \in BOOLEAN
    /\ Open(kind, s, key, uses, label, enabled)

LEMMA RulesTabLists ==
  ASSUME EditorInv, ListsInv, RulesTab PROVE ListsEdited \/ ListsOpen
  <1>0. Drafted(draft) /\ Listed(draft) /\ IsFiniteSet(Held)  BY HeldIsFinite DEF EditorInv, ListsInv
  <1>a. NoLabel \in LabelsOrNone /\ Labels \subseteq LabelsOrNone  BY DEF LabelsOrNone
  <1>b. \A i \in DOMAIN draft.rules : draft.rules[i] \in DraftRule  BY <1>0 DEF Listed
  <1>1. CASE ClickAddRule
    <2>1. PICK body, label : /\ body \in Bodies /\ label \in Labels \cup {NoLabel}
                             /\ Change(AddRule(draft, [uses |-> body, label |-> label, enabled |-> TRUE], Held))
      BY <1>1 DEF ClickAddRule
    <2>. DEFINE rule == [uses |-> body, label |-> label, enabled |-> TRUE]
    <2>2. rule.uses \in Element /\ rule.label \in LabelsOrNone /\ rule.enabled \in BOOLEAN
      BY <2>1, EditorAssumption DEF LabelsOrNone
    <2>3. Change(AddRule(draft, rule, Held))  BY <2>1
    <2>. HIDE DEF rule
    <2>. QED  BY <1>0, <2>2, <2>3, AddRuleListed DEF ListsEdited
  <1>2. CASE ClickToggle  BY <1>0, <1>2, ToggleRuleListed DEF ClickToggle, ListsEdited
  <1>3. CASE ClickDuplicate
    <2>1. PICK i, copied : copied \in Labels /\ Change(DuplicateRule(draft, draft.rules[i].key, copied, Held))
      BY <1>3 DEF ClickDuplicate
    <2>2. Listed(DuplicateRule(draft, draft.rules[i].key, copied, Held))  BY <1>0, <1>a, <2>1, DuplicateRuleListed
    <2>. QED  BY <2>1, <2>2 DEF ListsEdited
  <1>4. CASE ClickDeleteRule
    <2>1. PICK i : (\/ Change(DeleteRule(draft, draft.rules[i].key))
                    \/ OpenDelete("deleteRule", "", draft.rules[i].key))
      BY <1>4 DEF ClickDeleteRule
    <2>. QED  BY <1>0, <2>1, DeleteRuleListed DEF ListsEdited, ListsOpen, OpenDelete
  <1>5. CASE ClickEditRule
    <2>1. PICK i \in DOMAIN draft.rules : Open("rule", "", draft.rules[i].key, draft.rules[i].uses,
                                              draft.rules[i].label, draft.rules[i].enabled)
      BY <1>5 DEF ClickEditRule
    <2>2. draft.rules[i].uses \in Element /\ draft.rules[i].label \in LabelsOrNone /\ draft.rules[i].enabled \in BOOLEAN
      BY <1>b DEF DraftRule
    <2>. QED  BY <2>1, <2>2 DEF ListsOpen
  <1>6. CASE SubmitRule
    <2>. DEFINE was == [uses |-> dialog[1].uses, label |-> dialog[1].label, enabled |-> dialog[1].enabled]
    <2>1. was.uses \in Element /\ was.label \in LabelsOrNone /\ was.enabled \in BOOLEAN
      BY <1>6 DEF SubmitRule, InDialog, ListsInv, DialogLists, ListedDialog
    <2>2. PICK r : /\ r \in {[was EXCEPT !.uses = body] : body \in Bodies}
                            \cup {[was EXCEPT !.label = label] : label \in Labels \cup {NoLabel}}
                            \cup {[was EXCEPT !.enabled = ~@]}
                   /\ Change(UpdateRule(draft, dialog[1].key, r))
      BY <1>6, Zenon DEF SubmitRule
    <2>3. r.uses \in Element /\ r.label \in LabelsOrNone /\ r.enabled \in BOOLEAN
      BY <2>1, <2>2, EditorAssumption DEF LabelsOrNone
    <2>4. Listed(UpdateRule(draft, dialog[1].key, r))  BY <1>0, <2>3, UpdateRuleListed
    <2>. QED  BY <2>2, <2>4 DEF ListsEdited
  <1>7. CASE ConfirmDeleteRule  BY <1>0, <1>7, DeleteRuleListed DEF ConfirmDeleteRule, ListsEdited
  <1>. QED  BY <1>1, <1>2, <1>3, <1>4, <1>5, <1>6, <1>7 DEF RulesTab

LEMMA ListSectionLists ==
  ASSUME EditorInv, ListsInv, ListSection PROVE ListsEdited \/ ListsOpen
  <1>0. Drafted(draft) /\ Listed(draft) /\ IsFiniteSet(Held)  BY HeldIsFinite DEF EditorInv, ListsInv
  <1>1. CASE ClickAddExtra
    BY <1>0, <1>1, AddExtraListed, EditorAssumption DEF ClickAddExtra, ListsEdited
  <1>2. CASE ClickDeleteExtra
    <2>1. PICK i : (\/ Change(DeleteExtra(draft, draft.extras[i].key))
                    \/ OpenDelete("deleteExtra", "", <<"extra", draft.extras[i].key>>))
      BY <1>2 DEF ClickDeleteExtra
    <2>. QED  BY <1>0, <2>1, DeleteExtraListed DEF ListsEdited, ListsOpen, OpenDelete
  <1>3. CASE ClickEditExtra  BY <1>3 DEF ClickEditExtra, ListsOpen
  <1>4. CASE SubmitExtra
    BY <1>0, <1>4, SetExtraListed, EditorAssumption DEF SubmitExtra, ListsEdited
  <1>5. CASE ConfirmDeleteExtra  BY <1>0, <1>5, DeleteExtraListed DEF ConfirmDeleteExtra, ListsEdited
  <1>. QED  BY <1>1, <1>2, <1>3, <1>4, <1>5 DEF ListSection

LEMMA EntryTabLists ==
  ASSUME EditorInv, ListsInv, NEW s \in Named, EntryTab(s) PROVE ListsEdited \/ ListsOpen
  <1>0. Drafted(draft) /\ Listed(draft) /\ s \in Sections  BY DEF EditorInv, ListsInv, Named
  <1>1. CASE ClickAddEntry(s)  BY <1>0, <1>1, EntriesListed DEF ClickAddEntry, ListsEdited
  <1>2. CASE ClickEditEntry(s)  BY <1>2 DEF ClickEditEntry, ListsOpen
  <1>3. CASE ClickDeleteEntry(s)  BY <1>3 DEF ClickDeleteEntry, OpenDelete, ListsOpen
  <1>4. CASE SubmitNamed(s)
    <2>1. PICK e \in Submittable(s) :
            Change(SetEntry(RenameKey(draft, s, dialog[1].key[2], e[1]), s, e[1], e[2]))
      BY <1>4 DEF SubmitNamed
    <2>2. e[1] \in Names[s]  BY <1>0, <1>4, SubmittedNames DEF SubmitNamed
    <2>3. e[1] \in Selectors  BY <2>2, SectionsAre DEF Named, Selectors
    <2>4. Listed(RenameKey(draft, s, dialog[1].key[2], e[1])) /\ Drafted(RenameKey(draft, s, dialog[1].key[2], e[1]))
      BY <1>0, <2>2, <2>3, RenameKeyListed, RenameKeyEdits DEF EditOf
    <2>. QED  BY <2>1, <2>4, EntriesListed DEF ListsEdited
  <1>5. CASE ConfirmDeleteEntry(s)  BY <1>0, <1>5, EntriesListed DEF ConfirmDeleteEntry, ListsEdited
  <1>. QED  BY <1>1, <1>2, <1>3, <1>4, <1>5 DEF EntryTab

LEMMA AutoApproversLists ==
  ASSUME EditorInv, ListsInv, AutoApprovers \/ ClickRandomize PROVE ListsEdited \/ ListsOpen
  <1>0. Drafted(draft) /\ Listed(draft)  BY DEF EditorInv, ListsInv
  <1>1. CASE ClickAddEntry("routes")  BY <1>0, <1>1, EntriesListed DEF ClickAddEntry, ListsEdited
  <1>2. CASE ClickEditEntry("routes")  BY <1>2 DEF ClickEditEntry, ListsOpen
  <1>3. CASE ClickDeleteRoute  BY <1>0, <1>3, EntriesListed DEF ClickDeleteRoute, ListsEdited
  <1>4. CASE SubmitRoute  BY <1>0, <1>4, EntriesListed DEF SubmitRoute, ListsEdited
  <1>5. CASE EditExitNode  BY <1>0, <1>5, EntriesListed DEF EditExitNode, ListsEdited
  <1>6. CASE ClickRandomize  BY <1>0, <1>6, EntriesListed DEF ClickRandomize, ListsEdited
  <1>. QED  BY <1>1, <1>2, <1>3, <1>4, <1>5, <1>6 DEF AutoApprovers

LEMMA ListEditStep == ASSUME EditorInv, ListsInv, ListsEdited \/ ListsOpen PROVE ListsInv'
  <1>1. CASE ListsEdited
    <2>1. PICK d : Listed(d) /\ Change(d)  BY <1>1 DEF ListsEdited
    <2>2. /\ draft' = Show(d, cache) /\ dialog' = <<>>
          /\ UNCHANGED <<text, metas, written, cache, flight, conflict, saving>>
      BY <2>1 DEF Change, server
    <2>3. Listed(draft')  BY <2>1, <2>2, ShownIsListed DEF ListsInv
    <2>. QED  BY <2>2, <2>3 DEF ListsInv, WrittenOK, NoneOrListed, DialogLists, SavingLists
  <1>2. CASE ListsOpen
    <2>1. PICK kind, s, key, uses, label, enabled :
            /\ kind = "rule" => uses \in Element /\ label \in LabelsOrNone /\ enabled \in BOOLEAN
            /\ Open(kind, s, key, uses, label, enabled)
      BY <1>2 DEF ListsOpen
    <2>2. /\ dialog' = <<[kind |-> kind, section |-> s, key |-> key, uses |-> uses, label |-> label, enabled |-> enabled]>>
          /\ UNCHANGED <<text, metas, written, cache, flight, draft, conflict, saving>>
      BY <2>1 DEF Open, server
    <2>3. DialogLists'  BY <2>1, <2>2 DEF DialogLists, ListedDialog
    <2>. QED  BY <2>2, <2>3 DEF ListsInv, WrittenOK, NoneOrListed, Listed, SavingLists
  <1>. QED  BY <1>1, <1>2

LEMMA ListFetchStep ==
  ASSUME EditorInv, ListsInv, StartFetch \/ ServeFetch \/ FetchArrives \/ FetchFails PROVE ListsInv'
  <1>. USE DEF server, page
  <1>1. CASE StartFetch
    BY <1>1 DEF StartFetch, ListsInv, WrittenOK, NoneOrListed, Listed, DialogLists, SavingLists
  <1>2. CASE ServeFetch
    <2>1. PICK f : flight = <<f>> /\ f = [saved |-> f.saved, read |-> f.read]
      BY <1>2 DEF ServeFetch, EditorInv, FlightOK
    <2>2. flight' = <<[saved |-> f.saved, read |-> <<Model>>]>>  BY <1>2, <2>1 DEF ServeFetch
    <2>3. flight' # <<>> => NoneOrListed(flight'[1].read)  BY <2>2, ServedLists DEF NoneOrListed
    <2>4. UNCHANGED <<text, metas, written, cache, draft, dialog, conflict, saving>>  BY <1>2 DEF ServeFetch
    <2>. QED  BY <2>3, <2>4 DEF ListsInv, WrittenOK, NoneOrListed, Listed, DialogLists, SavingLists
  <1>3. CASE FetchArrives
    <2>1. NoneOrListed(cache') /\ cache' # <<>> /\ flight' = <<>>
      BY <1>3 DEF FetchArrives, ListsInv
    <2>2. ListedModel(cache'[1])  BY <2>1 DEF NoneOrListed
    <2>3. Listed(IF flight[1].saved THEN DraftFromModel(cache'[1], Held) ELSE draft)
      BY <2>2, HeldIsFinite, DraftFromModelListed DEF ListsInv
    <2>4. draft' = Show(IF flight[1].saved THEN DraftFromModel(cache'[1], Held) ELSE draft, cache')
      BY <1>3 DEF FetchArrives
    <2>5. Listed(draft')  BY <2>1, <2>3, <2>4, ShownIsListed
    <2>6. UNCHANGED <<text, metas, written, dialog, conflict, saving>>  BY <1>3 DEF FetchArrives
    <2>. QED  BY <2>1, <2>5, <2>6 DEF ListsInv, WrittenOK, NoneOrListed, DialogLists, SavingLists
  <1>4. CASE FetchFails
    <2>1. flight[1].saved => ListedModel(cache[1])
      BY <1>4 DEF FetchFails, EditorInv, NeedsModel, ListsInv, NoneOrListed
    <2>2. Listed(draft')  BY <1>4, <2>1, HeldIsFinite, DraftFromModelListed DEF FetchFails, ListsInv
    <2>3. flight' = <<>> /\ UNCHANGED <<text, metas, written, cache, dialog, conflict, saving>>  BY <1>4 DEF FetchFails
    <2>. QED  BY <2>2, <2>3 DEF ListsInv, WrittenOK, NoneOrListed, DialogLists, SavingLists
  <1>. QED  BY <1>1, <1>2, <1>3, <1>4

LEMMA ListDialogStep ==
  ASSUME EditorInv, ListsInv, CloseDialog \/ Discard \/ OpenSave \/ CloseSave \/ OtherSave PROVE ListsInv'
  <1>. USE DEF server, page
  <1>1. CASE CloseDialog
    BY <1>1 DEF CloseDialog, ListsInv, WrittenOK, NoneOrListed, Listed, DialogLists, SavingLists
  <1>2. CASE Discard
    <2>1. ListedModel(cache[1])  BY <1>2 DEF Discard, PageFree, Uncovered, ListsInv, NoneOrListed
    <2>2. Listed(draft')  BY <1>2, <2>1, HeldIsFinite, DraftFromModelListed DEF Discard
    <2>. QED  BY <1>2, <2>2 DEF Discard, ListsInv, WrittenOK, NoneOrListed, DialogLists, SavingLists
  <1>3. CASE OpenSave
    BY <1>3 DEF OpenSave, ListsInv, WrittenOK, NoneOrListed, Listed, DialogLists, SavingLists
  <1>4. CASE CloseSave
    BY <1>4 DEF CloseSave, ListsInv, WrittenOK, NoneOrListed, Listed, DialogLists, SavingLists
  <1>5. CASE OtherSave
    <2>1. text'.rules \in Seq(Element) /\ text'.extras \in Seq(Element)  BY <1>5, EditorAssumption DEF OtherSave
    <2>2. written' = <<>> /\ UNCHANGED <<metas, cache, flight, draft, dialog, conflict, saving>>  BY <1>5 DEF OtherSave
    <2>. QED  BY <2>1, <2>2 DEF ListsInv, WrittenOK, NoneOrListed, Listed, DialogLists, SavingLists
  <1>. QED  BY <1>1, <1>2, <1>3, <1>4, <1>5

\* A save is sent with the enabled rules and the rows of the list it carries.
LEMMA ListSendStep == ASSUME EditorInv, ListsInv, DoSave PROVE ListsInv'
  <1>. DEFINE text1 == SavedText(draft)
              body == ToSaveBody(draft)
              save == [body |-> body, rules |-> draft.rules,
                       summary |-> DiffDraft(draft.base[1], draft), answer |-> "none", current |-> <<>>]
  <1>1. saving' = <<save>> /\ UNCHANGED <<text, metas, written, cache, flight, draft, dialog, conflict>>
    BY DEF DoSave, server, page
  <1>2. body.text = text1 /\ body.metas = MetaRows(draft.rules)  BY DEF ToSaveBody
  <1>3. text1.rules = LiveRules(draft.rules) /\ text1.extras = [i \in DOMAIN draft.extras |-> draft.extras[i].value]
    BY DEF SavedText
  <1>4. text1.extras \in Seq(Element)
    <2>1. draft.extras \in Seq(Item)  BY DEF ListsInv, Listed, ListedItems
    <2>2. Len(draft.extras) \in Nat /\ DOMAIN draft.extras = 1..Len(draft.extras)
          /\ \A i \in 1..Len(draft.extras) : draft.extras[i] \in Item
      BY <2>1
    <2>3. [i \in DOMAIN draft.extras |-> draft.extras[i].value] \in [1..Len(draft.extras) -> Element]
      BY <2>2 DEF Item
    <2>. QED  BY <1>3, <2>2, <2>3, AList
  <1>5. save.rules = draft.rules /\ save.current = <<>> /\ save.body = body  OBVIOUS
  <1>6. draft.rules \in Seq(DraftRule)  BY DEF ListsInv, Listed
  <1>. HIDE DEF text1, body, save
  <1>7. ListedSave(save)  BY <1>2, <1>3, <1>4, <1>5, <1>6 DEF ListedSave, NoneOrListed
  <1>8. SavingLists'  BY <1>1, <1>7 DEF SavingLists
  <1>. QED  BY <1>1, <1>8 DEF ListsInv, WrittenOK, NoneOrListed, Listed, DialogLists

LEMMA ListServeStep == ASSUME EditorInv, ListsInv, ServeSave PROVE ListsInv'
  <1>1. PICK save : /\ saving = <<save>>
                    /\ save = [body |-> save.body, rules |-> save.rules, summary |-> save.summary,
                               answer |-> save.answer, current |-> save.current]
    BY DEF ServeSave, EditorInv, SavingOK
  <1>2. ListedSave(save)  BY <1>1 DEF ListsInv, SavingLists
  <1>3. PICK a, current : Answer(a, current) /\ NoneOrListed(current)
    <2>1. NoneOrListed(<<>>) /\ NoneOrListed(<<Model>>)  BY ServedLists DEF NoneOrListed
    <2>. QED  BY <2>1 DEF ServeSave
  <1>4. saving' = <<[body |-> save.body, rules |-> save.rules, summary |-> save.summary,
                     answer |-> a, current |-> current]>>
    <2>1. saving' = <<[save EXCEPT !.answer = a, !.current = current]>>  BY <1>1, <1>3 DEF Answer
    <2>2. [save EXCEPT !.answer = a, !.current = current] =
            [body |-> save.body, rules |-> save.rules, summary |-> save.summary, answer |-> a, current |-> current]
      BY <1>1, AnsweredSave
    <2>. QED  BY <2>1, <2>2
  <1>5. SavingLists'  BY <1>2, <1>3, <1>4 DEF SavingLists, ListedSave
  <1>6. Table(MetaRows(save.rules)) /\ LiveRules(save.rules) \in Seq(Element)
    BY <1>2, MetaRowsTable, LiveRulesAre DEF ListedSave
  <1>7. \/ UNCHANGED <<text, metas, written>>
        \/ /\ text' = save.body.text /\ metas' \in {save.body.metas, metas}
           /\ written' = IF metas' = save.body.metas THEN <<save.rules>> ELSE <<>>
    BY <1>1 DEF ServeSave, server
  <1>8. text'.rules \in Seq(Element) /\ text'.extras \in Seq(Element) /\ Table(metas') /\ WrittenOK'
    <2>1. CASE UNCHANGED <<text, metas, written>>  BY <2>1 DEF ListsInv, WrittenOK
    <2>2. CASE /\ text' = save.body.text /\ metas' \in {save.body.metas, metas}
               /\ written' = IF metas' = save.body.metas THEN <<save.rules>> ELSE <<>>
      <3>1. text'.rules = LiveRules(save.rules) /\ text'.extras \in Seq(Element)  BY <1>2, <2>2 DEF ListedSave
      <3>2. Table(metas')  BY <1>2, <1>6, <2>2 DEF ListedSave, ListsInv
      <3>3. WrittenOK'
        <4>1. CASE metas' = save.body.metas
          <5>1. written' = <<save.rules>> /\ metas' = MetaRows(save.rules)  BY <1>2, <2>2, <4>1 DEF ListedSave
          <5>. QED  BY <1>2, <3>1, <5>1 DEF WrittenOK, ListedSave
        <4>2. CASE metas' # save.body.metas  BY <2>2, <4>2 DEF WrittenOK
        <4>. QED  BY <4>1, <4>2
      <3>. QED  BY <1>6, <3>1, <3>2, <3>3
    <2>. QED  BY <1>7, <2>1, <2>2
  <1>9. UNCHANGED <<cache, flight, draft, dialog, conflict>>  BY DEF ServeSave, page
  <1>. QED  BY <1>5, <1>8, <1>9 DEF ListsInv, NoneOrListed, Listed, DialogLists

LEMMA ListAnswerStep == ASSUME EditorInv, ListsInv, SaveAnswered PROVE ListsInv'
  <1>1. saving # <<>> /\ cache # <<>> /\ NoneOrListed(conflict')
    BY DEF SaveAnswered, EditorInv, NeedsModel, ListsInv, SavingLists, ListedSave
  <1>2. flight' # <<>> => NoneOrListed(flight'[1].read)  BY DEF SaveAnswered, NoneOrListed
  <1>3. ListedModel(cache[1])  BY <1>1 DEF ListsInv, NoneOrListed
  <1>4. Listed(draft')  BY <1>3, HeldIsFinite, DraftFromModelListed DEF SaveAnswered, ListsInv
  <1>5. saving' = <<>> /\ UNCHANGED <<text, metas, written, cache, dialog>>  BY DEF SaveAnswered, server
  <1>. QED  BY <1>1, <1>2, <1>4, <1>5 DEF ListsInv, WrittenOK, NoneOrListed, DialogLists, SavingLists

LEMMA ListConflictStep ==
  ASSUME EditorInv, ListsInv, ReloadAfterConflict \/ RebaseAfterConflict PROVE ListsInv'
  <1>1. conflict # <<>> /\ draft.base # <<>>
    BY DEF ReloadAfterConflict, RebaseAfterConflict, EditorInv, NeedsModel
  <1>2. ListedModel(conflict[1])  BY <1>1 DEF ListsInv, NoneOrListed
  <1>3. Listed(Rebased)  BY <1>1, <1>2, MergeListed DEF ListsInv
  <1>4. Listed(DraftFromModel(conflict[1], Held))  BY <1>2, HeldIsFinite, DraftFromModelListed
  <1>5. Listed(draft')
    BY <1>3, <1>4, ShownIsListed DEF ReloadAfterConflict, RebaseAfterConflict, ListsInv
  <1>6. conflict' = <<>> /\ UNCHANGED <<text, metas, written, cache, flight, dialog, saving>>
    BY DEF ReloadAfterConflict, RebaseAfterConflict, server
  <1>. QED  BY <1>5, <1>6 DEF ListsInv, WrittenOK, NoneOrListed, DialogLists, SavingLists

LEMMA ListsStep == EditorInv /\ ListsInv /\ [EditorNext]_editorVars => ListsInv'
  <1>. SUFFICES ASSUME EditorInv, ListsInv, [EditorNext]_editorVars PROVE ListsInv'
    OBVIOUS
  <1>1. CASE UNCHANGED editorVars
    BY <1>1 DEF editorVars, server, page, ListsInv, WrittenOK, NoneOrListed, Listed, DialogLists, SavingLists
  <1>2. CASE RulesTab \/ PolicySections \/ GroupsTab \/ TagOwnersTab \/ HostsTab
    <2>1. {"groups", "tagOwners", "hosts"} \subseteq Named  BY SectionsAre DEF Named
    <2>2. ListsEdited \/ ListsOpen
      BY <1>2, <2>1, RulesTabLists, ListSectionLists, EntryTabLists, AutoApproversLists
      DEF PolicySections, GroupsTab, TagOwnersTab, HostsTab
    <2>. QED  BY <2>2, ListEditStep
  <1>3. CASE EditorNext /\ ~(RulesTab \/ PolicySections \/ GroupsTab \/ TagOwnersTab \/ HostsTab)
    BY <1>3, ListFetchStep, ListDialogStep, ListSendStep, ListServeStep, ListAnswerStep, ListConflictStep DEF EditorNext
  <1>. QED  BY <1>1, <1>2, <1>3

LEMMA ListsInvariance == EditorSpec => [](EditorInv /\ ListsInv)
  <1>1. EditorInit => EditorInv /\ ListsInv  BY EditorStarts, ListsStart
  <1>2. (EditorInv /\ ListsInv) /\ [EditorNext]_editorVars => (EditorInv /\ ListsInv)'  BY EditorStep, ListsStep
  <1>. QED  BY <1>1, <1>2, PTL DEF EditorSpec

LEMMA AtMostOne ==
  ASSUME NEW E, NEW s, s = <<>> \/ \E e : s = <<e>> /\ e \in E
  PROVE  s \in Seq(E) /\ Len(s) <= 1
  <1>1. CASE s = <<>>  BY <1>1
  <1>2. ASSUME NEW e \in E, s = <<e>> PROVE s \in Seq(E) /\ Len(s) <= 1
    <2>1. <<e>> \in Seq(E) /\ Len(<<e>>) = 1  OBVIOUS
    <2>. QED  BY <1>2, <2>1
  <1>. QED  BY <1>1, <1>2

\* Every variable of the page keeps its type: whatever is polled, edited,
\* renamed, saved, discarded and merged, the rules of a draft have selectors,
\* a label and a switch, its elements have different keys, and a dialog, a
\* save or a conflict comes with a draft of a model.
THEOREM EditorTypes == EditorSpec => []EditorTypeOK
  <1>1. ASSUME EditorInv, ListsInv PROVE EditorTypeOK
    <2>1. \A s : NoneOrFine(s) => s = <<>> \/ \E m : s = <<m>> /\ m.hash.keyed = m.keyed
      BY DEF NoneOrFine, FineModel
    <2>2. /\ cache = <<>> \/ \E m : cache = <<m>> /\ m.hash.keyed = m.keyed
          /\ conflict = <<>> \/ \E m : conflict = <<m>> /\ m.hash.keyed = m.keyed
          /\ draft.base = <<>> \/ \E m : draft.base = <<m>> /\ m.hash.keyed = m.keyed
      BY <1>1, <2>1 DEF EditorInv, Drafted
    <2>3. \A m \in Values(cache \o conflict \o draft.base) : m.hash.keyed = m.keyed
      <3>. DEFINE Fine == {m \in Values(cache) \cup Values(conflict) \cup Values(draft.base) : m.hash.keyed = m.keyed}
      <3>0. \A m : Values(<<m>>) = {m}  BY DEF Values
      <3>a. cache = <<>> \/ \E m : cache = <<m>> /\ m \in Fine  BY <2>2, <3>0
      <3>b. conflict = <<>> \/ \E m : conflict = <<m>> /\ m \in Fine  BY <2>2, <3>0
      <3>c. draft.base = <<>> \/ \E m : draft.base = <<m>> /\ m \in Fine  BY <2>2, <3>0
      <3>1. cache \in Seq(Fine) /\ conflict \in Seq(Fine) /\ draft.base \in Seq(Fine)
        <4>. HIDE DEF Fine
        <4>. QED  BY <3>a, <3>b, <3>c, AtMostOne
      <3>2. \A m \in Fine : m.hash.keyed = m.keyed  OBVIOUS
      <3>. HIDE DEF Fine
      <3>. DEFINE s == cache \o conflict \o draft.base
      <3>3. s \in Seq(Fine)  BY <3>1, Joined
      <3>. HIDE DEF s
      <3>4. \A m \in Values(s) : m \in Fine  BY <3>3 DEF Values
      <3>. QED  BY <3>2, <3>4 DEF s
    <2>4. Len(cache) <= 1 /\ Len(flight) <= 1 /\ Len(dialog) <= 1 /\ Len(saving) <= 1 /\ Len(conflict) <= 1
      <3>1. (cache = <<>> \/ \E e : cache = <<e>>) /\ (conflict = <<>> \/ \E e : conflict = <<e>>)  BY <2>2
      <3>2. flight = <<>> \/ \E e : flight = <<e>>  BY <1>1 DEF EditorInv, FlightOK
      <3>3. dialog = <<>> \/ \E e : dialog = <<e>>  BY <1>1 DEF ListsInv, DialogLists
      <3>4. saving = <<>> \/ \E e : saving = <<e>>  BY <1>1 DEF EditorInv, SavingOK
      <3>5. \A s : (s = <<>> \/ \E e : s = <<e>>) => Len(s) <= 1
        <4>. SUFFICES ASSUME NEW s, s = <<>> \/ \E e : s = <<e>> PROVE Len(s) <= 1
          OBVIOUS
        <4>1. \E E : s = <<>> \/ \E e : s = <<e>> /\ e \in E
          <5>1. ASSUME NEW e, s = <<e>> PROVE e \in {e}  OBVIOUS
          <5>. QED  BY <5>1
        <4>. QED  BY <4>1, AtMostOne
      <3>. QED  BY <3>1, <3>2, <3>3, <3>4, <3>5
    <2>5. DOMAIN draft.keyed = Sections /\ \A s \in Sections : DOMAIN draft.keyed[s] \subseteq Names[s]
      BY <1>1 DEF EditorInv, Drafted, WellKeyed
    <2>6. \A r \in Values(draft.rules) : r.uses \in Element /\ r.label \in Labels \cup {NoLabel} /\ r.enabled \in BOOLEAN
      <3>1. draft.rules \in Seq(DraftRule)  BY <1>1 DEF ListsInv, Listed
      <3>2. \A r \in Values(draft.rules) : r \in DraftRule  BY <3>1 DEF Values
      <3>. QED  BY <3>2 DEF DraftRule, LabelsOrNone
    <2>7. \A i, j \in DOMAIN draft.extras : draft.extras[i].key = draft.extras[j].key => i = j
      BY <1>1 DEF ListsInv, Listed, ListedItems, DistinctKeys
    <2>8. /\ cache # <<>> => draft.base # <<>>
          /\ dialog # <<>> \/ saveOpen \/ saving # <<>> \/ conflict # <<>> => draft.base # <<>>
      BY <1>1 DEF EditorInv, NeedsModel
    <2>. QED  BY <2>3, <2>4, <2>5, <2>6, <2>7, <2>8 DEF EditorTypeOK
  <1>. QED  BY <1>1, ListsInvariance, PTL

\* Saved is shown: as long as the server has the policy and the rows of a save
\* of rules without twins, the model that it builds from them has these rules,
\* in their order, disabled ones back in their places, with their labels
\* (metaRows, modelState, toSaveBody), for any number of rules.
THEOREM SavedRulesAreShown == EditorSpec => []SavedIsShown
  <1>1. ListsInv => SavedIsShown
    BY SavedRulesShown DEF ListsInv, WrittenOK, SavedIsShown
  <1>. QED  BY <1>1, ListsInvariance, PTL
=============================================================================
