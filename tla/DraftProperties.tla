--------------------------- MODULE DraftProperties ----------------------------
(***************************************************************************)
(* What the structured editor promises its user.                           *)
(***************************************************************************)
EXTENDS DraftEditor

\* Every variable keeps its type: in particular a draft is made from a model
\* as soon as the page has one, and a dialog, a save or a conflict needs one.
EditorTypeOK ==
  /\ \A m \in Values(cache \o conflict \o draft.base) : m.hash.keyed = m.keyed
  /\ Len(cache) <= 1 /\ Len(flight) <= 1 /\ Len(dialog) <= 1 /\ Len(saving) <= 1 /\ Len(conflict) <= 1
  /\ DOMAIN draft.keyed = Sections
  /\ \A s \in Sections : DOMAIN draft.keyed[s] \subseteq Names[s]
  /\ \A r \in Values(draft.rules) : r.uses \in Element /\ r.label \in Labels \cup {NoLabel} /\ r.enabled \in BOOLEAN
  /\ \A i, j \in DOMAIN draft.extras : draft.extras[i].key = draft.extras[j].key => i = j
  /\ (cache # <<>> => draft.base # <<>>)
  /\ (dialog # <<>> \/ saveOpen \/ saving # <<>> \/ conflict # <<>> => draft.base # <<>>)

Content(rules) == [i \in DOMAIN rules |-> [uses |-> rules[i].uses, label |-> rules[i].label, enabled |-> rules[i].enabled]]
Contents(items) == [i \in DOMAIN items |-> items[i].value]
AllDifferent(s) == \A i, j \in DOMAIN s : s[i] = s[j] => i = j

\* Saved is shown: after a save of rules without twins the model that the
\* server builds from policy and rule table has these rules, in their order,
\* disabled ones in their places, with their labels (MetaRows, ModelRules).
SavedIsShown ==
  written # <<>> /\ AllDifferent([i \in DOMAIN written[1] |-> written[1][i].uses])
    => ModelRules(text.rules, metas) = Content(written[1])

\* Renaming a group, tag or host in its dialog leaves no reference to the old
\* name behind and carries every reference over to the new one, in all
\* sections of the draft (renameKey).
RenameMovesReferences ==
  [][\A s \in Named : \A from \in DOMAIN draft.keyed[s] : \A to \in Names[s] \ DOMAIN draft.keyed[s] :
       /\ dialog # <<>> /\ dialog[1].kind = "entry" /\ dialog[1].key = <<"name", from>>
       /\ used'.edits # used.edits /\ draft'.base = draft.base
       /\ to \in DOMAIN draft'.keyed[s]
       => LET was == ReferencesOf(draft, from)
              is == ReferencesOf(draft', to)
              left == ReferencesOf(draft', from)
          IN  /\ from \notin DOMAIN draft'.keyed[s]
              /\ \A part \in {"rules", "owners", "extras", "routes"} :
                   left[part] = {} /\ was[part] \subseteq is[part]
              /\ ~left["exit"] /\ (was["exit"] => is["exit"])]_editorVars

\* A save that the server applies changes the policy by exactly what the
\* dialog listed for review when it was sent: the summary against the base of
\* the draft, although polls, other saves and edits went on in between.
SavesWhatWasReviewed ==
  [][text' # text /\ saving # <<>> /\ saving' # saving
     => LET sum == saving[1].summary
        IN  /\ \A s \in Sections : DiffKeys(text.keyed[s], text'.keyed[s]) = sum.keyed[s]
            /\ sum.exitNode = (text'.exitNode # text.exitNode)
            /\ sum.randomize = (text'.randomize # text.randomize)
            /\ text'.rules # text.rules =>
                 sum.rules.added # <<>> \/ sum.rules.changed # <<>> \/ sum.rules.removed # {}
            /\ text'.extras # text.extras => Touched(sum.extras) # {}]_editorVars

\* Re-applying a draft on the model a 409 brought.
Reapplies == conflict # <<>> /\ conflict' = <<>> /\ ~saveOpen /\ saveOpen'
             /\ draft'.base = conflict /\ draft' # draft
Reviewed == DiffDraft(draft.base[1], draft)

\* ... is a three-way merge of the named entries: what the user touched is as
\* in the old draft, everything else as the server has it (mergeKeys).
RebaseMergesEntries ==
  [][Reapplies =>
       \A s \in Sections, name \in UNION {Names[t] : t \in Sections} :
         LET Entry(f) == IF name \in DOMAIN f THEN <<f[name]>> ELSE <<>>
         IN  Entry(draft'.keyed[s]) = IF name \in Touched(Reviewed.keyed[s])
                                      THEN Entry(draft.keyed[s]) ELSE Entry(conflict[1].keyed[s])]_editorVars

\* ... and of the rules, as long as no two of them are equal: removed rules
\* stay away, edited and added ones are in the new draft once with the user's
\* content, and the others are the server's in the server's order.
RebaseMergesRules ==
  [][Reapplies /\ AllDifferent([i \in DOMAIN draft.base[1].rules |-> draft.base[1].rules[i].uses])
               /\ AllDifferent([i \in DOMAIN conflict[1].rules |-> conflict[1].rules[i].uses])
     => LET was == draft.base[1]
            mine == Sublist(draft.rules, {i \in DOMAIN draft.rules :
                      IsAdded(was, draft.rules[i]) \/ IsChanged(was, draft.rules[i])})
            edited == {mine[i].serverId : i \in DOMAIN mine} \cup Reviewed.rules.removed
            theirs == Sublist(conflict[1].rules,
                              {i \in DOMAIN conflict[1].rules : conflict[1].rules[i].uses \notin edited})
            after == Content(draft'.rules)
            others == Values(theirs) \ Values(Content(mine))
        IN  /\ \A r \in Values(after) \cup Values(Content(mine)) \cup Values(theirs) :
                 Times(after, r) = Times(Content(mine), r) + Times(theirs, r)
            /\ Among(after, others) = Among(theirs, others)]_editorVars

\* ... and of the other policy elements, as long as the base lists no element
\* twice: no edit and no addition of the user gets lost, nothing that was
\* removed comes back, nothing of the server disappears (rebaseExtras).
RebaseMergesElements ==
  [][Reapplies /\ AllDifferent(draft.base[1].extras)
     => LET base == draft.base[1].extras
            items == draft.extras
            mine == Sublist(items, {i \in DOMAIN items : IsNew(base, items[i]) \/ IsEdited(base, items[i])})
            gone == {base[i] : i \in {j \in DOMAIN base : ~\E k \in DOMAIN items : items[k].origin = j}}
                    \cup {base[mine[i].origin] : i \in {j \in DOMAIN mine : IsEdited(base, mine[j])}}
            theirs == conflict[1].extras
            Less(v) == IF v \in gone /\ Times(theirs, v) > 0 THEN 1 ELSE 0
        IN  \A v \in Element :
              Times(Contents(draft'.extras), v) = Times(theirs, v) - Less(v) + Times(Contents(mine), v)]_editorVars

\* A rule is edited, removed, copied or switched alone, as long as the server
\* had no two equal rules: an edit changes one rule of the list at most,
\* inserts one or removes one, although rules are found by a client-side key
\* that survives polls, copies and merges.  Renaming an entry is the exception.
EditsOneRule ==
  [][draft'.base = draft.base /\ used'.edits # used.edits
     /\ (dialog = <<>> \/ dialog[1].kind # "entry")
     /\ AllDifferent([i \in DOMAIN draft.base[1].rules |-> draft.base[1].rules[i].uses])
     => LET before == draft.rules
            after == draft'.rules
        IN  CASE Len(after) = Len(before) -> Cardinality({i \in DOMAIN before : before[i] # after[i]}) <= 1
              [] OTHER -> Len(after) \in {Len(before) - 1, Len(before) + 1}]_editorVars

\* A page that is left alone ends up with the server's policy, or with a
\* draft or a conflict that its user has to decide about.
DraftCatchesUp ==
  []<>(Dirty(draft) \/ conflict # <<>> \/ (draft.base # <<>> /\ draft.base[1].hash = text))
=============================================================================
