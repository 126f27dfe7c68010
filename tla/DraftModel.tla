---------------------------- MODULE DraftModel ------------------------------
(***************************************************************************)
(* The pure logic of the structured policy editor                          *)
(* (frontend/src/pages/acls/model.ts): the draft made from the server's    *)
(* model, what an edit does to it, the change summary against its base,    *)
(* the three-way merge after a 409 and the body of a save; and the two     *)
(* functions of internal/policy/model.go the draft goes through on the     *)
(* server, metaRows and modelState.                                        *)
(*                                                                         *)
(* A rule or another policy element is the set of selectors it mentions:   *)
(* its fingerprint is its content.  A label is a name with a description.  *)
(* Lists of members and owners are sets.  The five list sections (grants,  *)
(* ssh, nodeAttrs, tests, sshTests) are handled alike: "extras" is one of  *)
(* them.                                                                   *)
(***************************************************************************)
EXTENDS Lists, SequencesExt

CONSTANTS
  Users,     \* user selectors and, as members of hosts, addresses
  Groups,    \* names a group may have
  Tags,      \* names a tag may have
  Hosts,     \* names a host may have
  RoutePrefixes,  \* route prefixes
  Labels,    \* names of rules
  NoLabel    \* a rule without name and description

Names == [groups |-> Groups, tagOwners |-> Tags, hosts |-> Hosts, routes |-> RoutePrefixes]
Sections == DOMAIN Names
Named == Sections \ {"routes"}
Selectors == Users \cup Groups \cup Tags \cup Hosts
Element == (SUBSET Selectors) \ {{}}

Without(f, k) == [x \in DOMAIN f \ {k} |-> f[x]]
With(f, k, v) == [x \in DOMAIN f \cup {k} |-> IF x = k THEN v ELSE f[x]]
Values(s) == {s[i] : i \in DOMAIN s}

-----------------------------------------------------------------------------
(* The server: the policy text with its live rules, and the rows of        *)
(* acl_rule_meta, which hold labels and the disabled rules.                *)

MetaRowsByRow(rules) ==
  LET kept == SelectSeq(rules, LAMBDA r : ~r.enabled \/ r.label # NoLabel)
      Final(fp) == CHOOSE i \in DOMAIN kept : kept[i].uses = fp
  IN  [fp \in {kept[i].uses : i \in DOMAIN kept} |->
         [label |-> kept[Final(fp)].label, enabled |-> kept[Final(fp)].enabled, pos |-> Final(fp)]]

\* Two submitted rules with one fingerprint share a row; the last one wins.
MetaRows(rules) ==
  LET kept == {i \in DOMAIN rules : ~rules[i].enabled \/ rules[i].label # NoLabel}
      Final(fp) == CHOOSE i \in kept : /\ rules[i].uses = fp
                                      /\ \A j \in kept : rules[j].uses = fp => j <= i
  IN  [fp \in {rules[i].uses : i \in kept} |->
         [label |-> rules[Final(fp)].label, enabled |-> rules[Final(fp)].enabled, pos |-> Final(fp)]]

\* Disabled rules go back to their remembered position, in its order: one
\* table has no position twice.
WithDisabled(rules, fp, meta) ==
  InsertAt(rules, IF meta.pos > Len(rules) THEN Len(rules) + 1 ELSE meta.pos,
           [uses |-> fp, label |-> meta.label, enabled |-> FALSE])

ModelRules(live, metas) ==
  LET shown == [i \in DOMAIN live |->
                  [uses |-> live[i], enabled |-> TRUE,
                   label |-> IF live[i] \in DOMAIN metas THEN metas[live[i]].label ELSE NoLabel]]
      off == {fp \in DOMAIN metas : ~metas[fp].enabled /\ fp \notin Values(live)}
      places == {metas[fp].pos : fp \in off}
      Off(n) == CHOOSE fp \in off : metas[fp].pos = NthOf(places, n)
      rules[n \in 0..Cardinality(places)] ==
        IF n = 0 THEN shown ELSE WithDisabled(rules[n - 1], Off(n), metas[Off(n)])
  IN  rules[Cardinality(places)]

\* GET /api/policy/model.  The hash is that of the text alone.
ModelState(text, metas) ==
  [hash |-> text, keyed |-> text.keyed, rules |-> ModelRules(text.rules, metas),
   extras |-> text.extras, exitNode |-> text.exitNode, randomize |-> text.randomize]

-----------------------------------------------------------------------------
(* The draft.  A client-side identity is "id" with the fingerprint the     *)
(* server sent, or "new" with a number nothing else holds.                 *)

NewKey(held, n) == NthOf((1..(n + Cardinality(held))) \ held, n)

DraftRules(m) ==
  [i \in DOMAIN m.rules |->
     [key |-> <<"id", m.rules[i].uses>>, serverId |-> m.rules[i].uses,
      uses |-> m.rules[i].uses, label |-> m.rules[i].label, enabled |-> m.rules[i].enabled]]

DraftExtras(m, held) ==
  [i \in DOMAIN m.extras |-> [key |-> NewKey(held, i), origin |-> i, value |-> m.extras[i]]]

\* held: the numbers an open dialog still refers to.
DraftFromModel(m, held) ==
  [base |-> <<m>>, keyed |-> m.keyed, rules |-> DraftRules(m), extras |-> DraftExtras(m, held),
   exitNode |-> m.exitNode, randomize |-> m.randomize]

EmptyDraft == [base |-> <<>>, keyed |-> [s \in Sections |-> <<>>], rules |-> <<>>, extras |-> <<>>,
               exitNode |-> {}, randomize |-> FALSE]

Numbers(rules) == {rules[i].key[2] : i \in {j \in DOMAIN rules : rules[j].key[1] = "new"}}
ExtraKeys(d) == {d.extras[i].key : i \in DOMAIN d.extras}

-----------------------------------------------------------------------------
(* draftReducer: one operator per kind of edit.                            *)

AddRule(d, rule, held) ==
  [d EXCEPT !.rules = Append(@, [key |-> <<"new", NewKey(Numbers(d.rules) \cup held, 1)>>, serverId |-> {},
                                 uses |-> rule.uses, label |-> rule.label, enabled |-> rule.enabled])]

UpdateRule(d, key, rule) ==
  [d EXCEPT !.rules = [i \in DOMAIN @ |->
     IF @[i].key = key THEN [@[i] EXCEPT !.uses = rule.uses, !.label = rule.label, !.enabled = rule.enabled]
                       ELSE @[i]]]

ToggleRule(d, key) ==
  [d EXCEPT !.rules = [i \in DOMAIN @ |->
     IF @[i].key = key THEN [@[i] EXCEPT !.enabled = ~d.rules[i].enabled] ELSE @[i]]]

DeleteRule(d, key) == [d EXCEPT !.rules = Sublist(@, {i \in DOMAIN @ : @[i].key # key})]

\* Mutant of DuplicateRule: the copy keeps the key.
DuplicateKeepingKey(d, key, copied, held) ==
  LET hits == {i \in DOMAIN d.rules : d.rules[i].key = key}
      at == CHOOSE i \in hits : \A j \in hits : i <= j
  IN  IF hits = {} THEN d ELSE [d EXCEPT !.rules = InsertAt(@, at + 1, d.rules[at])]

\* The copy of a labelled rule is labelled too ("... (copy)").
DuplicateRule(d, key, copied, held) ==
  LET hits == {i \in DOMAIN d.rules : d.rules[i].key = key}
      at == CHOOSE i \in hits : \A j \in hits : i <= j
      rule == d.rules[at]
  IN  IF hits = {} THEN d
      ELSE [d EXCEPT !.rules = InsertAt(@, at + 1,
              [rule EXCEPT !.key = <<"new", NewKey(Numbers(d.rules) \cup held, 1)>>, !.serverId = {},
                           !.label = IF @ = NoLabel THEN NoLabel ELSE copied])]

\* setEntry, setHost and the plain form of setRoute.
SetEntry(d, s, name, members) == [d EXCEPT !.keyed[s] = With(@, name, members)]
DeleteKey(d, s, name) == [d EXCEPT !.keyed[s] = Without(@, name)]

Swap(S, from, to) == {IF x = from THEN to ELSE x : x \in S}
RenameInRule(r, from, to) ==
  [key |-> r.key, serverId |-> r.serverId, uses |-> Swap(r.uses, from, to), label |-> r.label, enabled |-> r.enabled]
RenameInElement(it, from, to) == [key |-> it.key, origin |-> it.origin, value |-> Swap(it.value, from, to)]

RenameKeyInRules(d, s, from, to) ==
  IF from = to \/ from \notin DOMAIN d.keyed[s] THEN d
  ELSE [d EXCEPT !.keyed[s] = [n \in (DOMAIN @ \ {from}) \cup {to} |-> IF n = to THEN @[from] ELSE @[n]],
                 !.rules = [i \in DOMAIN @ |-> RenameInRule(@[i], from, to)],
                 !.extras = [i \in DOMAIN @ |-> RenameInElement(@[i], from, to)]]

\* Group and tag names are also approvers; only groups own tags.
RenameKey(d, s, from, to) ==
  LET moved == [n \in (DOMAIN d.keyed[s] \ {from}) \cup {to} |->
                  IF n = to THEN d.keyed[s][from] ELSE d.keyed[s][n]]
      Renamed(t) == [n \in DOMAIN d.keyed[t] |-> Swap(d.keyed[t][n], from, to)]
  IN  IF from = to \/ from \notin DOMAIN d.keyed[s] THEN d
      ELSE [d EXCEPT
             !.keyed = [t \in Sections |-> IF t = s THEN moved
                                           ELSE IF t = "routes" \/ (t = "tagOwners" /\ s = "groups")
                                           THEN Renamed(t) ELSE @[t]],
             !.rules = [i \in DOMAIN @ |-> RenameInRule(@[i], from, to)],
             !.extras = [i \in DOMAIN @ |-> RenameInElement(@[i], from, to)],
             !.exitNode = Swap(@, from, to)]

SetRoute(d, from, prefix, owners) ==
  [d EXCEPT !.keyed["routes"] = With(IF from # prefix THEN Without(@, from) ELSE @, prefix, owners)]

AddExtraByLength(d, value, held) ==
  [d EXCEPT !.extras = Append(@, [key |-> Len(@) + 1, origin |-> 0, value |-> value])]

AddExtra(d, value, held) ==
  [d EXCEPT !.extras = Append(@, [key |-> NewKey(ExtraKeys(d) \cup held, 1), origin |-> 0, value |-> value])]

SetExtra(d, key, value) ==
  [d EXCEPT !.extras = [i \in DOMAIN @ |-> IF @[i].key = key THEN [@[i] EXCEPT !.value = value] ELSE @[i]]]

DeleteExtra(d, key) == [d EXCEPT !.extras = Sublist(@, {i \in DOMAIN @ : @[i].key # key})]

-----------------------------------------------------------------------------
(* The change summary of a draft against a server model.                   *)

SameRule(before, after) ==
  before.uses = after.uses /\ before.label = after.label /\ before.enabled = after.enabled

DiffKeys(server, draft) ==
  [added   |-> DOMAIN draft \ DOMAIN server,
   removed |-> DOMAIN server \ DOMAIN draft,
   changed |-> {k \in DOMAIN server \cap DOMAIN draft : server[k] # draft[k]}]

\* byId: of the rules with one id the last is remembered.
ById(m, id) == m.rules[CHOOSE i \in DOMAIN m.rules :
                 m.rules[i].uses = id /\ \A j \in DOMAIN m.rules : m.rules[j].uses = id => j <= i]
Ids(m) == {m.rules[i].uses : i \in DOMAIN m.rules}

IsAdded(m, r) == r.serverId \notin Ids(m)
IsChanged(m, r) == ~IsAdded(m, r) /\ ~SameRule(ById(m, r.serverId), r)

DiffRules(m, d) ==
  [added   |-> Sublist(d.rules, {i \in DOMAIN d.rules : IsAdded(m, d.rules[i])}),
   removed |-> Ids(m) \ {d.rules[i].serverId : i \in DOMAIN d.rules},
   changed |-> Sublist(d.rules, {i \in DOMAIN d.rules : IsChanged(m, d.rules[i])})]

IsNew(base, it) == it.origin \notin DOMAIN base
IsEdited(base, it) == it.origin \in DOMAIN base /\ it.value # base[it.origin]

DiffExtras(base, items) ==
  [added   |-> {i \in DOMAIN items : IsNew(base, items[i])},
   changed |-> {i \in DOMAIN items : IsEdited(base, items[i])},
   removed |-> DOMAIN base \ {items[i].origin : i \in DOMAIN items}]

DiffDraft(m, d) ==
  [rules |-> DiffRules(m, d),
   keyed |-> [s \in Sections |-> DiffKeys(m.keyed[s], d.keyed[s])],
   extras |-> DiffExtras(m.extras, d.extras),
   exitNode |-> m.exitNode # d.exitNode,
   randomize |-> m.randomize # d.randomize]

Touched(changes) == changes.added \cup changes.removed \cup changes.changed

\* summary.count > 0.
HasChanges(sum) ==
  \/ sum.rules.added # <<>> \/ sum.rules.changed # <<>> \/ sum.rules.removed # {}
  \/ \E s \in Sections : Touched(sum.keyed[s]) # {}
  \/ Touched(sum.extras) # {}
  \/ sum.exitNode \/ sum.randomize

Dirty(d) == d.base # <<>> /\ HasChanges(DiffDraft(d.base[1], d))

-----------------------------------------------------------------------------
(* The merge after a 409.                                                  *)

MergeKeysKeepingAll(server, draft, changes) ==
  LET mine == (changes.added \cup changes.changed) \cap DOMAIN draft
  IN  [k \in DOMAIN server \cup mine |-> IF k \in mine THEN draft[k] ELSE server[k]]

MergeKeys(server, draft, changes) ==
  LET mine == (changes.added \cup changes.changed) \cap DOMAIN draft
  IN  [k \in (DOMAIN server \cup mine) \ changes.removed |->
         IF k \in mine THEN draft[k] ELSE server[k]]

\* Elements are told apart by their content: "edited" is a map from the old
\* content to the new one, in which a later edit replaces an earlier edit of
\* equal content.
Edits(base, items, v) == {i \in DOMAIN items : IsEdited(base, items[i]) /\ base[items[i].origin] = v}
LastEdit(base, items, v) == items[CHOOSE i \in Edits(base, items, v) : \A j \in Edits(base, items, v) : j <= i].value
Drops(base, items, v) ==
  Cardinality({i \in DOMAIN base : base[i] = v /\ \A j \in DOMAIN items : items[j].origin # i})
Nth(server, j) == Cardinality({i \in 1..j : server[i] = server[j]})

\* Of equal elements of the server the first take the removals, the next one
\* the edit.
TakesEdit(base, items, server, j) ==
  Edits(base, items, server[j]) # {} /\ Nth(server, j) = Drops(base, items, server[j]) + 1

KeptElements(base, items, server) ==
  LET Next(j) == [origin |-> j, value |-> IF TakesEdit(base, items, server, j)
                                          THEN LastEdit(base, items, server[j]) ELSE server[j]]
  IN  Sublist([j \in DOMAIN server |-> Next(j)],
              {j \in DOMAIN server : Nth(server, j) > Drops(base, items, server[j])})

\* Edited elements whose twin vanished.
NoOrphanedElements(base, items, server) == <<>>
OrphanedElements(base, items, server) ==
  LET orphan(i) ==
        /\ IsEdited(base, items[i])
        /\ \A j \in Edits(base, items, base[items[i].origin]) : i <= j
        /\ \A j \in DOMAIN server : server[j] = base[items[i].origin] => ~TakesEdit(base, items, server, j)
  IN  Sublist([i \in DOMAIN items |->
                 [origin |-> 0, value |-> IF orphan(i) THEN LastEdit(base, items, base[items[i].origin]) ELSE {}]],
              {i \in DOMAIN items : orphan(i)})

\* The server's newer list with the user's removals and edits, the edits
\* without a twin and the additions.
RebaseExtras(base, items, server, held) ==
  LET merged == KeptElements(base, items, server) \o OrphanedElements(base, items, server)
      added == Sublist(items, {i \in DOMAIN items : IsNew(base, items[i])})
      taken == {added[i].key : i \in DOMAIN added} \cup held
  IN  [i \in DOMAIN merged |-> [key |-> NewKey(taken, i), origin |-> merged[i].origin, value |-> merged[i].value]]
      \o [i \in DOMAIN added |-> [added[i] EXCEPT !.origin = 0]]

After(sum, id) == {i \in DOMAIN sum.rules.changed : sum.rules.changed[i].serverId = id}
EditedRule(sum, id) == sum.rules.changed[CHOOSE i \in After(sum, id) : \A j \in After(sum, id) : j <= i]

KeptRules(fresh, sum) ==
  LET firstOf(i) == \A j \in 1..(i - 1) : fresh[j].serverId # fresh[i].serverId
      Next(r, first) == IF After(sum, r.serverId) # {} /\ first
                        THEN [EditedRule(sum, r.serverId) EXCEPT !.key = r.key, !.serverId = r.serverId] ELSE r
  IN  Sublist([i \in DOMAIN fresh |-> Next(fresh[i], firstOf(i))],
              {i \in DOMAIN fresh : fresh[i].serverId \notin sum.rules.removed})

\* Edited rules whose server twin vanished become additions.
NoOrphanedRules(fresh, sum) == <<>>
OrphanedRules(fresh, sum) ==
  LET ids == {fresh[i].serverId : i \in DOMAIN fresh}
      changed == sum.rules.changed
  IN  Sublist([i \in DOMAIN changed |-> EditedRule(sum, changed[i].serverId)],
              {i \in DOMAIN changed : /\ changed[i].serverId \notin ids
                                      /\ \A j \in After(sum, changed[i].serverId) : i <= j})

RebaseRules(fresh, sum, held) ==
  LET orphans == OrphanedRules(fresh, sum)
      taken == held \cup Numbers(sum.rules.added)
  IN  KeptRules(fresh, sum)
      \o [i \in DOMAIN orphans |-> [orphans[i] EXCEPT !.key = <<"new", NewKey(taken, i)>>, !.serverId = {}]]
      \o [i \in DOMAIN sum.rules.added |-> [sum.rules.added[i] EXCEPT !.serverId = {}]]

RebaseDraft(d, m, sum, held) ==
  [base |-> <<m>>,
   keyed |-> [s \in Sections |-> MergeKeys(m.keyed[s], d.keyed[s], sum.keyed[s])],
   rules |-> RebaseRules(DraftRules(m), sum, held),
   extras |-> IF Touched(sum.extras) = {} THEN DraftExtras(m, held)
              ELSE RebaseExtras(d.base[1].extras, d.extras, m.extras, held),
   exitNode |-> IF sum.exitNode THEN d.exitNode ELSE m.exitNode,
   randomize |-> IF sum.randomize THEN d.randomize ELSE m.randomize]

-----------------------------------------------------------------------------
(* References and the body of a save.                                      *)

ReferencesOf(d, selector) ==
  [rules  |-> {i \in DOMAIN d.rules : selector \in d.rules[i].uses},
   owners |-> {t \in DOMAIN d.keyed["tagOwners"] : selector \in d.keyed["tagOwners"][t]},
   extras |-> {i \in DOMAIN d.extras : selector \in d.extras[i].value},
   routes |-> {p \in DOMAIN d.keyed["routes"] : selector \in d.keyed["routes"][p]},
   exit   |-> selector \in d.exitNode]

LiveRules(rules) ==
  LET live == Sublist(rules, {i \in DOMAIN rules : rules[i].enabled})
  IN  [i \in DOMAIN live |-> live[i].uses]

SavedText(d) ==
  [keyed |-> d.keyed, rules |-> LiveRules(d.rules),
   extras |-> [i \in DOMAIN d.extras |-> d.extras[i].value],
   exitNode |-> d.exitNode, randomize |-> d.randomize]

ToSaveBody(d) == [base |-> d.base[1].hash, text |-> SavedText(d), metas |-> MetaRows(d.rules)]
=============================================================================
