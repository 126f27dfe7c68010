# Head-Control in TLA+

Head-Control is a web interface for headscale. A Go server keeps a SQLite
database, talks to headscale over its REST API, may share headscale's policy
file through a mount and may send it a SIGHUP through docker; a React
application in the browser polls the server and submits edits. This directory
models the parts of it where edits meet: the access policy, which several tabs,
several administrators, headscale's own command line and two storage modes
change at the same time, with its two editors; the routes of a node; the file
of extra DNS records; the login sessions; and the cached health of headscale.

## Inventory

| Component (source) | State | Operations | Hard part |
| --- | --- | --- | --- |
| Policy manager (`internal/policy`) | learned mode, `mu`, `modelMu` | `Get`, `Check`, `Save`, `GetModel`, `SaveModel` | every call is a goroutine; a save is up to a dozen calls to headscale, SQLite, the file system and docker, each of which may fail, with other saves in between |
| Atomic policy file (`policy.go:236-270`) | the file, its `.bak`, temporary files | `writeFileAtomic` | concurrent writers, failing operations, kills, power failures |
| SQLite store (`internal/store`) | `policy_versions`, `acl_rule_meta`, `kv`, `sessions`, `audit_log`, `extra_records_versions` | one statement or transaction each | several statements per operation of the callers |
| Policy handlers (`server/handlers_policy.go`) | none | read, check, raw save, structured read and save, versions | cancellation when the browser goes away |
| Docker integration (`internal/dockerint`) | none | `SignalHUP`, `Probe` | may fail, or succeed long before headscale reacts |
| Headscale client (`internal/hsclient`) | none | one function per endpoint | a call that timed out may still be carried out |
| Draft model (`frontend/src/pages/acls/model.ts`) | none | make a draft, reduce an action, diff, rebase, save body | client-side keys; renaming moves references; equal entries in a merge |
| Structured editor (`AclsBetaPage.tsx`, `RulesTab.tsx`, `DefinitionsTabs.tsx`, `PolicySections.tsx`) | the polled model, a draft, one dialog, a save, a conflict | one per button and dialog; adopt the polled model; save, reload, re-apply | polls and answers in any order around edits; dialogs that outlive what they show |
| Rule form (`RulesTab.tsx`, `inputs.tsx`) | targets, the Ports field, the ports each target had | add, remove, type, choose a protocol, submit | one field for ports that differ |
| Raw editor (`AclPage.tsx`) | the text, `dirty`, `loadedHash`, a dialog | type, load a version, check, save | follows polls only while pristine |
| ACL document model (`internal/aclmodel`) | none | parse, validate, plan, apply | operations by position on a list that earlier ones changed; equal rules; absent, null and empty sections |
| Nodes (`server/handlers_nodes.go`, `MachinesPage.tsx`, `RoutesPage.tsx`) | per tab the polled nodes, a dialog, a request | poll; approve, revoke, rename, tag, expire, delete | read, compare, replace, in two calls; polls that read before a change |
| DNS records (`internal/dnsrecords`, `frontend/src/pages/DnsPage.tsx`) | the extra-records file, `mu`; per tab a draft, the last poll, a dialog | `Load`, `Save`; poll, edit, save, overwrite, discard | polls replace the hash while a draft is edited; the file has other writers |
| Login and sessions (`internal/auth`, `store/sessions.go`, `App.tsx`, `client.ts`) | sessions, failure counts; the cookie; per tab login state and CSRF token | login, logout, lookup, renewal, pruning | statements of two requests interleave; tabs share the cookie but not the token; the limiter checks before it counts |
| Health monitor (`server/health.go`, `handlers_meta.go`, `Layout.tsx`) | the last status; per tab the banner | `probe`, `get`, poll | overlapping probes, cancelled probes |
| API keys (`server/handlers_keys.go`, `KeysPage.tsx`) | the polled list, a dialog, two requests | create, expire, delete; the guard of Head-Control's own key | answers open and close dialogs over others; stale lists |
| Pre-auth keys, users, registration, audit | none | single calls and audit rows | lost answers |
| Server assembly, configuration, static files, other pages | none | start, routing, rendering | none of interest here |

The browser calls the handlers over HTTP; handlers call the policy manager or
the headscale client; the policy manager calls headscale (`CheckPolicy`,
`GetPolicy`, `SetPolicy`), the store, the file system and the docker client.
headscale and Head-Control share the policy file. Nothing calls back: headscale
is observed by polling only.

What makes each component correct: for the policy manager, that a structured
save replaces only what its user saw, that a rule is never dropped unless
someone dropped it, that the history misses nothing, that a saved policy comes
into force, that the learned mode survives a restart, and that requests end.
For the atomic file, that readers see whole documents in every circumstance.
For the nodes, that a write makes of what the user saw exactly what the user
confirmed, and that a tab never falls behind its own changes. For the DNS
records, that the conflict check protects what it claims to. For the editors,
that what is saved is what was shown and reviewed, that one edit changes one
thing, that a rename leaves no reference behind, that re-applying a draft keeps
both sides' changes, and that an editor left alone ends up on the server's
policy. For the rule form, that no target gains or loses ports. For sessions,
that a session that was logged out stays so and that every tab notices. For the
health monitor, that the banners end up telling the truth. For the document
model, that a patch gives what was asked for and leaves the rest, with its
comments, alone. For the API keys, that Head-Control's own key is ended only
by who typed its prefix.

## Modules

| Module | Content |
| --- | --- |
| `PolicyManager` | the policy manager, its tables, the tabs that call it, and headscale as it sees it |
| `PolicyProperties` | type invariant, invariants, action and liveness properties of `PolicyManager` |
| `PolicyRegister` | abstract specification of the structured editor: policy and disabled rules replaced together, compare-and-swap on the policy |
| `AtomicFile` | `writeFileAtomic`, one action per file operation |
| `FileRegister` | abstract specification of a file replaced as a whole |
| `DnsRecords` | the DNS page of each tab, the manager of the records file, and other writers of it |
| `Lists` | parts of a list, by their places |
| `DraftModel` | the pure functions of `acls/model.ts`, and `metaRows` and `modelState` of `internal/policy/model.go` |
| `DraftEditor` | the structured editor in one tab, on top of `DraftModel` |
| `DraftProperties` | what the structured editor promises |
| `RuleForm` | destinations and ports in the form of a rule |
| `RawEditor` | the raw policy editor in one tab |
| `Patcher` | the JSON patch between two policies |
| `NodePages` | a node in the Machines and Routes pages of several tabs, and its handlers |
| `KeysPage` | the API keys in one tab, and their handlers |
| `Sessions` | the sessions table, the cookie, and the login state of each tab |
| `HealthMonitor` | the cached health, the probes, and the banner of each tab |
| `MCPolicy`, `MCFile`, `MCDns`, `MCDraft`, `MCPanel` | instances for TLC; `MCPanel` composes the smaller modules |
| `PolicyProofs`, `AtomicFileProofs`, `DnsRecordsProofs`, `DraftProofs`, `DraftListProofs`, `PatcherProofs`, `PanelProofs` | theorems and proofs; `PanelProofs` has those about nodes, sessions, API keys and rule forms, `DraftListProofs` those about the keys, the order and the merges of lists and about what a save carries, `PatcherProofs` those about the patch |
| `ListProofs` | induction, for what loops over lists compute; the places of a list, what is inserted at them, and how often a merged list has an element |

### PolicyManager

A step is what one goroutine does between two points at which another may run:
a call to headscale or docker, a SQLite statement, `writeFileAtomic`, or a
critical section of `m.mu`. `pc[c]` is the next step of the request of tab `c`;
the labels follow the code:

```
get, load, model:  [lock] fetch -> latest -> (snapshot) -> seeMode -> (learn -> (learnKV)) -> reply
load:              reply -> metas
model:             reply -> compare -> check ... -> meta        (no change: compare -> meta)
save, model:       check -> readMode -> put  -> dbMode   -> (dbKV)   -> dbRecord
                               readMode or put -> fileMode -> (fileKV) -> write -> fileRecord -> hup -> verify
```

`[lock]` is `modelMu`, taken by structured saves only and released by
`Finish`, the one place where a request ends, as `defer` does.

How data is abstracted:

- A policy text is the set of rules it enables. Two texts are equal when their
  SHA-256 hashes are, and `SaveModel` refuses to ship a patched document whose
  model differs from the requested one (`model.go:192-198`), so a structured
  save produces the text of the submitted rules. Comments, order and the
  sections other than rules are not told apart.
- What headscale's check accepts is the constant `Valid`. It is the same at
  every moment; users and nodes whose removal turns a policy invalid are left
  out.
- `acl_rule_meta` is the set of disabled rules it holds; names, descriptions
  and positions are in `DraftModel`, and a submitted rule is enabled or disabled, not
  both (rows are keyed by fingerprint, `model.go:236`).
- `policy_versions` is the set of its (source, text) pairs and the text of the
  newest row, which is all that `LatestPolicyHash` and the properties ask.
- `Rules = nil` saves (which leave the table alone) and documents the
  structured editor cannot parse are left out: they return before any change.
- Audit rows and warnings' wording are left out.

headscale, which is outside the repository, is modelled from how the code uses
it, from the comments of `hsclient` and from `docs/compatibility.md`: `Served`
is what a GET returns, in file mode the file as it is now; a PUT takes effect
at once in database mode and is refused in file mode; a SIGHUP makes the filter
adopt the file. A PUT that Head-Control gave up on is kept in `late` and may be
applied at any later time or never (`ApplyLate`).

Faults are constants of an instance: `Faults` lets every call to headscale,
docker and the file fail or be cancelled; `StoreFails` lets every SQLite
statement fail. `Restart` is a crash of Head-Control at any step followed by
`New`. `OutsideEdit` and `SwitchMode` are the command line, a text editor, and
a headscale restarted with the other `policy.mode`.

Two variables are history only: `byUi` (the served policy is the work of a
save) and `foreign` (a writer without `modelMu` moved the policy under the
holder of `modelMu`).

### AtomicFile

A file is its content and whether that content has reached the disk. Contents
are the documents, `Empty`, `Torn` (a part or a mixture) and `Nothing`. Writers
read the old content, write the `.bak` in two operations, create, write, sync
and rename the temporary file, and remove it in the `defer`; `failed` is the
error they return. Every operation may fail, `os.Remove` too, whose error the
code ignores (`policy.go:251`): the file then stays, as does that of a writer that
is killed, and `orphans` has the number of the call it was made by.
`PowerFailure` may
tear whatever was not synced and may undo renames whose directory entry was not
flushed; `Kill` leaves the files as they are. The temporary file of a writer is
known by the writer: `os.CreateTemp` draws names until one is free, and a name
that is removed by one writer and drawn by another in between is left out.

`WritesAreAtomic` shows that readers of the file see `FileRegister`, and that a
call returns an error exactly if it did not replace the file. This justifies the
single `Write` step of `PolicyManager`, which takes the error for a refusal.
Temporary files may stay behind, but `LeftoversAreReported`: no call returns
without having tried to remove its own, and one that succeeded leaves none.

### DnsRecords

The page and the server are one module: the hazard lies between them. A tab
keeps the last poll (`data`, whose hash it will send), the form (`draft`), and
whether the form was touched (`dirty`) or a 409 was answered (`conflict`). A
poll has two steps, `Poll` where the server reads the file and `Polled` where
the tab takes the answer, with anything in between; `Invalidate` drops a poll
under way, as `invalidateQueries` does. A save is

```
idle -> validate -> lock -> load -> write -> record -> done -> idle
             |                |       |                refused, failed -> idle
```

with `Manager.mu` held from `lock` to the end of `record`; polls wait for it.
File contents stand for their hashes; the file Save writes is sorted, so its
text depends on the set of records only. `Valid` is what Save accepts and, up to
the form of addresses, what the page accepts; only an `Overwrite` can send a
list the page finds faulty. `own` is history: the file is the work of a save
that neither a fault nor a crash cut short. `base` is history too: the content
a draft was made from, which the page does not remember.

### DraftModel and DraftEditor

A rule or another policy element is the non-empty set of selectors it mentions,
which is what references, renames, fingerprints (`canonical`) and the merge look
at; a label stands for name and description. Lists of members are sets: the code
compares them in order (`sameList`), so an edit that only reorders a list is left
out. The five list sections share their code (`EXTRA_LISTS`) and are modelled as
one, `extras`.

`newKey` draws random identifiers. The model numbers them with the first number
that neither the draft nor an open dialog holds, so that keys of the past, which
nothing can refer to any more, do not tell states apart. Equal server rules
share their key, as in the code (`model.ts:412`).

`DraftEditor` has one action per button and dialog, grouped as the code groups
them: `RulesTab`, `GroupsTab`, `TagOwnersTab`, `HostsTab` and `PolicySections`
(the list sections, the auto-approvers and the port switch). A dialog is opened
by one action, which copies the entry into it, and submitted by another;
everything else may happen in between. `Show` is the effect that runs after
every render: a draft without changes adopts a model with another hash. A fetch
has three steps (start, server, arrival); an answer to a save cancels the fetch
under way and starts one that resets the draft when it arrives
(`refetch().then`, `AclsBetaPage.tsx:105`), also when it fails. `OtherSave` is
everybody else. The server is `SaveModel` in one step, with the outcomes the
steps of `PolicyManager` have: the policy replaced and the table not, or applied
and the answer lost.

### RuleForm, RawEditor

A port specification is the set of its entries; what `parsePorts` refuses is the
empty set and `"*"` next to a port. `own` is `dstPorts`. In `RawEditor` a policy
text is a value, `RawShow` is the effect that loads the polled policy, and a save
is three calls (check, save, answer) during which the text may change.

### Patcher

A document is a function on the keys it has; a node knows whether it is still
the one that was read, which is what becomes of its comments. `Plan` is
computed at once, as in the code, and `PtApply` carries out one operation: what
hujson does is modelled from RFC 6902 and marked external. `PtValues` and
`PtDocument` say what `ParseDocument` accepts; `lcs` is two recursive functions
on the cells of its table, the lengths and the walk. `acls` stands for the
six lists (`diffSeq` is called alike for each) and `groups` for the three
objects; a rule is its fingerprint, an element its canonical form. "#" members
and the spelling of keys are left out: the code passes the first by and
addresses the second as written. In `PolicyManager` a structured save produces
the submitted rules because `PatchGivesRequest` holds.

### NodePages

One node: requests about different nodes touch nothing in common. `NdReadRoutes`
and `NdWrite` are the two calls of `handleSetRoutes`; `NdOutside` is the device,
an autoApprover and the CLI. `ndOwn` is history: the node after the tab's last
answered change. The exit routes travel as a pair, in the check box, in
`expandExit` and in headscale.

### Sessions

`GetSession` is its SELECT and then the DELETE or the renewal, with anything in
between; log-out deletes after it was looked up and renewed. The number of a
session stands for its cookie and its CSRF token. A tab has one request under
way: requests of one tab do not see each other but through the cookie, and a
second tab gives that interleaving. The limiter and a wrong password are the
same nondeterministic refusal.

### HealthMonitor

A probe is two calls and the store of the result; the ticker's and those of the
first requests overlap. A tab that is closed cancels its probe, which is stored
as an outage all the same.

### KeysPage

One tab; what others do is `KpOutside`. A key is its prefix. Expiring and
deleting are two mutations of the page with one request each under way, and
`KpAnswered` sets the dialog whichever is open, as `setModal` in `onSuccess` and
`onError` does. A dialog replaced by one of its own kind keeps the text typed
in it, as React keeps the component's state (`KpLockout`). A dialog that is
gone does not hear of the key it asked for. `KpServe` has the request the page
sends, by prefix: `handleExpireAPIKey` also takes an id, for which the guard is
not asked (`handlers_keys.go:183`). The user stays on the tab: leaving
it closes the dialogs and drops the answers.

### MCPanel

These components share no state but the server's, which each module reduces to
what its component sees. `MCPanel` puts them side by side: a behaviour chooses
one of them, and only that one moves. This is a disjoint sum, not a claim that
they run one at a time: interleaving components that share no variable adds
states and no behaviour of any one of them.

## Runs

| Run | Instance | Shows |
| --- | --- | --- |
| `policy_structured` | 2 tabs, 2 rules, at most one rule valid, structured reads and saves, 4 requests, manager configured for database mode with a mount, headscale in either mode | structured saves implement `PolicyRegister` (`StructuredSavesAreAtomic`), rules are kept (`RulesAreKept`), the file stays loadable (`FileStaysLoadable`) |
| `policy_adverse` | 2 tabs, 1 rule, structured and raw saves, 3 requests, 1 crash, failing and delayed calls, no mount, automatic mode | `TypeOK`, `NoLostStructuredUpdate`, `LearnedModePersists` |
| `policy_history` | 2 tabs, 1 rule, reads and raw saves, 4 requests, 1 outside edit, 1 mode switch, failing calls | `ObservedIsRecorded`, `UiPolicyIsRecorded`, `AppliedIsRecorded` |
| `policy_progress` | 2 tabs, 1 rule, file mode with reload, 3 requests, SQLite may fail, fair | `ReloadIsOwed`, `RequestsAreAnswered`, `ServedTakesEffect` |
| `file_atomic` | 2 writers, 3 documents, 3 writes, 1 kill or power failure, failing operations | `TypeOK`, `TargetIsWhole`, `LeftoversAreReported`, `WritesAreAtomic` |
| `dns_records` | 2 tabs, 2 records, lists of one record valid, 2 edits, 2 saves, 1 outside edit, 1 crash, failing operations | `TypeOK`, `NoUnseenOverwrite`, `OwnFileIsRecorded` |
| `dns_progress` | 2 tabs, 1 record, 2 edits, 2 saves, 1 crash, failing operations, fair | `TabsCatchUp`, `SavesAreAnswered` |
| `editor_merge` | 1 tab with 2 edits, 1 dialog, 1 save, failing fetches, 1 save of another administrator, who changes rules, elements and a group | `EditorTypeOK`, `SavedIsShown`, `EditsOneRule`, `RenameMovesReferences`, `SavesWhatWasReviewed`, `RebaseMergesEntries`, `RebaseMergesRules`, `RebaseMergesElements` |
| `panel` | the structured editor with 1 edit and failing requests; the raw editor with 3 texts, 1 save and 2 saves of others; a node with 1 subnet route and the exit routes, 1 request and 1 change from outside; 2 tabs and 2 logins; 2 banners with 1 change and 1 fault; 2 API keys, 2 requests and 2 changes by others; rule forms over 2 targets and 2 ports; patches between all lists of up to 4 rules over 2 and 3 over 3, all maps of 2 groups, approvers of 1 route and exit nodes, and mixed ones; fair | `PatchGivesRequest`, `UntouchedStays`, `EditorCatchesUp`, `RawFollows`, `RoutesAsConfirmed`, `OwnChangesStayShown`, `EndedSessionsStayEnded`, `TabsLeave`, `BannersSettle`, `FormKeepsAccess`, `LockoutIsConfirmed` |

The three runs that end in a violation are the findings below.

### Bounds

Two tabs are enough for the interleavings: `modelMu` admits one structured
save, and each property is about one save and one interfering request. One rule
gives two texts, which is what "changed" and "unchanged" need; two rules, of
which headscale accepts at most one at a time, are used where a rule is moved
between enabled and disabled and where a text can be refused. Three requests
are a load, the save based on it and an interfering request; four allow both
tabs to load and save. One crash, outside edit or mode switch can fall between
any two steps. For the file, three documents and three writes let two writers
replace a document that neither wrote, and a third write see the outcome of
both. `MaxStarts`, `MaxOutside`, `MaxRestarts`, `MaxSwitches`, `MaxWrites` and
`MaxKills` bound these in the guards. For the DNS page an edit and a save for
each tab are a save and the one it conflicts with, and two records give lists
that are valid, invalid, and different from each other; `MaxEdits`, `MaxSaves`,
`MaxOutside` and `MaxRestarts` are its bounds.

In `editor_merge` two edits are what a merge has to keep apart (an edit and an
addition, a removal and an edit, an addition and a rename), one dialog lets an
entry be renamed or edited with a poll in between, and the other administrator
changes the order and content of rules and elements and a member list, so that
the edited entry may still be there, have moved or be gone. The policy has a
group that owns a tag, is used by a rule and by an element, and a tag that
approves a route and exit nodes: every kind of reference a rename has to move.
`MaxEdits`, `MaxOpened`, `MaxSends` and `MaxOthers` bound it. In `panel` the
structured editor has no dialogs (they are in `editor_merge`) and one edit; the
raw editor's properties need a save, a poll that read before it and two changes
by others; one request and one change from outside give every order of a node's
read, comparison, write and polls, which the theorems extend to any number; two
logins give a session that is replaced; one change and one fault give a probe
that is overtaken and one that lies; two keys, two requests and two changes by
others let a key become Head-Control's own while a dialog for it is open and a
late answer turn that dialog into one for the other key. A single target and one more entry for it
around a second one give every way in which ports merge. Lists of four rules over
two contents repeat rules on both sides, and lists of three over three reorder
them, which is where common subsequences differ in length. The bounds are
`RawMaxTyped`, `RawMaxSaves`, `RawMaxOthers`, `NdMaxCalls`, `NdMaxOutside`,
`SesMaxLogins`, `HmMaxChanges`, `HmMaxFaults`, `KpMaxCalls`, `KpMaxOutside`. Deadlock is not checked in the runs of
`PolicyManager` and `DnsRecords`: when the requests of the instance are used up the system
stops; that no request gets stuck is `RequestsAreAnswered` and `SavesAreAnswered`. The same holds of
`editor_merge` and `panel`, whose components stop or go on polling.

### Fairness

`FairSpec` assumes weak fairness of the steps of each request (goroutines are
scheduled, and every wait of a request is bounded: HTTP timeouts, the five
second verification loop), strong fairness of taking `modelMu` (`sync.Mutex`
hands the lock to a waiter that has waited more than a millisecond) and weak
fairness of headscale's handling of a pending signal. `FairSpec` of `DnsRecords`
assumes the same of saves and of `mu`, and that a visible tab polls again and
again (every minute, on focus and after each save). The editors assume that
polling goes on while the page is open (`refetchOnWindowFocus`, `App.tsx:20-27`,
and the intervals in `queries.ts`) and, because requests may fail, strong
fairness of a poll being served and arriving: not every request fails for ever.
Sessions assume the same of each tab's requests (`/api/meta` is polled by every
open page, `queries.ts:36-42`), the health monitor that the ticker ticks and
that calls end within their ten seconds. `PanelFairness` joins the conditions of
different components in one conjunct: only one of them is ever enabled. Nothing
makes users act, faults happen or faults stop.

## Proofs

TLC checks the instances above; TLAPS proves the following for every set of
tabs, rules and documents and every bound.

| Theorem | Assumes | Argument |
| --- | --- | --- |
| `TypeCorrect` | - | `TypeParted`, the type invariant cut into the parts that steps disturb, is inductive |
| `StructuredUpdatesAreNotLost` | - | `EditInv` = type + `Owner` (a request at a step between lock and reply of a structured save holds `modelMu`, and only it) + `Steady` (once the holder has read the policy, either a foreign writer intervened or headscale still serves what was read, and after the comparison that text is the base or the save is forced). `NoLostStructuredUpdate` alone is not inductive: it says nothing of the steps before the write |
| `PolicyFileIsLoadable` | - | the texts of requests past `check` are valid; needs that a request keeps its text |
| `EveryObservedPolicyIsRecorded` | SQLite does not fail | rows are never removed, `newest` is recorded, and a text past `latest` equals `newest` or has its row added in `snapshot` |
| `EveryAppliedSaveIsRecorded`, `EveryUiPolicyIsRecorded` | SQLite does not fail, no crash | every path from `put` or `write` to the reply goes through the step that adds the row |
| `ReloadIsNeverForgotten` | docker reload configured, no failing call, no crash | the writer of the file is at `fileRecord` or `hup` until it signals; later writers owe their own signal |
| `LearnedModeSurvives` | SQLite does not fail, headscale keeps its mode | with one mode to learn, all `setMode` in flight carry it |
| `NoRuleDisappears` | SQLite does not fail, no crash, headscale keeps its mode and Head-Control does not take it for file mode in error (`ModesFit`), and no call fails or there is no reload to wait for | `SaveInv` = `EditInv` + `RequestAt` (which requests are at which steps) + `FileAgrees` (the file is written only if headscale works from it) + `Carried` (what a structured save has applied is served until a foreign writer comes) + `Signals`. Policy and table of disabled rules change in different steps; in between the removed and the newly disabled rules are in the keeping of the holder of `modelMu`, and `Carried` says that it will get as far as storing them |
| `StructuredSavesRefineRegister` | the same, no failing call at all, no writer but structured saves | a case per step: those from `lock` to the write stutter, the write is the step of `PolicyRegister`, everything after it stutters. The disabled rules of a save under way count as stored (`KeptAside`) |
| `FilesKeepTypes`, `PolicyFileIsWhole`, `SavedLeavesNoTemp` | - | `FileInv`: the temporary file of a writer follows its step - none before `create`, the whole text after `write`, synced after `sync`, and at `remove` there is one only if an error is returned -, and a call under way is no other's and has left nothing (`OwnCall`) |
| `WriteIsAtomic` | - | the same invariant, and a step-by-step refinement of `FileRegister` |
| `DnsTypeCorrect` | - | types and `LockHeld` (a save is at `load`, `write` or `record` exactly when it holds `mu`), one lemma for the page's steps and one for the server's |
| `NoRecordsAreOverwrittenUnseen`, `WrittenRecordsAreStored` | - | `DnsInv` = type + `SaveKnows` (from `lock` on the list is valid; at `write` the file is what was compared, or the save is forced, or someone outside wrote; at `record` the file is what was written) + `OwnFileIsRecorded` |
| `ReapplyingMergesEntries` | - | only `RebaseAfterConflict` re-applies (a case per action); `MergedEntry`, what `mergeKeys` makes of an entry, by the three ways `diffKeys` lists it |
| `RenamingMovesReferences` | `EditorAssumption` | `EditorInv`: draft, models and saves under way hold names of their kind in each section (`WellKeyed`), only users and groups own tags, a model shows the text its hash stands for, and whatever is open has a model. Then: of the edits only the dialog's own submits an entry (`EntriesAreSubmitted`), an edited draft keeps its base only if it is what the edit made (`EditIsShown`), and `RenamedReferences` goes through the kinds of references |
| `EditorTypes` | `EditorAssumption` | `EditorInv` and `ListsInv`: the lists of drafts, models, dialogs and saves under way hold rules and elements, and a key is either the fingerprint of one element of the model or a number that nothing else holds (`NewKeyIsFree`, by counting: of n + k numbers at least n are not among k) |
| `SavedRulesAreShown` | `EditorAssumption` | `ListsInv` also says that policy and table stay those of one list until someone else writes. `SavedRulesShown` goes through the rounds in which `modelState` inserts the disabled rules by their positions: after n rounds the list is the saved one without its last disabled rules (`Inserted`, `OneMorePlace`), so that each meets the position that `metaRows` stored for it |
| `RulesAreEditedAlone` | `EditorAssumption` | `KeysInv`: a rule of the model has its fingerprint as its key and no other key, any other rule has a number, and only equal rules of the model share a key. One lemma per kind of edit (`OneEdit`); what is added or copied gets a number that no rule has (`NumberIsNew`), and of the merge after a 409 `RebaseKeys` shows that kept rules stay with their fingerprints, rules that the server lost get new numbers and additions keep theirs. An edit meets one rule then, and one place of the list differs |
| `ReapplyingMergesRules` | `EditorAssumption` | the same invariant: rules of the draft with a fingerprint have one each, so each changed rule is the edit of one rule of the base. The new list is the server's at the places that are kept, with edits at some of them, then edits whose rule the server lost, then additions; `MergedTimes` counts an element of such a list by matching places with places, `MergedAmong` gives the order of what no edit touched |
| `ReapplyingMergesElements` | `EditorAssumption` | `KeysInv` again, whose `Ordered` says that the elements from the server are in its order, so that no two have one origin and an element of the base has one edit at most. The first equal element of the server takes the removal or the edit (`FirstIsTaken`); `EditsGoSomewhere` pairs the edits with the elements that take them and leaves the orphans, and `RebasedTimes` adds up |
| `ReviewedIsSaved` | `EditorAssumption` | `EditorInv`, `ListsInv`, `KeysInv` and `SaveInv`: of a save under way the summary lists the differences between its base and its text, and the server compares the base. For rules and elements the way back is needed: a draft whose lists have no listed change holds exactly the lists of its base, in order. That is why `KeysInv` has `InOrder`: the rules with a fingerprint are those of the model that are left, in its order, through edits, copies, polls and merges; a count of places (`CountingUp`) then leaves no room for a difference (`UntouchedRules`, `UntouchedElements`) |
| `RoutesAreWrittenAsConfirmed`, `OwnChangesAreShown` | - | `NdInv` = types (a request's approve and revoke lead from what it expects to its goal; routes come with both exit routes or none; a request at `replace` read what it expected) + `NdInOrder` (no tab knows of a change the node has not seen, and no poll it waits for read before its own last change) |
| `OwnKeyIsEndedOnPurpose` | - | `KpInv` = types + a request that says it may end Head-Control's own key names the prefix that was typed; the server ends its own key for no other request |
| `FormsKeepAccess` | `RfAssumption` | `FormInv`: no edit touches the ports that the form remembers of the rule. By induction over the rule's destinations the form remembers for each target what the rule lets through to it (`OwnIsReach`) and has a chip for each target (`ChipsAreTargets`), however often a target is listed. `SubmitStep` treats the rule that is written back as loaded and the one that is composed anew |
| `LcsIsLongest` | - | by induction over the cells that are left: the length in a cell is that of the best common subsequence of the rests (`Best`), whichever way the walk goes on from there |
| `PatchesGiveTheRequest`, `PatchesStaySmall` | `PatcherAssumption` | `PtInv`: what is left of the plan runs from the document at hand to one that is as requested and keeps what was untouched. Such runs are joined (`RunJoined`), so each section has its own lemma: removals from the end leave the kept places (`Removed`), additions from the front then fill the gaps (`Added`), for objects the order does not matter (`DiffMapRuns`), and no section's operations touch another's (`SectionRun`) |
| `LoggingOutIsFinal` | - | `SesInv`: log-out and renewal are single statements, the renewal is an UPDATE, and numbers are given out once: a session that ended is below the last number and not in the table |

`PolicyProofs` gives the frame of the manager: lemmas about what `Finish`,
`Step` and `SaveReturns` leave alone for other tabs, cited by every later
proof; its second part adds `ControlFlow`, which label may follow which, and the
last sums each step up by its effect on what is seen from
outside (`EveryStepHasEffect`).

The induction theorems of the library take a predicate as a parameter, which the
provers cannot instantiate. `ListProofs` derives induction over sets of numbers
instead (`AllNumbers`), from the minimal elements of families of finite sets, and
from it that a loop over a list has a state after every element (`Iteration`).
The loops of `ruleToForm` and `modelState` are recursive functions for that
reason, and the part of a list at some places (`Sublist`) is given by their ranks.

The hypotheses are needed. `NoRuleDisappears` is false where a wait for a reload
may be cancelled: that is finding 1. It is false after a crash between the write of the
policy and that of the table, or when SQLite fails there, for the same reason.
`ModesFit` excludes a Head-Control that is configured for file mode, or guesses
it from a mounted file, beside a headscale that keeps its policy in the
database: the file it writes is then nobody's. `StructuredSavesRefineRegister`
excludes foreign writers because the register has none.

The constants are assumed to be what the model takes them for. `UnsetAssumption`:
the value of a request that waits for nothing is no request. `EditorAssumption`:
a selector is of one kind (headscale's prefixes `group:` and `tag:` and the `@` of
users tell them apart, as `acls/model.ts` does), the sections of a policy hold
names of their kind, tags are owned by users and groups, and rules and elements
mention selectors. That tags are so owned restricts
what the server may serve, as the dialog of a tag restricts what it accepts
(`DefinitionsTabs.tsx:290`) and the server what may be saved (`validate.go:153`); a
policy with tags among the owners of tags would keep the old name there after a
rename, since `renameKey` rewrites owners for groups only (`model.ts:558`).

`PatcherAssumption`: documents are what `ParseDocument` accepts, as read, with
finitely many names, and null is no value; the editor sends sections of their type.

Only model-checked: liveness, that is `RequestsAreAnswered`, `ServedTakesEffect`,
`SavesAreAnswered`, `TabsCatchUp`, `EditorCatchesUp`, `RawFollows`, `TabsLeave` and
`BannersSettle`.

The runs that are violations have nothing to prove.

## Findings

1. `disabled_rule_lost`: a structured save that is cancelled while it waits for
   the reload has removed the disabled rule from the policy and not stored it
   (`policy.go:209-210`, `model.go:199-208`).
2. `table_overwritten`: the conflict check does not cover the disabled rules
   (and, in the code, names and descriptions): another tab's are replaced
   without a conflict (`model.go:171`, `208`).
3. `dns_stale_draft`: a form that is being edited sends the hash of the latest
   poll with a draft made from an older one, so another administrator's records
   are overwritten without the promised conflict (`DnsPage.tsx:194`, `161-164`).

Known divergences that the model follows and no run is spent on:

- In file mode the check that a reload took reads the file that was just
  written; it succeeds before headscale has reloaded (`policy.go:199-207`,
  `docs/compatibility.md:30`).
- A read between the PUT of a save and its history row records the UI's own
  save as an external change (`policy.go:109`, `165`).
- A save drops `"randomizeClientPort": false` with its comment although nobody
  touched it, because the editor always sends the flag (`patch.go:95-97`), while
  "untouched entries ... and comments are preserved" (`README.md:165`).
- Equal rules of the server share a client key, which `model.ts:321` calls a
  client-side identity: an edit of one edits both (`model.ts:412`).
- Of two edits of equal list elements a merge keeps one (`model.ts:748-753`).
- Edits made between the answer of a save and the refetched model are discarded
  (`AclsBetaPage.tsx:105`), and so is, in the raw editor, the flag that says the
  text was changed during a save (`AclPage.tsx:171`).

- An answer to an expiration or a deletion that arrives late closes whatever
  dialog is open (`KeysPage.tsx:564`, `582`), also the one that shows a new key
  once, which is meant to stay until the user has confirmed storing it
  (`common.tsx:198-212`). `KpAnswered` does so.

## Not modelled

- Of `aclmodel`, parsing, validation and the layout of patched text: string work.
- Pre-auth keys with their labels, and the users, registrations, settings and
  dashboard pages and their handlers: forms that send one request each, over
  servers that keep no state of their own.
- The login rate limiter: it counts in wall-clock windows.
- The audit log, configuration, static files, request building, rendering.
- Several nodes at once, several structured editors on one draft, and the text of
  messages.

## Plan

Done, in this order: `AtomicFile`, `PolicyManager` with `PolicyRegister`, their
runs and proofs, `DnsRecords` with its runs and proofs; `DraftModel`,
`DraftEditor`, `RuleForm`, `RawEditor`, `Patcher`, `NodePages`, `Sessions`,
`HealthMonitor`, `KeysPage`, their two runs and proofs.

What would come next:

1. The label of a pre-auth key, which is stored after the key was made.
2. `NoRuleDisappears` with crashes: which rules a crash may cost.
