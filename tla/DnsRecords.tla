----------------------------- MODULE DnsRecords -----------------------------
(***************************************************************************)
(* The editor of headscale's extra DNS records: the page in each browser   *)
(* tab (frontend/src/pages/DnsPage.tsx), the manager of the records file   *)
(* (internal/dnsrecords/dnsrecords.go) and whoever else edits that file.   *)
(*                                                                         *)
(* A file content stands for its hash.  The content that Save writes is    *)
(* sorted, so it depends on the set of records alone; outside edits are    *)
(* taken to be written in the same form.  The file is replaced by the      *)
(* temporary file, sync and rename that module AtomicFile studies.         *)
(***************************************************************************)
EXTENDS Naturals

CONSTANTS
  Tabs,        \* browser tabs on the DNS page
  Records,     \* {name, type, value}
  Valid,       \* the sets of records that Save accepts
  Missing,     \* there is no file
  Broken,      \* a file that is not a JSON array of records
  Faults,      \* file and SQLite operations may fail, answers get lost
  MaxEdits,    \* bound: edits in the tabs
  MaxSaves,    \* bound: saves
  MaxOutside,  \* bound: changes of the file made without Head-Control
  MaxRestarts, \* bound: crashes of Head-Control
  NoTab,       \* nobody holds mu
  NoAnswer     \* no poll is under way

Lists == SUBSET Records
Loadable == {Missing} \cup Lists
Contents == {Broken} \cup Loadable

ASSUME DnsAssumption ==
  /\ Valid \subseteq Lists
  /\ \A list \in Lists : list # Missing /\ list # Broken /\ list # NoAnswer
  /\ Missing # Broken /\ Missing # NoAnswer
  /\ Faults \in BOOLEAN
  /\ {MaxEdits, MaxSaves, MaxOutside, MaxRestarts} \subseteq Nat
  /\ NoTab \notin Tabs

VARIABLES
  file,      \* the extra-records file
  mu,        \* holder of Manager.mu, or NoTab
  versions,  \* contents in extra_records_versions
  flight,    \* each tab: the content a poll under way has read, or NoAnswer
  data,      \* each tab: the content (so the hash) it polled last
  draft,     \* each tab: the records in its form
  dirty,     \* each tab: the form was touched since it last followed data
  conflict,  \* each tab: the dialog after a 409 is open
  pc, req,   \* each tab: the next step of its save, and what it asked for
  base,      \* history: the content each draft was made from
  own,       \* history: the file is the work of a save no fault cut short
  foreign,   \* history: the file was edited outside since mu's holder read it
  spent      \* how much of each bound is used

fileVars == <<file, own, foreign>>
tabVars  == <<flight, data, draft, dirty, conflict, base>>
vars == <<fileVars, mu, versions, tabVars, pc, req, spent>>

NoSave == [records |-> {}, expected |-> Missing, force |-> FALSE]
Spend(bound, limit) == spent[bound] < limit /\ spent' = [spent EXCEPT ![bound] = @ + 1]

\* loadLocked: a file that is not there is an empty list.
Shown(content) == IF content = Missing THEN {} ELSE content

Goto(t, label) == pc' = [pc EXCEPT ![t] = label]

\* The steps that the server takes, and those of them that need mu.
Locked == {"load", "write", "record"}
Serving == {"validate", "lock"} \cup Locked
Labels == {"idle", "done", "refused", "failed"} \cup Serving

----------------------------------------------------------------------------
(* The page.                                                               *)

\* Mutant of Follow: the form follows the poll only while it is empty.
FollowEmpty(t, content, touched) ==
  IF touched \/ draft[t] # {} THEN UNCHANGED <<draft, base>>
  ELSE /\ draft' = [draft EXCEPT ![t] = Shown(content)]
       /\ base' = [base EXCEPT ![t] = content]

\* useEffect: an untouched form shows what was polled last.
Follow(t, content, touched) ==
  IF touched THEN UNCHANGED <<draft, base>>
  ELSE /\ draft' = [draft EXCEPT ![t] = Shown(content)]
       /\ base' = [base EXCEPT ![t] = content]

\* GET /api/dns, every minute, on focus and after a save was answered.  While
\* the file cannot be read the page keeps what it has.
Poll(t) ==
  /\ flight[t] = NoAnswer
  /\ mu = NoTab
  /\ file # Broken
  /\ flight' = [flight EXCEPT ![t] = file]
  /\ UNCHANGED <<fileVars, mu, versions, data, draft, dirty, conflict, base, pc, req, spent>>

Polled(t) ==
  /\ flight[t] # NoAnswer
  /\ flight' = [flight EXCEPT ![t] = NoAnswer]
  /\ data' = [data EXCEPT ![t] = flight[t]]
  /\ Follow(t, flight[t], dirty[t])
  /\ UNCHANGED <<fileVars, mu, versions, dirty, conflict, pc, req, spent>>

\* invalidateQueries: the answer of a poll under way is dropped, a new one is
\* due.
Invalidate(t) == flight' = [flight EXCEPT ![t] = NoAnswer]

\* The user touches the form; its fields stay enabled while a save is pending.
Edit(t) ==
  /\ ~conflict[t]
  /\ Spend("edits", MaxEdits)
  /\ \E records \in Lists \ {draft[t]} : draft' = [draft EXCEPT ![t] = records]
  /\ dirty' = [dirty EXCEPT ![t] = TRUE]
  /\ UNCHANGED <<fileVars, mu, versions, flight, data, conflict, base, pc, req>>

Submit(t, force) ==
  /\ pc[t] = "idle"
  /\ Spend("saves", MaxSaves)
  /\ req' = [req EXCEPT ![t] = [records |-> draft[t], expected |-> data[t], force |-> force]]
  /\ Goto(t, "validate")
  /\ UNCHANGED <<fileVars, mu, versions, tabVars>>

\* doSave(false): the Save button, enabled for a form without errors; the hash
\* is the one polled last.
Save(t) == dirty[t] /\ draft[t] \in Valid /\ Submit(t, FALSE)

\* doSave(true), and the two ways to leave the dialog without it.
Overwrite(t) == conflict[t] /\ Submit(t, TRUE)

Discard(t) ==
  /\ conflict[t]
  /\ conflict' = [conflict EXCEPT ![t] = FALSE]
  /\ dirty' = [dirty EXCEPT ![t] = FALSE]
  /\ Follow(t, data[t], FALSE)
  /\ Invalidate(t)
  /\ UNCHANGED <<fileVars, mu, versions, data, pc, req, spent>>

CloseDialog(t) ==
  /\ conflict[t]
  /\ conflict' = [conflict EXCEPT ![t] = FALSE]
  /\ UNCHANGED <<fileVars, mu, versions, flight, data, draft, dirty, base, pc, req, spent>>

\* onSuccess: the form follows the last poll again, not the answer.
Succeed(t) ==
  /\ pc[t] = "done"
  /\ Goto(t, "idle")
  /\ req' = [req EXCEPT ![t] = NoSave]
  /\ dirty' = [dirty EXCEPT ![t] = FALSE]
  /\ conflict' = [conflict EXCEPT ![t] = FALSE]
  /\ Follow(t, data[t], FALSE)
  /\ Invalidate(t)
  /\ UNCHANGED <<fileVars, mu, versions, data, spent>>

\* onError: a 409 opens the dialog, anything else leaves the form as it is.
Fail(t) ==
  /\ \/ pc[t] = "refused" /\ conflict' = [conflict EXCEPT ![t] = TRUE]
     \/ pc[t] = "failed" /\ UNCHANGED conflict
     \/ pc[t] = "done" /\ Faults /\ UNCHANGED conflict        \* the answer got lost
  /\ Goto(t, "idle")
  /\ req' = [req EXCEPT ![t] = NoSave]
  /\ Invalidate(t)
  /\ UNCHANGED <<fileVars, mu, versions, data, draft, dirty, base, spent>>

----------------------------------------------------------------------------
(* Manager.Save.                                                           *)

\* Validate and the duplicate check, before the lock is taken.
Validate(t) ==
  /\ pc[t] = "validate"
  /\ Goto(t, IF req[t].records \in Valid THEN "lock" ELSE "failed")
  /\ UNCHANGED <<fileVars, mu, versions, tabVars, req, spent>>

\* Mutant of Lock: the lock is not taken.
LockNothing(t) ==
  /\ pc[t] = "lock"
  /\ Goto(t, "load")
  /\ UNCHANGED <<fileVars, mu, versions, tabVars, req, spent>>

Lock(t) ==
  /\ pc[t] = "lock"
  /\ mu = NoTab
  /\ mu' = t
  /\ Goto(t, "load")
  /\ UNCHANGED <<fileVars, versions, tabVars, req, spent>>

\* The deferred Unlock.
Return(t, label) == mu' = NoTab /\ Goto(t, label)

\* Mutant of Load: an error keeps the lock.
LoadKeepingLock(t) ==
  /\ pc[t] = "load"
  /\ \/ /\ file = Broken \/ Faults
        /\ Goto(t, "failed")
        /\ UNCHANGED mu
     \/ /\ file # Broken /\ ~req[t].force /\ file # req[t].expected
        /\ Return(t, "refused")
     \/ /\ file # Broken /\ (req[t].force \/ file = req[t].expected)
        /\ Goto(t, "write")
        /\ UNCHANGED mu
  /\ foreign' = FALSE
  /\ UNCHANGED <<file, own, versions, tabVars, req, spent>>

\* loadLocked and the comparison of the hashes.
Load(t) ==
  /\ pc[t] = "load"
  /\ \/ /\ file = Broken \/ Faults
        /\ Return(t, "failed")
     \/ /\ file # Broken /\ ~req[t].force /\ file # req[t].expected
        /\ Return(t, "refused")
     \/ /\ file # Broken /\ (req[t].force \/ file = req[t].expected)
        /\ Goto(t, "write")
        /\ UNCHANGED mu
  /\ foreign' = FALSE
  /\ UNCHANGED <<file, own, versions, tabVars, req, spent>>

Write(t) ==
  /\ pc[t] = "write"
  /\ \/ /\ file' = req[t].records
        /\ own' = TRUE
        /\ Goto(t, "record")
        /\ UNCHANGED mu
     \/ Faults /\ Return(t, "failed") /\ UNCHANGED <<file, own>>
  /\ UNCHANGED <<foreign, versions, tabVars, req, spent>>

\* Mutant of Record: a save that was forced leaves no version.
RecordUnforced(t) ==
  /\ pc[t] = "record"
  /\ versions' = IF req[t].force THEN versions ELSE versions \cup {req[t].records}
  /\ Return(t, "done")
  /\ UNCHANGED <<fileVars, tabVars, req, spent>>

\* SaveExtraRecordsVersion, whose error is ignored.
Record(t) ==
  /\ pc[t] = "record"
  /\ \/ versions' = versions \cup {req[t].records} /\ UNCHANGED own
     \/ Faults /\ own' = FALSE /\ UNCHANGED versions
  /\ Return(t, "done")
  /\ UNCHANGED <<file, foreign, tabVars, req, spent>>

----------------------------------------------------------------------------
(* Everybody else.                                                         *)

\* Another program edits the file, removes it or leaves it broken.
OutsideEdit ==
  /\ Spend("outside", MaxOutside)
  /\ \E content \in Contents \ {file} : file' = content
  /\ own' = FALSE
  /\ foreign' = TRUE
  /\ UNCHANGED <<mu, versions, tabVars, pc, req>>

\* Head-Control dies and starts again: saves it was working on end without an
\* answer, and without a version if the file was replaced already.
Restart ==
  /\ Spend("restarts", MaxRestarts)
  /\ mu' = NoTab
  /\ own' = (own /\ \A t \in Tabs : pc[t] # "record")
  /\ pc' = [t \in Tabs |-> IF pc[t] \in Serving THEN "failed" ELSE pc[t]]
  /\ UNCHANGED <<file, foreign, versions, tabVars, req>>

----------------------------------------------------------------------------

Init ==
  /\ file \in Valid \cup {Missing}
  /\ mu = NoTab
  /\ versions = {}
  /\ flight = [t \in Tabs |-> NoAnswer]
  /\ data = [t \in Tabs |-> file]
  /\ draft = [t \in Tabs |-> Shown(file)]
  /\ dirty = [t \in Tabs |-> FALSE]
  /\ conflict = [t \in Tabs |-> FALSE]
  /\ pc = [t \in Tabs |-> "idle"]
  /\ req = [t \in Tabs |-> NoSave]
  /\ base = data
  /\ own = FALSE
  /\ foreign = FALSE
  /\ spent = [edits |-> 0, saves |-> 0, outside |-> 0, restarts |-> 0]

User(t) == Edit(t) \/ Save(t) \/ Overwrite(t) \/ Discard(t) \/ CloseDialog(t)
SaveStep(t) == Validate(t) \/ Load(t) \/ Write(t) \/ Record(t) \/ Succeed(t) \/ Fail(t)

Next ==
  \/ \E t \in Tabs : User(t) \/ Poll(t) \/ Polled(t) \/ Lock(t) \/ SaveStep(t)
  \/ OutsideEdit \/ Restart

Spec == Init /\ [][Next]_vars

\* Visible tabs poll; goroutines are scheduled; sync.Mutex starves nobody, and
\* a poll waits for the same lock as a save.
Fairness ==
  \A t \in Tabs : 
    /\ SF_vars(Poll(t)) /\ WF_vars(Polled(t))
    /\ SF_vars(Lock(t)) /\ WF_vars(SaveStep(t))

FairSpec == Spec /\ Fairness

----------------------------------------------------------------------------
(* Properties.                                                             *)

\* Forms hold lists of records, and mu is held by exactly the save that is
\* between its Lock and its deferred Unlock, on every path that returns.
TypeOK ==
  /\ file \in Contents
  /\ mu \in {NoTab} \cup Tabs
  /\ versions \subseteq Lists
  /\ flight \in [Tabs -> {NoAnswer} \cup Loadable]
  /\ data \in [Tabs -> Loadable]
  /\ draft \in [Tabs -> Lists]
  /\ dirty \in [Tabs -> BOOLEAN] /\ conflict \in [Tabs -> BOOLEAN]
  /\ pc \in [Tabs -> Labels]
  /\ req \in [Tabs -> [records : Lists, expected : Loadable, force : BOOLEAN]]
  /\ base \in [Tabs -> Loadable]
  /\ own \in BOOLEAN /\ foreign \in BOOLEAN
  /\ spent \in [edits : Nat, saves : Nat, outside : Nat, restarts : Nat]
  /\ \A t \in Tabs : pc[t] \in Locked <=> mu = t

\* "expectedHash must match the file's current hash" (dnsrecords.go:138): a save
\* that is not forced replaces the content whose hash its tab sent, whatever the
\* other tabs save meanwhile; only an edit from outside can come between.
NoUnseenOverwrite ==
  [][\A t \in Tabs :
       pc[t] = "write" /\ pc'[t] = "record"
         => req[t].force \/ foreign \/ file = req[t].expected]_vars

\* What Head-Control put in the file is a list it accepts, and is among the
\* stored versions unless the save that put it there still holds mu: no race of
\* saves, forced or not, with each other or with outside edits loses a version.
\* Only a crash or a failing statement right after the rename does.
OwnFileIsRecorded ==
  own => file \in Valid /\ (file \in versions \/ \E t \in Tabs : pc[t] = "record")

\* A tab that is not being edited shows the file, sooner or later: no order of
\* polls, saves and answers leaves an untouched form on an old list.
TabsCatchUp ==
  \A t \in Tabs, list \in Lists :
    file = list ~> file # list \/ dirty[t] \/ draft[t] = list

\* Every save is answered, and none waits for mu for ever.
SavesAreAnswered == \A t \in Tabs : pc[t] # "idle" ~> pc[t] = "idle"

\* "The extra-records file was modified since you loaded it" (DnsPage.tsx:323)
\* is what the user is told before a save replaces somebody else's list: a save
\* that is not forced replaces the list its draft was made from.
DraftReplacesItsBase ==
  [][\A t \in Tabs :
       pc[t] = "idle" /\ pc'[t] = "validate" /\ ~req'[t].force
         => req'[t].expected = base[t]]_vars
=============================================================================
