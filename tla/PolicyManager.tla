--------------------------- MODULE PolicyManager ---------------------------
(***************************************************************************)
(* The policy manager of Head-Control (internal/policy/policy.go and       *)
(* model.go): reads, raw saves and structured saves of headscale's access  *)
(* policy, the learned policy mode, the version history and the metadata   *)
(* table that keeps disabled rules.                                        *)
(*                                                                         *)
(* Every HTTP request is a goroutine.  A step is what one goroutine does   *)
(* between two points at which another may run: one call to headscale, one *)
(* SQLite statement, one file operation, one critical section of m.mu.     *)
(*                                                                         *)
(* A policy text is abstracted to the set of rules it enables: two texts   *)
(* are equal iff their hashes are (store.HashContent), and the editor's    *)
(* patch of a text produces the text of the submitted rules.               *)
(***************************************************************************)
EXTENDS Naturals, FiniteSets

CONSTANTS
  Clients,        \* browser tabs; each has at most one request under way
  Rules,          \* rules of the policy
  Valid,          \* the texts headscale's CheckPolicy accepts
  Operations,     \* the handlers the clients call in this instance
  ConfiguredMode, \* POLICY_MODE
  Mounted,        \* POLICY_FILE_PATH is set
  Reloader,       \* DOCKER_SOCK is set
  HsModes,        \* policy.mode values headscale may start with
  Faults,         \* calls to headscale and docker may fail or be cancelled
  StoreFails,     \* SQLite statements may fail
  MaxStarts,      \* bound: requests started
  MaxOutside,     \* bound: policy changes made without Head-Control
  MaxRestarts,    \* bound: crashes of Head-Control
  MaxSwitches,    \* bound: headscale restarted with the other policy.mode
  NoClient, Unset \* model values: no holder of modelMu; nothing there

Texts == SUBSET Rules
TextOrUnset == {Unset} \cup Texts
Modes == {"unknown", "database", "file"}
AllOperations == {"get", "load", "save", "model"}

ASSUME ConstantsAssumption ==
  /\ Valid \subseteq Texts
  /\ Operations \subseteq AllOperations
  /\ ConfiguredMode \in {"auto", "database", "file"}
  /\ Mounted \in BOOLEAN /\ Reloader \in BOOLEAN
  /\ ConfiguredMode = "file" => Mounted          \* config.go refuses the rest
  /\ HsModes \subseteq {"database", "file"}
  /\ Faults \in BOOLEAN /\ StoreFails \in BOOLEAN
  /\ {MaxStarts, MaxOutside, MaxRestarts, MaxSwitches} \subseteq Nat
  /\ NoClient \notin Clients
  /\ \A text \in Texts : Unset # text

VARIABLES
  hsMode,    \* headscale: policy.mode of the running process
  dbPolicy,  \* headscale: the policy row of its database, or Unset
  running,   \* headscale: the policy the packet filter enforces
  hupSent,   \* headscale: a SIGHUP is on its way
  late,      \* PUT requests Head-Control gave up on, headscale may still apply
  byUi,      \* history: the served policy is the work of a save that got through
  file,      \* the policy file on the (shared) volume
  mode,      \* Manager.mode
  kvMode,    \* kv row policy.detected_mode, Unset when there is none
  modelMu,   \* holder of Manager.modelMu, or NoClient
  versions,  \* rows of policy_versions: their source and text
  newest,    \* text of the newest row, or Unset
  meta,      \* disabled rules in acl_rule_meta
  pc,        \* the next step of each client's request
  req,       \* what the request asked for
  served,    \* the State a Get works on: text, and whether updatedAt was set
  result,    \* what the last request of the client answered
  view,      \* the model the browser edits: hash of the text, disabled rules
  foreign,   \* history: a writer outside modelMu moved the served policy
             \* since the holder of modelMu read it
  spent      \* how much of each bound is used

hsVars     == <<hsMode, dbPolicy, running, hupSent, late, byUi>>
modeVars   == <<mode, kvMode>>
storeVars  == <<versions, newest, meta>>
clientVars == <<pc, req, served, result, view>>
vars == <<hsVars, file, modeVars, modelMu, storeVars, clientVars, foreign, spent>>

----------------------------------------------------------------------------
(* Helpers.                                                                *)

NoRequest == [op |-> "none", live |-> {}, off |-> {}, base |-> Unset, force |-> FALSE]
NoState   == [text |-> {}, stamped |-> FALSE]
NoView    == [base |-> Unset, off |-> {}]

\* Mutant of NewMode: the stored value is not checked for being a mode.
NewModeTrusting(saved) == IF ConfiguredMode # "auto" THEN ConfiguredMode ELSE saved

\* New: how the manager resolves its mode at startup.
NewMode(saved) ==
  CASE ConfiguredMode # "auto" -> ConfiguredMode
    [] ConfiguredMode = "auto" /\ saved \in {"database", "file"} -> saved
    [] OTHER -> IF Mounted THEN "file" ELSE "unknown"

\* GET /api/v1/policy: file mode reads the file afresh; a database that never
\* had a policy answers an error that Get turns into the empty text.
Served ==
  IF hsMode = "file" THEN file ELSE IF dbPolicy = Unset THEN {} ELSE dbPolicy

Goto(c, label) == pc' = [pc EXCEPT ![c] = label]

\* The handler returns to the browser; a structured save unlocks modelMu.
Finish(c, answer) ==
  /\ Goto(c, "idle")
  /\ req' = [req EXCEPT ![c] = NoRequest]
  /\ served' = [served EXCEPT ![c] = NoState]
  /\ result' = [result EXCEPT ![c] = answer]
  /\ modelMu' = IF modelMu = c THEN NoClient ELSE modelMu
  /\ foreign' = (foreign /\ modelMu # c)

\* Save returns without an error: a structured save goes on to its metadata.
SaveReturns(c, answer) ==
  IF req[c].op = "model"
  THEN /\ Goto(c, "meta")
       /\ result' = [result EXCEPT ![c] = answer]
       /\ UNCHANGED <<req, served, modelMu, foreign>>
  ELSE Finish(c, answer)

Step(c, label) ==
  Goto(c, label) /\ UNCHANGED <<req, served, result, modelMu, foreign>>

\* Whoever replaces the served policy without holding modelMu moves it under
\* the feet of the structured save that holds it.
Overtake == foreign' = (modelMu # NoClient)

WrittenBy(c) ==
  /\ byUi' = TRUE
  /\ IF modelMu = c THEN UNCHANGED foreign ELSE Overtake

WrittenOutside == byUi' = FALSE /\ Overtake

----------------------------------------------------------------------------
(* Requests arrive.                                                        *)

Begin(c, request, label) ==
  /\ pc[c] = "idle"
  /\ request.op \in Operations
  /\ spent.starts < MaxStarts
  /\ spent' = [spent EXCEPT !.starts = @ + 1]
  /\ Goto(c, label)
  /\ req' = [req EXCEPT ![c] = request]
  /\ result' = [result EXCEPT ![c] = "none"]
  /\ UNCHANGED <<hsVars, file, modeVars, modelMu, storeVars, served, view, foreign>>

\* handleGetPolicy and handleGetPolicyModel.
BeginRead(c) ==
  \E op \in {"get", "load"} : Begin(c, [NoRequest EXCEPT !.op = op], "fetch")

\* handleSetPolicy: the raw editor sends a whole text, and no hash.
BeginSave(c) ==
  \E text \in Texts :
    Begin(c, [NoRequest EXCEPT !.op = "save", !.live = text], "check")

\* handleSavePolicyModel: enabled and disabled rules, on top of a loaded view.
BeginModel(c) ==
  /\ view[c] # NoView
  /\ \E live, off \in Texts, force \in BOOLEAN :
       /\ live \cap off = {}
       /\ Begin(c, [op |-> "model", live |-> live, off |-> off,
                    base |-> view[c].base, force |-> force], "lock")

\* Mutant of LockModel: the mutex does not exclude anybody.
LockModelShared(c) ==
  /\ pc[c] = "lock"
  /\ modelMu' = c
  /\ Goto(c, "fetch")
  /\ UNCHANGED <<hsVars, file, modeVars, storeVars, req, served, result, view, foreign, spent>>

\* SaveModel: m.modelMu.Lock().
LockModel(c) ==
  /\ pc[c] = "lock"
  /\ modelMu = NoClient
  /\ modelMu' = c
  /\ Goto(c, "fetch")
  /\ UNCHANGED <<hsVars, file, modeVars, storeVars, req, served, result, view, foreign, spent>>

----------------------------------------------------------------------------
(* Get.                                                                    *)

Fetch(c) ==
  /\ pc[c] = "fetch"
  /\ \/ /\ served' = [served EXCEPT ![c] =
                        [text |-> Served,
                         stamped |-> hsMode = "database" /\ dbPolicy # Unset]]
        /\ Goto(c, "latest")
        /\ foreign' = (foreign /\ modelMu # c)
        /\ UNCHANGED <<req, result, modelMu>>
     \/ Faults /\ Finish(c, "error")
  /\ UNCHANGED <<hsVars, file, modeVars, storeVars, view, spent>>

\* Mutant of CompareLatest: only an empty history gets a snapshot.
CompareLatestOnce(c) ==
  /\ pc[c] = "latest"
  /\ Step(c, IF newest # Unset THEN "seeMode" ELSE "snapshot")
  /\ UNCHANGED <<hsVars, file, modeVars, storeVars, view, spent>>

\* snapshotIfChanged: LatestPolicyHash, whose failure ends it.
CompareLatest(c) ==
  /\ pc[c] = "latest"
  /\ \/ Step(c, IF newest = served[c].text THEN "seeMode" ELSE "snapshot")
     \/ StoreFails /\ Step(c, "seeMode")
  /\ UNCHANGED <<hsVars, file, modeVars, storeVars, view, spent>>

\* SavePolicyVersion, whose error is ignored by both callers.
AddVersion(source, text) ==
  /\ \/ /\ versions' = versions \cup {[source |-> source, text |-> text]}
        /\ newest' = text
     \/ StoreFails /\ UNCHANGED <<versions, newest>>
  /\ UNCHANGED meta

\* snapshotIfChanged: the row for a text that differed from the newest one.
Snapshot(c) ==
  /\ pc[c] = "snapshot"
  /\ AddVersion("external-snapshot", served[c].text)
  /\ Step(c, "seeMode")
  /\ UNCHANGED <<hsVars, file, modeVars, view, spent>>

\* Get reads m.mode; updatedAt reveals database mode to an unresolved manager.
SeeMode(c) ==
  /\ pc[c] = "seeMode"
  /\ Step(c, IF served[c].stamped /\ mode = "unknown" THEN "learn" ELSE "reply")
  /\ UNCHANGED <<hsVars, file, modeVars, storeVars, view, spent>>

\* Mutant of SetMode: the comparison follows the assignment.
SetModeThenCompare(c, label, learned, kvLabel, next) ==
  /\ pc[c] = label
  /\ mode' = learned
  /\ Step(c, IF mode' # learned THEN kvLabel ELSE next)
  /\ UNCHANGED <<hsVars, file, kvMode, storeVars, view, spent>>

\* setMode: the field under m.mu, then the kv row after the unlock if it changed.
SetMode(c, label, learned, kvLabel, next) ==
  /\ pc[c] = label
  /\ mode' = learned
  /\ Step(c, IF mode # learned THEN kvLabel ELSE next)
  /\ UNCHANGED <<hsVars, file, kvMode, storeVars, view, spent>>

StoreMode(c, kvLabel, learned, next) ==
  /\ pc[c] = kvLabel
  /\ \/ kvMode' = learned
     \/ StoreFails /\ UNCHANGED kvMode
  /\ Step(c, next)
  /\ UNCHANGED <<hsVars, file, mode, storeVars, view, spent>>

LearnDatabase(c) ==
  \/ SetMode(c, "learn", "database", "learnKV", "reply")
  \/ StoreMode(c, "learnKV", "database", "reply")

\* Get's answer: reloadPending compares the file with the text served above.
Reply(c) ==
  LET answer == IF Mounted /\ file # served[c].text THEN "pending" ELSE "ok"
  IN /\ pc[c] = "reply"
     /\ \/ req[c].op = "get" /\ Finish(c, answer)
        \/ req[c].op = "load" /\ Step(c, "metas")
        \/ /\ req[c].op = "model"
           /\ Goto(c, "compare")
           /\ result' = [result EXCEPT ![c] = answer]
           /\ UNCHANGED <<req, served, modelMu, foreign>>
     /\ UNCHANGED <<hsVars, file, modeVars, storeVars, view, spent>>

\* modelState: the answer the browser edits from now on.  A disabled rule that
\* is live again is shown once, as live; when ListRuleMeta fails none is shown.
ShowModel(c) ==
  \E rows \in {meta} \cup (IF StoreFails THEN {{}} ELSE {}) :
    view' = [view EXCEPT ![c] = [base |-> served[c].text, off |-> rows \ served[c].text]]

\* GetModel, after its Get.
LoadMetas(c) ==
  /\ pc[c] = "metas"
  /\ ShowModel(c)
  /\ Finish(c, "ok")
  /\ UNCHANGED <<hsVars, file, modeVars, storeVars, spent>>

----------------------------------------------------------------------------
(* SaveModel around Save.                                                  *)

\* Mutant of Compare: the baseHash is not looked at.
CompareNothing(c) ==
  /\ pc[c] = "compare"
  /\ Step(c, IF req[c].live = served[c].text THEN "meta" ELSE "check")
  /\ UNCHANGED <<hsVars, file, modeVars, storeVars, view, spent>>

\* The baseHash check, then Plan: no operation means no call to headscale.
Compare(c) ==
  /\ pc[c] = "compare"
  /\ \/ /\ ~req[c].force /\ served[c].text # req[c].base
        /\ ShowModel(c)
        /\ Finish(c, "conflict")
     \/ /\ req[c].force \/ served[c].text = req[c].base
        /\ Step(c, IF req[c].live = served[c].text THEN "meta" ELSE "check")
        /\ UNCHANGED view
  /\ UNCHANGED <<hsVars, file, modeVars, storeVars, spent>>

\* Mutant of ReplaceRuleMeta: rules that were live when the save began get no row.
ReplaceRuleMetaStale(c) ==
  /\ pc[c] = "meta"
  /\ meta' = req[c].off \ served[c].text
  /\ Finish(c, result[c])
  /\ view' = [view EXCEPT ![c] = NoView]
  /\ UNCHANGED <<hsVars, file, modeVars, versions, newest, spent>>

\* ReplaceRuleMeta: one transaction; its failure is only a warning.  The editor
\* loads the model again once the save is answered.
ReplaceRuleMeta(c) ==
  /\ pc[c] = "meta"
  /\ \/ meta' = req[c].off /\ Finish(c, result[c])
     \/ StoreFails /\ UNCHANGED meta /\ Finish(c, "warned")
  /\ view' = [view EXCEPT ![c] = NoView]
  /\ UNCHANGED <<hsVars, file, modeVars, versions, newest, spent>>

----------------------------------------------------------------------------
(* Save.                                                                   *)

\* Mutant of Check: a manager in file mode does not ask headscale.
CheckUnlessFile(c) ==
  /\ pc[c] = "check"
  /\ IF req[c].live \in Valid \/ mode = "file" THEN Step(c, "readMode") ELSE Finish(c, "error")
  /\ UNCHANGED <<hsVars, file, modeVars, storeVars, view, spent>>

Check(c) ==
  /\ pc[c] = "check"
  /\ \/ req[c].live \in Valid /\ Step(c, "readMode")
     \/ (req[c].live \notin Valid \/ Faults) /\ Finish(c, "error")
  /\ UNCHANGED <<hsVars, file, modeVars, storeVars, view, spent>>

ReadMode(c) ==
  /\ pc[c] = "readMode"
  /\ Step(c, IF mode # "file" THEN "put" ELSE "write")
  /\ UNCHANGED <<hsVars, file, modeVars, storeVars, view, spent>>

\* SetPolicy.  A request that times out, or whose client went away, may have
\* been applied, may be applied later, or never.
Put(c) ==
  /\ pc[c] = "put"
  /\ \/ /\ hsMode = "database"
        /\ dbPolicy' = req[c].live
        /\ running' = req[c].live
        /\ WrittenBy(c)
        /\ Goto(c, "dbMode")
        /\ UNCHANGED <<late, req, served, result, modelMu>>
     \/ /\ hsMode = "file"              \* "update is disabled for modes other than"
        /\ Step(c, "fileMode")
        /\ UNCHANGED <<dbPolicy, running, late, byUi>>
     \/ /\ Faults
        /\ late' = late \cup {req[c].live}
        /\ Finish(c, "error")
        /\ UNCHANGED <<dbPolicy, running, byUi>>
  /\ UNCHANGED <<hsMode, hupSent, file, modeVars, storeVars, view, spent>>

SaveLearnsDatabase(c) ==
  \/ SetMode(c, "dbMode", "database", "dbKV", "dbRecord")
  \/ StoreMode(c, "dbKV", "database", "dbRecord")

SaveLearnsFile(c) ==
  \/ SetMode(c, "fileMode", "file", "fileKV", "write")
  \/ StoreMode(c, "fileKV", "file", "write")

\* Mutant of RecordDatabase: the row holds the text that was replaced.
RecordDatabaseOld(c) ==
  /\ pc[c] = "dbRecord"
  /\ AddVersion("ui", served[c].text)
  /\ SaveReturns(c, "reloaded")
  /\ UNCHANGED <<hsVars, file, modeVars, view, spent>>

\* The history row of a save, database mode: the save is done.
RecordDatabase(c) ==
  /\ pc[c] = "dbRecord"
  /\ AddVersion("ui", req[c].live)
  /\ SaveReturns(c, "reloaded")
  /\ UNCHANGED <<hsVars, file, modeVars, view, spent>>

\* writeFileAtomic; its steps are the subject of module AtomicFile.
Write(c) ==
  /\ pc[c] = "write"
  /\ \/ /\ Mounted
        /\ file' = req[c].live
        /\ IF hsMode = "file" THEN WrittenBy(c) ELSE UNCHANGED <<byUi, foreign>>
        /\ Goto(c, "fileRecord")
        /\ UNCHANGED <<req, served, result, modelMu>>
     \/ ~Mounted /\ Finish(c, "notWritable") /\ UNCHANGED <<file, byUi>>
     \/ Faults /\ Finish(c, "error") /\ UNCHANGED <<file, byUi>>
  /\ UNCHANGED <<hsMode, dbPolicy, running, hupSent, late, modeVars, storeVars, view, spent>>

\* Mutant of RecordFile: no row when a reload follows.
RecordFileUnlessReload(c) ==
  /\ pc[c] = "fileRecord"
  /\ IF Reloader THEN Step(c, "hup") /\ UNCHANGED storeVars
     ELSE AddVersion("ui", req[c].live) /\ SaveReturns(c, "pending")
  /\ UNCHANGED <<hsVars, file, modeVars, view, spent>>

\* Mutant of RecordFile: no signal when headscale serves the text already.
RecordFileIfServed(c) ==
  /\ pc[c] = "fileRecord"
  /\ AddVersion("ui", req[c].live)
  /\ IF Served # req[c].live THEN Step(c, "hup") ELSE SaveReturns(c, "reloaded")
  /\ UNCHANGED <<hsVars, file, modeVars, view, spent>>

RecordFile(c) ==
  /\ pc[c] = "fileRecord"
  /\ AddVersion("ui", req[c].live)
  /\ IF Reloader THEN Step(c, "hup") ELSE SaveReturns(c, "pending")
  /\ UNCHANGED <<hsVars, file, modeVars, view, spent>>

\* reloader.SignalHUP; a failure leaves the reload to the user.
SignalHUP(c) ==
  /\ pc[c] = "hup"
  /\ \/ hupSent' = TRUE /\ Step(c, "verify")
     \/ Faults /\ SaveReturns(c, "pending") /\ UNCHANGED hupSent
  /\ UNCHANGED <<hsMode, dbPolicy, running, late, byUi, file, modeVars, storeVars, view, spent>>

\* Mutant of Verify: the loop has no deadline.
VerifyForEver(c) ==
  /\ pc[c] = "verify"
  /\ Served = req[c].live
  /\ SaveReturns(c, "reloaded")
  /\ UNCHANGED <<hsVars, file, modeVars, storeVars, view, spent>>

\* The verification loop: what headscale serves matches, or the five seconds
\* pass without a match, or the request is cancelled between two polls.
Verify(c) ==
  /\ pc[c] = "verify"
  /\ \/ Served = req[c].live /\ SaveReturns(c, "reloaded")
     \/ (Served # req[c].live \/ Faults) /\ SaveReturns(c, "pending")
     \/ Faults /\ Finish(c, "error")
  /\ UNCHANGED <<hsVars, file, modeVars, storeVars, view, spent>>

----------------------------------------------------------------------------
(* Everything that is not a request.                                       *)

\* headscale handles a SIGHUP: it reads its policy file again.
Reload ==
  /\ hupSent
  /\ hupSent' = FALSE
  /\ running' = IF hsMode = "file" THEN file ELSE running
  /\ UNCHANGED <<hsMode, dbPolicy, late, byUi, file, modeVars, modelMu, storeVars,
                 clientVars, foreign, spent>>

\* headscale gets to a PUT that Head-Control has already given up on.
ApplyLate ==
  \E text \in late :
    /\ hsMode = "database"
    /\ late' = late \ {text}
    /\ dbPolicy' = text
    /\ running' = text
    /\ WrittenOutside
    /\ UNCHANGED <<hsMode, hupSent, file, modeVars, modelMu, storeVars, clientVars, spent>>

\* The CLI, the API or a text editor changes the policy headscale serves; the
\* administrator who edits the file reloads headscale as well.
OutsideEdit ==
  \E text \in Valid \ {Served} :
    /\ spent.outside < MaxOutside
    /\ spent' = [spent EXCEPT !.outside = @ + 1]
    /\ IF hsMode = "file"
       THEN file' = text /\ UNCHANGED dbPolicy
       ELSE dbPolicy' = text /\ UNCHANGED file
    /\ running' = text
    /\ WrittenOutside
    /\ UNCHANGED <<hsMode, hupSent, late, modeVars, modelMu, storeVars, clientVars>>

\* headscale restarts with the other policy.mode.
SwitchMode ==
  /\ spent.switches < MaxSwitches
  /\ spent' = [spent EXCEPT !.switches = @ + 1]
  /\ hsMode' = IF hsMode = "file" THEN "database" ELSE "file"
  /\ UNCHANGED <<dbPolicy, file, modeVars, modelMu, storeVars, clientVars>>
  /\ running' = Served'
  /\ hupSent' = FALSE
  /\ late' = {}
  /\ WrittenOutside

\* Head-Control dies and New runs again: requests, mutexes and m.mode are gone,
\* a PUT that was on the wire may still arrive.
Restart ==
  /\ spent.restarts < MaxRestarts
  /\ spent' = [spent EXCEPT !.restarts = @ + 1]
  /\ late' = late \cup {req[c].live : c \in {d \in Clients : pc[d] = "put"}}
  /\ mode' \in {NewMode(kvMode)} \cup (IF StoreFails THEN {NewMode(Unset)} ELSE {})
  /\ modelMu' = NoClient
  /\ foreign' = FALSE
  /\ pc' = [c \in Clients |-> "idle"]
  /\ req' = [c \in Clients |-> NoRequest]
  /\ served' = [c \in Clients |-> NoState]
  /\ result' = [c \in Clients |-> IF pc[c] = "idle" THEN result[c] ELSE "error"]
  /\ UNCHANGED <<hsMode, dbPolicy, running, hupSent, byUi, file, kvMode, storeVars, view>>

----------------------------------------------------------------------------

Init ==
  /\ hsMode \in HsModes
  /\ file \in Valid
  /\ dbPolicy \in {Unset, file}
  /\ running = Served
  /\ hupSent = FALSE
  /\ late = {}
  /\ byUi = FALSE
  /\ kvMode = Unset
  /\ mode = NewMode(Unset)
  /\ modelMu = NoClient
  /\ versions = {}
  /\ newest = Unset
  /\ meta = {}
  /\ pc = [c \in Clients |-> "idle"]
  /\ req = [c \in Clients |-> NoRequest]
  /\ served = [c \in Clients |-> NoState]
  /\ result = [c \in Clients |-> "none"]
  /\ view = [c \in Clients |-> NoView]
  /\ foreign = FALSE
  /\ spent = [starts |-> 0, outside |-> 0, restarts |-> 0, switches |-> 0]

GetStep(c) ==
  \/ Fetch(c) \/ CompareLatest(c) \/ Snapshot(c) \/ SeeMode(c)
  \/ LearnDatabase(c) \/ Reply(c) \/ LoadMetas(c)

SaveStep(c) ==
  \/ Check(c) \/ ReadMode(c) \/ Put(c) \/ SaveLearnsDatabase(c) \/ RecordDatabase(c)
  \/ SaveLearnsFile(c) \/ Write(c) \/ RecordFile(c) \/ SignalHUP(c) \/ Verify(c)

RequestStep(c) == GetStep(c) \/ SaveStep(c) \/ Compare(c) \/ ReplaceRuleMeta(c)

BeginStep(c) == BeginRead(c) \/ BeginSave(c) \/ BeginModel(c)

Environment == Reload \/ ApplyLate \/ OutsideEdit \/ SwitchMode \/ Restart

Next ==
  \/ \E c \in Clients : BeginStep(c) \/ LockModel(c) \/ RequestStep(c)
  \/ Environment

Spec == Init /\ [][Next]_vars

\* Goroutines are scheduled and every wait they make is bounded (HTTP timeouts,
\* the five second loop); sync.Mutex does not starve a waiter; headscale
\* handles the signals it gets.  Nothing makes users act or faults happen.
Fairness ==
  /\ \A c \in Clients : WF_vars(RequestStep(c)) /\ SF_vars(LockModel(c))
  /\ WF_vars(Reload)

FairSpec == Spec /\ Fairness
============================================================================
