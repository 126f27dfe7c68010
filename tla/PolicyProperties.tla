-------------------------- MODULE PolicyProperties --------------------------
(***************************************************************************)
(* What the policy manager promises: its type invariant, the state         *)
(* invariants, the action properties and the liveness properties checked   *)
(* by the runs and proved in PolicyProofs.                                 *)
(***************************************************************************)
EXTENDS PolicyManager

GetLabels  == {"fetch", "latest", "snapshot", "seeMode", "learn", "learnKV",
               "reply", "metas", "compare"}
SaveLabels == {"check", "readMode", "put", "dbMode", "dbKV", "dbRecord",
               "fileMode", "fileKV", "write", "fileRecord", "hup", "verify"}
Labels     == {"idle", "lock", "meta"} \cup GetLabels \cup SaveLabels
Answers    == {"none", "ok", "pending", "reloaded", "conflict", "error",
               "notWritable", "warned"}

\* Every variable ranges over what its Go counterpart can hold.
TypeOK ==
  /\ hsMode \in {"database", "file"}
  /\ dbPolicy \in TextOrUnset
  /\ running \in Texts
  /\ hupSent \in BOOLEAN
  /\ late \subseteq Texts
  /\ byUi \in BOOLEAN
  /\ file \in Texts
  /\ mode \in Modes
  /\ kvMode \in {"database", "file", Unset}
  /\ modelMu \in Clients \cup {NoClient}
  /\ versions \subseteq [source : {"ui", "external-snapshot"}, text : Texts]
  /\ newest \in TextOrUnset
  /\ meta \in Texts
  /\ pc \in [Clients -> Labels]
  /\ req \in [Clients -> [op : AllOperations \cup {"none"}, live : Texts, off : Texts,
                          base : TextOrUnset, force : BOOLEAN]]
  /\ served \in [Clients -> [text : Texts, stamped : BOOLEAN]]
  /\ result \in [Clients -> Answers]
  /\ view \in [Clients -> [base : TextOrUnset, off : Texts]]
  /\ foreign \in BOOLEAN
  /\ spent \in [starts : Nat, outside : Nat, restarts : Nat, switches : Nat]

----------------------------------------------------------------------------
(* Concurrent structured edits.                                            *)

\* The client whose structured save is under way writes the served policy.
StructuredWrite(c) ==
  modelMu = c /\ pc[c] \in {"put", "write"} /\ Served' # Served

\* A structured save replaces the policy its user loaded and nothing else
\* (model.go:172: a stale baseHash is refused), however the Get, the check and
\* the write interleave with other requests; only a writer that does not take
\* modelMu - the raw editor, the CLI, a delayed PUT - can slip in between.
NoLostStructuredUpdate ==
  [][\A c \in Clients :
       StructuredWrite(c) => req[c].force \/ foreign \/ Served = req[c].base]_vars

\* Rules Head-Control has in its keeping: live ones, disabled ones in the
\* table, and the disabled ones a save under way has removed from the policy
\* but not yet put in the table.
UnderWay(c) == modelMu = c /\ pc[c] \in
  {"dbMode", "dbKV", "dbRecord", "fileRecord", "hup", "verify", "meta"}
OffUnderWay == UNION {req[c].off : c \in {d \in Clients : UnderWay(d)}}
Kept == Served \cup meta \cup OffUnderWay

\* "Disabled rules are removed from the live policy and kept here in full"
\* (store/aclmeta.go:7): a rule leaves both places only because someone
\* submitted a policy without it - an outside change of the served policy, or a
\* structured save that lists it neither as enabled nor as disabled.
RulesAreKept ==
  [][\A r \in Kept \ Kept' :
       IF \E c \in Clients : modelMu = c /\ pc'[c] # pc[c]
       THEN \E c \in Clients : modelMu = c /\ (foreign \/ r \notin req[c].live \cup req[c].off)
       ELSE Served' # Served]_vars

\* "Concurrent edits are detected (baseHash)" (README.md:167), said of what the
\* editor shows: a structured save that is not forced replaces the disabled
\* rules its user loaded, not others.
TableIsWhatTheUserLoaded ==
  [][\A c \in Clients :
       pc[c] = "meta" /\ meta' # meta /\ ~req[c].force /\ ~foreign
         => meta \ req[c].base \subseteq view[c].off]_vars

\* The same promise as an implementation: seen through this mapping, structured
\* saves are atomic.  The save counts as done when the served policy changes, or
\* when the check finds nothing to change, and its disabled rules with it.
KeptAside == IF \E c \in Clients : UnderWay(c) THEN OffUnderWay ELSE meta

Awaited == [c \in Clients |->
  IF req[c].op # "model" \/ UnderWay(c) THEN Unset
  ELSE [live |-> req[c].live, off |-> req[c].off, base |-> req[c].base, force |-> req[c].force]]

Register == INSTANCE PolicyRegister WITH
  Nothing  <- Unset,
  policy   <- Served,
  disabled <- KeptAside,
  pending  <- Awaited

\* Nothing to wait for is told from what somebody waits for.
ASSUME UnsetAssumption == Unset \notin [live : Texts, off : Texts, base : TextOrUnset, force : BOOLEAN]

StructuredSavesAreAtomic == Register!Spec

----------------------------------------------------------------------------
(* History.                                                                *)

Recorded(text) == \E row \in versions : row.text = text

\* "Every externally-observed change is snapshotted" (policy.go:12): whatever
\* policy text a Get hands out, or a structured save starts from, is in the
\* history by then, in every interleaving of reads and saves.
ObservedIsRecorded ==
  \A c \in Clients :
    pc[c] \in {"seeMode", "learn", "learnKV", "reply", "metas", "compare"}
      => Recorded(served[c].text)

\* "Every save is snapshotted" (policy.go:12): a save that has replaced the
\* policy does not return, with whatever answer, before its text is in the
\* history.
Replacing == {"dbMode", "dbKV", "dbRecord", "fileRecord", "hup", "verify"}
AppliedIsRecorded ==
  [][\A c \in Clients :
       pc[c] \in Replacing /\ pc'[c] \in {"idle", "meta"}
         => [source |-> "ui", text |-> req[c].live] \in versions']_vars

\* The policy in force is never missing from the history because of a race: if
\* Head-Control put it there, its row exists or its save is about to add it.
UiPolicyIsRecorded ==
  byUi => \/ Recorded(Served)
          \/ \E c \in Clients : req[c].live = Served /\
                 pc[c] \in {"dbMode", "dbKV", "dbRecord", "fileRecord"}

----------------------------------------------------------------------------
(* Policy mode.                                                            *)

\* A mode learned from headscale is "remembered" (policy.go:11): whenever no
\* setMode is between its two writes, a restart comes back with the mode the
\* manager has now, or with the configured one.
LearnedModePersists ==
  \/ mode \in {kvMode, NewMode(kvMode)}
  \/ \E c \in Clients : pc[c] \in {"learnKV", "dbKV", "fileKV"}

----------------------------------------------------------------------------
(* Policy file and reload.                                                 *)

\* In file mode nothing but the dry run stands between an invalid text and the
\* file headscale loads when it starts: the file is always one it accepts.
FileStaysLoadable == file \in Valid

\* When the file headscale works from differs from what the filter enforces,
\* its writer still has the reload ahead of it or headscale has a signal to
\* handle: no two saves lose the reload of the later one.
ReloadIsOwed ==
  hsMode = "file" /\ file # running =>
    hupSent \/ \E c \in Clients : pc[c] \in {"fileRecord", "hup"}

\* A policy that headscale serves and nobody replaces comes into force.
ServedTakesEffect ==
  \A text \in Texts : Served = text ~> (running = text \/ Served # text)

----------------------------------------------------------------------------
(* Progress.                                                               *)

\* Every request is answered: no wait for modelMu, headscale or the reload
\* verification lasts for ever.
RequestsAreAnswered == \A c \in Clients : pc[c] # "idle" ~> pc[c] = "idle"
=============================================================================
