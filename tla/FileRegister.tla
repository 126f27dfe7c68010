---------------------------- MODULE FileRegister ----------------------------
(***************************************************************************)
(* A file that writers replace as a whole: what writeFileAtomic promises   *)
(* the rest of the policy manager, and headscale, who read the file.       *)
(***************************************************************************)
CONSTANTS Writers, Texts, Nothing

VARIABLES
  content,   \* what a reader sees, Nothing when there is no file
  earlier,   \* contents a power failure may still bring back
  wanted,    \* the text each writer is about to put in place, or Nothing
  failed     \* whether it returns, or returned last, an error

vars == <<content, earlier, wanted, failed>>

Init ==
  /\ content \in Texts \cup {Nothing}
  /\ earlier = {}
  /\ wanted = [w \in Writers |-> Nothing]
  /\ failed = [w \in Writers |-> FALSE]

Start(w) ==
  /\ wanted[w] = Nothing
  /\ \E text \in Texts : wanted' = [wanted EXCEPT ![w] = text]
  /\ failed' = [failed EXCEPT ![w] = FALSE]
  /\ UNCHANGED <<content, earlier>>

Commit(w) ==
  /\ wanted[w] # Nothing
  /\ content' = wanted[w]
  /\ earlier' = earlier \cup {content}
  /\ wanted' = [wanted EXCEPT ![w] = Nothing]
  /\ UNCHANGED failed

Abort(w) ==
  /\ wanted[w] # Nothing
  /\ wanted' = [wanted EXCEPT ![w] = Nothing]
  /\ failed' = [failed EXCEPT ![w] = TRUE]
  /\ UNCHANGED <<content, earlier>>

Settle == earlier' = {} /\ UNCHANGED <<content, wanted, failed>>

\* Head-Control is killed: nobody is writing any more.
Kill ==
  /\ wanted' = [w \in Writers |-> Nothing]
  /\ UNCHANGED <<content, earlier, failed>>

PowerFailure ==
  /\ content' \in {content} \cup earlier
  /\ earlier' = {}
  /\ wanted' = [w \in Writers |-> Nothing]
  /\ UNCHANGED failed

Next ==
  \/ \E w \in Writers : Start(w) \/ Commit(w) \/ Abort(w)
  \/ Settle \/ Kill \/ PowerFailure

Spec == Init /\ [][Next]_vars
=============================================================================
