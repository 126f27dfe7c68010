--------------------------- MODULE PolicyRegister ---------------------------
(***************************************************************************)
(* What the structured editor promises its users, with no trace of how it  *)
(* is done: one policy and one list of disabled rules, replaced together   *)
(* by one save at a time, and by a save only if the policy is still the    *)
(* one the user loaded or the user forces it.                              *)
(***************************************************************************)
EXTENDS FiniteSets

CONSTANTS Clients, Rules, Nothing

VARIABLES
  policy,    \* the rules in force
  disabled,  \* the rules kept aside
  pending    \* the save each client waits for, or Nothing

vars == <<policy, disabled, pending>>

Request(base) ==
  [live : SUBSET Rules, off : SUBSET Rules, base : base, force : BOOLEAN]

Init ==
  /\ policy \in SUBSET Rules
  /\ disabled = {}
  /\ pending = [c \in Clients |-> Nothing]

Submit(c) ==
  /\ pending[c] = Nothing
  /\ \E r \in Request(SUBSET Rules) :
       r.live \cap r.off = {} /\ pending' = [pending EXCEPT ![c] = r]
  /\ UNCHANGED <<policy, disabled>>

Apply(c) ==
  /\ pending[c] # Nothing
  /\ pending[c].force \/ pending[c].base = policy
  /\ policy' = pending[c].live
  /\ disabled' = pending[c].off
  /\ pending' = [pending EXCEPT ![c] = Nothing]

\* A conflict, a policy headscale refuses, a mount that is not there.
Refuse(c) ==
  /\ pending[c] # Nothing
  /\ pending' = [pending EXCEPT ![c] = Nothing]
  /\ UNCHANGED <<policy, disabled>>

Next == \E c \in Clients : Submit(c) \/ Apply(c) \/ Refuse(c)

Spec == Init /\ [][Next]_vars
=============================================================================
