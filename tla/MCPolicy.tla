------------------------------ MODULE MCPolicy ------------------------------
(* Instances of PolicyManager for TLC.                                     *)
EXTENDS PolicyProperties, TLC

\* headscale accepts the empty policy and one rule at a time (its "tests"
\* block refuses both together).
AtMostOneRule == {text \in SUBSET Rules : Cardinality(text) <= 1}
AllTexts == SUBSET Rules

ClientSymmetry == Permutations(Clients)
Symmetry == Permutations(Clients) \cup Permutations(Rules)
=============================================================================
