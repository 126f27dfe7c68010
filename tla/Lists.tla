-------------------------------- MODULE Lists --------------------------------
(***************************************************************************)
(* Parts of lists, by their places.                                        *)
(***************************************************************************)
EXTENDS Naturals, Sequences, FiniteSets

\* The n-th number of a set, and the elements of a list at some places.
NthOf(S, n) == CHOOSE i \in S : Cardinality({j \in S : j <= i}) = n
Sublist(s, at) == [n \in 1..Cardinality(at) |-> s[NthOf(at, n)]]

\* The elements of a list that are in a set, and how often it has one of them.
Among(s, S) == Sublist(s, {i \in DOMAIN s : s[i] \in S})
Times(s, e) == Cardinality({i \in DOMAIN s : s[i] = e})
=============================================================================
