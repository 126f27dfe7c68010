------------------------------- MODULE MCDns -------------------------------
(* Instances of DnsRecords for TLC.                                        *)
EXTENDS DnsRecords, TLC, FiniteSets

\* Two records with the same name and type are refused together.
OneValue == {list \in SUBSET Records : Cardinality(list) <= 1}

Symmetry == Permutations(Tabs) \cup Permutations(Records)
=============================================================================
