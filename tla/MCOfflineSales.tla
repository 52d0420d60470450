-------------------------- MODULE MCOfflineSales --------------------------
(* Small instances of OfflineSales for TLC. *)
EXTENDS OfflineSales, TLC

Symmetry == Permutations(Requests) \cup Permutations(Tabs)
=============================================================================
