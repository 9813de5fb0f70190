------------------------------ MODULE MCDomains ------------------------------
(***************************************************************************)
(* CustomDomains for TLC: ids of a kind are interchangeable.               *)
(***************************************************************************)
EXTENDS CustomDomains, TLC

Interchangeable == Permutations(Domain) \cup Permutations(Row) \cup Permutations(Request)
==============================================================================
