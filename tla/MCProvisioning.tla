--------------------------- MODULE MCProvisioning ---------------------------
(***************************************************************************)
(* Provisioning with the values TLC needs.  Two servers of one subdomain   *)
(* are two incarnations: the second is created after the first is deleted. *)
(***************************************************************************)
EXTENDS Provisioning, TLC

CONSTANTS s1, s2, d1, t1, t2, c1, c2

OneSubdomain == [s \in Server |-> d1]

\* Tasks and containers are interchangeable; only safety runs use this.
Interchangeable == Permutations(Task) \cup Permutations(Container)
=============================================================================
