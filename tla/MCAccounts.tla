----------------------------- MODULE MCAccounts -----------------------------
(***************************************************************************)
(* Accounts for TLC: ids of a kind are interchangeable, and all servers    *)
(* are incarnations of one subdomain.                                      *)
(***************************************************************************)
EXTENDS Accounts, TLC

CONSTANT d1
OneSubdomain == [s \in Server |-> d1]

Interchangeable ==
    Permutations(Tenant) \cup Permutations(Key) \cup Permutations(Request)
        \cup Permutations(Server)
==============================================================================
