-------------------------- MODULE MCRetailMembership --------------------------
(***************************************************************************)
(* Small instances of RetailMembership: a company alone, and a company     *)
(* with a region and a store below it.                                     *)
(***************************************************************************)
EXTENDS RetailMembership, TLC

CONSTANTS company, region, store

MCAlone == (company :> NoUnit)
MCParent == MCAlone @@ (region :> company) @@ (store :> region)

\* Users and requests are not told apart in the tree, where no account is deleted.
MCSymmetry == Permutations(Users) \cup Permutations(Requests)
=============================================================================
