------------------------- MODULE MCResolveContracts -------------------------
(***************************************************************************)
(* Instances of ResolveContracts: two pages, seen through two windows.     *)
(***************************************************************************)
EXTENDS ResolveContracts, TLC

Symmetry == Permutations(Guests)

=============================================================================
