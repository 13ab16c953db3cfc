--------------------------- MODULE MCObjectTable ---------------------------
(***************************************************************************)
(* Instances of ObjectTable: two guest threads, one name for objects of    *)
(* two types.                                                              *)
(***************************************************************************)
EXTENDS ObjectTable, TLC

Symmetry == Permutations(Threads) \cup Permutations(Objects) \cup Permutations(Handles)
              \cup Permutations(Vars) \cup Permutations(Types)

=============================================================================
