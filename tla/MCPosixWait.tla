----------------------------- MODULE MCPosixWait -----------------------------
(* Instances of PosixWait: the handle lists, and the symmetry of the threads. *)
EXTENDS PosixWait, TLC

CONSTANTS event, mutant

BothOrders == {<<mutant, event>>, <<event, mutant>>}
NoLists    == {}

Symmetry == Permutations(Threads)
=============================================================================
