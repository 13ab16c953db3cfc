---------------------------- MODULE MCGlobalMutex ----------------------------
(* An instance of GlobalMutex; the bounds are given in the .cfg file. *)
EXTENDS GlobalMutex
=============================================================================
