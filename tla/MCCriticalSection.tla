-------------------------- MODULE MCCriticalSection --------------------------
(* An instance of CriticalSection; the bounds are given in the .cfg file. *)
EXTENDS CriticalSection
=============================================================================
