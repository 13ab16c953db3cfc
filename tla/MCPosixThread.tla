---------------------------- MODULE MCPosixThread ----------------------------
(* Instances of PosixThread; the bounds are given in the .cfg files. *)
EXTENDS PosixThread
=============================================================================
