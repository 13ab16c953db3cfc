---------------------------- MODULE MCPosixTimer ----------------------------
(* Instances of PosixTimer: which activation is by SetRepeating. *)
EXTENDS PosixTimer

=============================================================================
