--------------------------- MODULE MCReadWriteLock ---------------------------
(* Instances of ReadWriteLock; the bounds are given in the .cfg files. *)
EXTENDS ReadWriteLock
=============================================================================
