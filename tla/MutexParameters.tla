--------------------------- MODULE MutexParameters ---------------------------
(* The parameters that both locks of base/mutex.cc share. *)
EXTENDS Integers

CONSTANTS
    Threads,      \* the threads that use the lock
    SpinCount     \* XE_LINUX_MUTEX_SPINCOUNT, 128 in the code

ASSUME SpinCountAssumption == SpinCount \in Nat \ {0}
=============================================================================
