---------------------------- MODULE CriticalRegion ----------------------------
(***************************************************************************)
(* What base/mutex.h promises of xe::global_critical_region: a region that *)
(* one thread at a time is inside, which that thread may enter again       *)
(* (Acquire() nests freely), and which is free once it has left as often   *)
(* as it entered.  GlobalMutex is shown to implement it, and by proof the  *)
(* guest's critical section and each step of a host mutant.                *)
(***************************************************************************)
EXTENDS Integers

CONSTANT Threads

VARIABLE depth      \* the global_unique_lock objects each thread holds

Init == depth = [t \in Threads |-> 0]

Enter(t) == /\ \A u \in Threads \ {t} : depth[u] = 0
            /\ depth' = [depth EXCEPT ![t] = @ + 1]

Leave(t) == /\ depth[t] > 0
            /\ depth' = [depth EXCEPT ![t] = @ - 1]

Next == \E t \in Threads : Enter(t) \/ Leave(t)

Spec == Init /\ [][Next]_depth
=============================================================================
