------------------------------ MODULE WaitItem ------------------------------
(***************************************************************************)
(* What threading_timer_queue.h promises of one TimerQueueWaitItem to the  *)
(* code that has queued it: when its callback may be executing, and after  *)
(* what it never will be again.  Every item of TimerQueue is shown by      *)
(* proof to be one.                                                        *)
(***************************************************************************)
CONSTANT recurring      \* the item has an interval

VARIABLES calling,      \* its callback is executing
          final         \* no other call will begin

itemVars == <<calling, final>>

Init == calling = FALSE /\ final = FALSE

\* The only call of an item without an interval is its last.
Call == /\ ~calling /\ ~final
        /\ calling' = TRUE
        /\ final' = ~recurring

Return == /\ calling
          /\ calling' = FALSE
          /\ UNCHANGED final

\* Disarm() returns while no callback is executing, and makes an end of the item.
Disarm == /\ ~calling
          /\ final' = TRUE
          /\ UNCHANGED calling

\* Disarm() in the callback returns at once; it is the last call.
SelfDisarm == /\ calling
              /\ final' = TRUE
              /\ UNCHANGED calling

Next == Call \/ Return \/ Disarm \/ SelfDisarm

Spec == Init /\ [][Next]_itemVars
=============================================================================
