---------------------------- MODULE SharedRegion ----------------------------
(***************************************************************************)
(* What a caller of the kernel's X_ERWLOCK exports may rely on: a region   *)
(* that any number of readers or one writer is inside, which a thread that *)
(* waits for it enters in the way it asked for, and in which a reader that *)
(* arrives does not overtake a writer that waits.  ReadWriteLock is shown  *)
(* by proof to implement it.                                               *)
(***************************************************************************)
CONSTANT Threads

VARIABLE at      \* "out", "reading", "writing", or waiting: "await_read", "await_write"

AllAre(places) == \A t \in Threads : at[t] \in places
Go(t, place)   == at' = [at EXCEPT ![t] = place]

Outside == {"out", "await_read", "await_write"}

Init == at = [t \in Threads |-> "out"]

\* Readers share the region, and one that has not waited enters only while no writer
\* waits.
EnterShared(t) == /\ \/ at[t] = "out" /\ AllAre({"out", "await_read", "reading"})
                     \/ at[t] = "await_read" /\ AllAre(Outside \cup {"reading"})
                  /\ Go(t, "reading")

\* A writer has it alone.
EnterExclusive(t) == /\ at[t] \in {"out", "await_write"}
                     /\ AllAre(Outside)
                     /\ Go(t, "writing")

Queue(t) == /\ at[t] = "out"
            /\ \E place \in {"await_read", "await_write"} : Go(t, place)

Leave(t) == /\ at[t] \in {"reading", "writing"}
            /\ Go(t, "out")

Next == \E t \in Threads : EnterShared(t) \/ EnterExclusive(t) \/ Queue(t) \/ Leave(t)

Spec == Init /\ [][Next]_at
=============================================================================
