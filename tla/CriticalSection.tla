---------------------------- MODULE CriticalSection ----------------------------
(***************************************************************************)
(* The guest's critical sections, RtlEnter-, RtlTryEnter- and              *)
(* RtlLeaveCriticalSection of xboxkrnl_rtl.cc, on one X_RTL_CRITICAL_      *)
(* SECTION in guest memory: an atomic lock_count, an owner and a recursion *)
(* count that are plain data, and the auto-reset event in its header,      *)
(* which hands the section from the thread that leaves to one that waits.  *)
(*                                                                         *)
(* depth is the guest's side: how often a thread has entered.  Only the    *)
(* owner calls RtlLeaveCriticalSection (asserted at line 667).             *)
(***************************************************************************)
EXTENDS Integers, FiniteSets

CONSTANTS
    Threads,
    NoThread,        \* owning_thread = 0
    SpinCount,       \* header.absolute * 256; 0 for RtlInitializeCriticalSection
    MaxRecursion     \* bound on nesting; 2^31 - 1 in the code

ASSUME CriticalSectionAssumption == /\ IsFiniteSet(Threads)
                                    /\ NoThread \notin Threads
                                    /\ SpinCount \in Nat
                                    /\ MaxRecursion \in Nat \ {0}

VARIABLES
    lock_count,          \* -1: free; else the entries and the waiters, less one
    recursion_count,
    owning_thread,
    signaled,            \* the event of the section's header
    pc,
    spins,               \* rounds left in RtlEnterCriticalSection's loop
    depth

vars == <<lock_count, recursion_count, owning_thread, signaled, pc, spins, depth>>

\* out: not inside.  spin, wait: in RtlEnterCriticalSection.  claimed: has the
\* section, the owner not stored yet.  in: inside.  leaving: the owner erased,
\* the count not decremented yet.  signal: found waiters, about to set the event.
Places == {"out", "spin", "wait", "claimed", "in", "leaving", "signal"}

Go(t, place) == pc' = [pc EXCEPT ![t] = place]
AtCall(t)    == pc[t] \in {"out", "in"}

Init == /\ lock_count = -1
        /\ recursion_count = 0
        /\ owning_thread = NoThread
        /\ signaled = FALSE
        /\ pc = [t \in Threads |-> "out"]
        /\ spins = [t \in Threads |-> 0]
        /\ depth = [t \in Threads |-> 0]

\* Enter or try-enter by the thread that finds itself in owning_thread.
EnterOwned(t) == /\ AtCall(t)
                 /\ owning_thread = t
                 /\ recursion_count < MaxRecursion
                 /\ lock_count' = lock_count + 1
                 /\ recursion_count' = recursion_count + 1
                 /\ depth' = [depth EXCEPT ![t] = @ + 1]
                 /\ Go(t, "in")
                 /\ UNCHANGED <<owning_thread, signaled, spins>>

Enter(t) == /\ AtCall(t)
            /\ owning_thread # t
            /\ spins' = [spins EXCEPT ![t] = SpinCount]
            /\ Go(t, "spin")
            /\ UNCHANGED <<lock_count, recursion_count, owning_thread, signaled, depth>>

\* atomic_cas(-1, 0): one round of the spin loop.
Spin(t) == /\ pc[t] = "spin"
           /\ spins[t] > 0
           /\ spins' = [spins EXCEPT ![t] = @ - 1]
           /\ IF lock_count = -1 THEN lock_count' = 0 /\ Go(t, "claimed")
                                 ELSE UNCHANGED <<lock_count, pc>>
           /\ UNCHANGED <<recursion_count, owning_thread, signaled, depth>>

\* Mutant of Register: the spins used up, the count is taken with the CAS's test.
RegisterIfHeld(t) == /\ pc[t] = "spin"
                     /\ spins[t] = 0
                     /\ lock_count' = IF lock_count = -1 THEN 0 ELSE lock_count
                     /\ Go(t, IF lock_count = -1 THEN "claimed" ELSE "wait")
                     /\ UNCHANGED <<recursion_count, owning_thread, signaled, spins, depth>>

\* atomic_inc: the section was free, or the thread is counted as a waiter.
Register(t) == /\ pc[t] = "spin"
               /\ spins[t] = 0
               /\ lock_count' = lock_count + 1
               /\ Go(t, IF lock_count = -1 THEN "claimed" ELSE "wait")
               /\ UNCHANGED <<recursion_count, owning_thread, signaled, spins, depth>>

\* Mutant of WaitEvent: the event is not reset by the wait, as a manual one.
WaitManualEvent(t) == /\ pc[t] = "wait"
                      /\ signaled
                      /\ Go(t, "claimed")
                      /\ UNCHANGED <<lock_count, recursion_count, owning_thread, signaled, spins, depth>>

\* xeKeWaitForSingleObject without timeout: one waiter takes the auto-reset event.
WaitEvent(t) == /\ pc[t] = "wait"
                /\ signaled
                /\ signaled' = FALSE
                /\ Go(t, "claimed")
                /\ UNCHANGED <<lock_count, recursion_count, owning_thread, spins, depth>>

\* The plain stores of the thread that has the section.
TakeOwnership(t) == /\ pc[t] = "claimed"
                    /\ owning_thread' = t
                    /\ recursion_count' = 1
                    /\ depth' = [depth EXCEPT ![t] = @ + 1]
                    /\ Go(t, "in")
                    /\ UNCHANGED <<lock_count, signaled, spins>>

\* RtlTryEnterCriticalSection: the CAS, or FALSE for a section of another thread.
TryEnter(t) == /\ AtCall(t)
               /\ owning_thread # t \/ lock_count = -1
               /\ IF lock_count = -1 THEN lock_count' = 0 /\ Go(t, "claimed")
                                     ELSE UNCHANGED <<lock_count, pc>>
               /\ UNCHANGED <<recursion_count, owning_thread, signaled, spins, depth>>

\* RtlLeaveCriticalSection while entries are left.
LeaveNested(t) == /\ pc[t] = "in"
                  /\ recursion_count > 1
                  /\ recursion_count' = recursion_count - 1
                  /\ lock_count' = lock_count - 1
                  /\ depth' = [depth EXCEPT ![t] = @ - 1]
                  /\ UNCHANGED <<owning_thread, signaled, pc, spins>>

\* The last leave: the owner is erased before the count is touched.
Disown(t) == /\ pc[t] = "in"
             /\ recursion_count = 1
             /\ recursion_count' = 0
             /\ owning_thread' = NoThread
             /\ depth' = [depth EXCEPT ![t] = @ - 1]
             /\ Go(t, "leaving")
             /\ UNCHANGED <<lock_count, signaled, spins>>

\* Mutant of Release: the event is set for a waiter only if more than one is left.
ReleaseOffByOne(t) == /\ pc[t] = "leaving"
                      /\ lock_count' = lock_count - 1
                      /\ Go(t, IF lock_count <= 1 THEN "out" ELSE "signal")
                      /\ UNCHANGED <<recursion_count, owning_thread, signaled, spins, depth>>

\* atomic_dec: the section is free, or belongs to whoever takes the event.
Release(t) == /\ pc[t] = "leaving"
              /\ lock_count' = lock_count - 1
              /\ Go(t, IF lock_count = 0 THEN "out" ELSE "signal")
              /\ UNCHANGED <<recursion_count, owning_thread, signaled, spins, depth>>

SetEvent(t) == /\ pc[t] = "signal"
               /\ signaled' = TRUE
               /\ Go(t, "out")
               /\ UNCHANGED <<lock_count, recursion_count, owning_thread, spins, depth>>

Leave(t)    == LeaveNested(t) \/ Disown(t)
Continue(t) == \/ Spin(t) \/ Register(t) \/ WaitEvent(t) \/ TakeOwnership(t)
               \/ Release(t) \/ SetEvent(t)

Next == \E t \in Threads : EnterOwned(t) \/ Enter(t) \/ TryEnter(t) \/ Leave(t) \/ Continue(t)

\* A thread that is inside a call goes on; a guest thread leaves what it entered.
Fairness == \A t \in Threads : WF_vars(Continue(t)) /\ WF_vars(Leave(t))

Spec     == Init /\ [][Next]_vars
FairSpec == Spec /\ Fairness

-----------------------------------------------------------------------------

\* Threads that have the section, in whatever stage of taking or leaving it.
Holders == {t \in Threads : pc[t] \in {"claimed", "in", "leaving"}}
Waiting == {t \in Threads : pc[t] = "wait"}
Setters == {t \in Threads : pc[t] = "signal"}

\* Ranges; lock_count cannot outgrow the waiters and the nesting.
TypeOK == /\ lock_count \in -1 .. Cardinality(Threads) + MaxRecursion
          /\ recursion_count \in 0 .. MaxRecursion
          /\ owning_thread \in Threads \cup {NoThread}
          /\ signaled \in BOOLEAN
          /\ pc \in [Threads -> Places]
          /\ spins \in [Threads -> 0 .. SpinCount]
          /\ depth \in [Threads -> 0 .. MaxRecursion]

\* One thread at a time has the section, although lock_count counts waiters and
\* nested entries alike and a waiter is let in by an event: the thread that
\* claims it finds it unowned (the assertion at line 628), the one inside is its
\* owner as often as it entered, and nobody else is taken for the owner.
OneOwner == /\ \A t, u \in Holders : t = u
            /\ \A t \in Holders : owning_thread = IF pc[t] = "in" THEN t ELSE NoThread
            /\ \A t \in Threads : depth[t] = IF owning_thread = t THEN recursion_count ELSE 0

\* Whoever waits was counted, and for the waiters there is exactly one claim in
\* circulation: a holder that will see them when it leaves, a thread about to
\* set the event, or the event.  No wake-up is lost and none is set twice.
OneClaim == Waiting # {} => /\ Holders = {} => (Setters # {} \/ signaled)
                            /\ signaled => Setters = {} /\ Holders = {}

\* A section that nobody is inside goes to one of the threads that wait for it.
Handover == (\A t \in Threads : depth[t] = 0) /\ Waiting # {} ~> \E t \in Threads : depth[t] > 0
=============================================================================
