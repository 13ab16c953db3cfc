------------------------------ MODULE FastMutex ------------------------------
(***************************************************************************)
(* xe::xe_fast_mutex, the futex lock of base/mutex.cc (Linux build):       *)
(* state_ is 0 (unlocked), 1 (locked) or 2 (locked, and a thread may be    *)
(* asleep in the kernel).  One step is one atomic operation on state_ or   *)
(* one futex system call.  A thread is never more than one operation deep, *)
(* so pc says both which operation runs and where it stands.               *)
(*                                                                         *)
(* The lock protocol of xe::xe_global_mutex is this one with an owner on   *)
(* top; module GlobalMutex instantiates the present module for it.         *)
(***************************************************************************)
EXTENDS MutexParameters

VARIABLES
    state_,       \* the futex word
    pc,           \* where each thread stands in lock() or unlock()
    spins         \* iterations left to each thread in the spin loop

vars == <<state_, pc, spins>>

InLockSlow == {"spin", "mark", "wait", "asleep", "retry"}
Labels     == {"idle", "held", "wake"} \cup InLockSlow

At(label) == {t \in Threads : pc[t] = label}
Goto(t, label) == pc' = [pc EXCEPT ![t] = label]

\* Threads inside lock(), and the threads asleep in the kernel.
Waiting == {t \in Threads : pc[t] \in InLockSlow}
Asleep  == At("asleep")

-----------------------------------------------------------------------------

Init == /\ state_ = 0
        /\ pc = [t \in Threads |-> "idle"]
        /\ spins = [t \in Threads |-> 0]

\* compare_exchange_strong(0, desired): go to `yes' holding the lock, or to `no'.
CompareExchange(t, desired, yes, no) ==
    \/ state_ = 0 /\ state_' = desired /\ Goto(t, yes)
    \/ state_ # 0 /\ state_' = state_ /\ Goto(t, no)

\* The uncontended path of lock(); lock_slow() starts with a full spin budget.
Lock(t) == /\ pc[t] = "idle"
           /\ CompareExchange(t, 1, "held", "spin")
           /\ spins' = [spins EXCEPT ![t] = SpinCount]

TryLock(t) == /\ pc[t] = "idle"
              /\ CompareExchange(t, 1, "held", "idle")
              /\ UNCHANGED spins

\* One iteration of the spin phase; the last failed one leaves the loop.
Spin(t) == /\ pc[t] = "spin"
           /\ CompareExchange(t, 1, "held", IF spins[t] = 1 THEN "mark" ELSE "spin")
           /\ spins' = [spins EXCEPT ![t] = @ - 1]

\* Mutant of MarkContended: any word but 2 is taken for a free lock.
MarkContendedTakesOne(t) == /\ pc[t] = "mark"
                            /\ state_' = 2
                            /\ Goto(t, IF state_ # 2 THEN "held" ELSE "wait")
                            /\ UNCHANGED spins

\* exchange(2): the caller owns the lock if the word was 0.
MarkContended(t) == /\ pc[t] = "mark"
                    /\ state_' = 2
                    /\ Goto(t, IF state_ = 0 THEN "held" ELSE "wait")
                    /\ UNCHANGED spins

\* futex_wait(&state_, 2): the kernel compares the word and sleeps atomically.
FutexWait(t) == /\ pc[t] = "wait"
                /\ Goto(t, IF state_ = 2 THEN "asleep" ELSE "retry")
                /\ UNCHANGED <<state_, spins>>

\* FUTEX_WAIT may return without a wake: the suspend signal of
\* threading_posix.cc interrupts it, and its result is not looked at.
SpuriousWake(t) == /\ pc[t] = "asleep"
                   /\ Goto(t, "retry")
                   /\ UNCHANGED <<state_, spins>>

\* Mutant of Retry: a woken thread takes the lock as the fast path does.
RetryUnmarked(t) == /\ pc[t] = "retry"
                    /\ CompareExchange(t, 1, "held", "mark")
                    /\ UNCHANGED spins

\* After futex_wait: compare_exchange_strong(0, 2), keeping the contended mark.
Retry(t) == /\ pc[t] = "retry"
            /\ CompareExchange(t, 2, "held", "mark")
            /\ UNCHANGED spins

\* unlock() without its system call: exchange(0).
Unlock(t) == /\ pc[t] = "held"
             /\ state_' = 0
             /\ Goto(t, IF state_ = 2 THEN "wake" ELSE "idle")
             /\ UNCHANGED spins

\* futex_wake(&state_, 1): at most one sleeper, of the kernel's choice.
FutexWake(t) == /\ pc[t] = "wake"
                /\ \/ Asleep = {} /\ Goto(t, "idle")
                   \/ \E u \in Asleep : pc' = [pc EXCEPT ![t] = "idle", ![u] = "retry"]
                /\ UNCHANGED <<state_, spins>>

\* The steps a thread takes on its own once it has called lock() or unlock().
Continue(t) == \/ Spin(t)
               \/ MarkContended(t)
               \/ FutexWait(t)
               \/ Retry(t)
               \/ FutexWake(t)

Next == \E t \in Threads : \/ Lock(t)
                           \/ TryLock(t)
                           \/ Continue(t)
                           \/ SpuriousWake(t)
                           \/ Unlock(t)

\* Running threads are scheduled, and a holder reaches its unlock(); nobody
\* is obliged to call lock() again, and no sleeper wakes up by itself.
Fairness == \A t \in Threads : WF_vars(Continue(t)) /\ WF_vars(Unlock(t))

Spec     == Init /\ [][Next]_vars
FairSpec == Spec /\ Fairness

-----------------------------------------------------------------------------

\* The futex word and every thread's position stay in their ranges.
TypeOK == /\ state_ \in 0 .. 2
          /\ pc \in [Threads -> Labels]
          /\ spins \in [Threads -> 0 .. SpinCount]

\* xe_mutex guards the tables it is declared beside: two threads are never
\* between lock() and unlock() at once, whichever of the four CAS sites they
\* came through.
MutualExclusion == \A t, u \in At("held") : t = u

\* The sleep/wake protocol loses no wakeup: while a thread sleeps in
\* futex_wait, either the word still tells the next unlock() to wake someone,
\* or a thread is already on its way to wake a sleeper or to restore the mark.
NoLostWakeup == Asleep # {} => \/ state_ = 2
                               \/ At("wake") \cup At("retry") \cup At("mark") # {}

\* unlock() must not make every later unlock() pay for a system call: an
\* unlocked word is 0, and a thread that holds the lock is the only reason
\* for any other value.
HeldIffMarked == state_ = 0 <=> At("held") = {}

\* A released lock is taken again if anybody is still inside lock(), asleep or
\* not: threads are never stranded in futex_wait on a free mutex.
Handover == (At("held") = {} /\ Waiting # {}) ~> (At("held") # {})
=============================================================================
