----------------------------- MODULE GlobalMutex -----------------------------
(***************************************************************************)
(* xe::xe_global_mutex of base/mutex.cc, the recursive lock behind         *)
(* xe::global_critical_region: the futex protocol of FastMutex, and on top *)
(* the owner's id and the recursion count, which are written outside of    *)
(* the atomic operations on state_.                                        *)
(*                                                                         *)
(* depth is the caller's side: the number of global_unique_lock objects    *)
(* that a thread holds.  A unique_lock unlocks only what it locked, so     *)
(* unlock() is called with depth above zero; a try_lock() that failed is   *)
(* not unlocked.                                                           *)
(***************************************************************************)
EXTENDS MutexParameters

CONSTANTS
    NoThread,         \* owner_ = 0: no thread has id 0
    MaxRecursion      \* bound on nesting; 2^32 - 1 in the code

ASSUME GlobalMutexAssumption == /\ MaxRecursion \in Nat \ {0}
                                /\ NoThread \notin Threads

VARIABLES
    state_, pc, spins,     \* the futex protocol
    owner_,                \* the thread that owns the lock, or NoThread
    recursion_count_,
    phase,                 \* where a thread stands around the futex protocol
    depth

futexVars == <<state_, pc, spins>>
ownerVars == <<owner_, recursion_count_, depth>>
vars      == <<futexVars, ownerVars, phase>>

Futex == INSTANCE FastMutex WITH state_ <- state_, pc <- pc, spins <- spins

\* The abstract region: what a caller sees of the lock is how often it holds it.
Region == INSTANCE CriticalRegion WITH Threads <- Threads, depth <- depth

\* out: holds nothing.  enter: inside lock() or try_lock(), after the owner
\* check.  in: holds the lock.  disown, leave: inside the last unlock().
Phases == {"out", "enter", "in", "disown", "leave"}

\* A thread that is between two calls; unlock()'s futex_wake is part of the call.
AtCall(t)       == phase[t] \in {"out", "in"} /\ pc[t] # "wake"
GoPhase(t, ph)  == phase' = [phase EXCEPT ![t] = ph]

-----------------------------------------------------------------------------

Init == /\ Futex!Init
        /\ owner_ = NoThread
        /\ recursion_count_ = 0
        /\ phase = [t \in Threads |-> "out"]
        /\ depth = [t \in Threads |-> 0]

\* lock() or try_lock() by the thread that finds its own id in owner_.
LockRecursive(t) ==
    /\ AtCall(t)
    /\ owner_ = t
    /\ recursion_count_ < MaxRecursion
    /\ recursion_count_' = recursion_count_ + 1
    /\ depth' = [depth EXCEPT ![t] = @ + 1]
    /\ GoPhase(t, "in")
    /\ UNCHANGED <<futexVars, owner_>>

\* lock() by any other thread: the first CAS, then lock_slow().
Lock(t) == /\ AtCall(t)
           /\ owner_ # t
           /\ Futex!Lock(t)
           /\ GoPhase(t, "enter")
           /\ UNCHANGED ownerVars

TryLock(t) == /\ AtCall(t)
              /\ owner_ # t
              /\ Futex!TryLock(t)
              /\ GoPhase(t, IF state_ = 0 THEN "enter" ELSE "out")
              /\ UNCHANGED ownerVars

LockSlow(t) == /\ phase[t] = "enter"
               /\ Futex!Spin(t) \/ Futex!MarkContended(t) \/ Futex!FutexWait(t) \/ Futex!Retry(t)
               /\ UNCHANGED <<ownerVars, phase>>

SpuriousWake(t) == Futex!SpuriousWake(t) /\ UNCHANGED <<ownerVars, phase>>

\* Mutant of TakeOwnership: a path of lock() that leaves without storing the id.
TakeAnonymously(t) == /\ phase[t] = "enter"
                      /\ pc[t] = "held"
                      /\ recursion_count_' = 1
                      /\ depth' = [depth EXCEPT ![t] = @ + 1]
                      /\ GoPhase(t, "in")
                      /\ UNCHANGED <<futexVars, owner_>>

\* After the CAS or the exchange that took the word: the plain stores.
TakeOwnership(t) == /\ phase[t] = "enter"
                    /\ pc[t] = "held"
                    /\ owner_' = t
                    /\ recursion_count_' = 1
                    /\ depth' = [depth EXCEPT ![t] = @ + 1]
                    /\ GoPhase(t, "in")
                    /\ UNCHANGED futexVars

\* Mutant of Unlock: every unlock() releases, whatever the count.
UnlockIgnoringCount(t) == /\ AtCall(t)
                          /\ depth[t] > 0
                          /\ recursion_count_' = recursion_count_ - 1
                          /\ depth' = [depth EXCEPT ![t] = @ - 1]
                          /\ GoPhase(t, "disown")
                          /\ UNCHANGED <<futexVars, owner_>>

\* unlock(): the decrement, and the early return while locks are left.
Unlock(t) == /\ AtCall(t)
             /\ depth[t] > 0
             /\ recursion_count_' = recursion_count_ - 1
             /\ depth' = [depth EXCEPT ![t] = @ - 1]
             /\ GoPhase(t, IF recursion_count_ > 1 THEN "in" ELSE "disown")
             /\ UNCHANGED <<futexVars, owner_>>

\* Mutant of ClearOwner: the id stays in owner_ after the release.
KeepOwner(t) == /\ phase[t] = "disown"
                /\ GoPhase(t, "leave")
                /\ UNCHANGED <<futexVars, ownerVars>>

\* Mutant of ClearOwner: the release on a path that forgets the wake-up mark.
SkipRelease(t) == /\ phase[t] = "disown"
                  /\ owner_' = NoThread
                  /\ state_' = 0
                  /\ pc' = [pc EXCEPT ![t] = "idle"]
                  /\ GoPhase(t, "out")
                  /\ UNCHANGED <<spins, recursion_count_, depth>>

\* The id is cleared before the word is released.
ClearOwner(t) == /\ phase[t] = "disown"
                 /\ owner_' = NoThread
                 /\ GoPhase(t, "leave")
                 /\ UNCHANGED <<futexVars, recursion_count_, depth>>

\* exchange(0), and the system call if the word was marked.
Release(t) == /\ phase[t] = "leave"
              /\ Futex!Unlock(t)
              /\ GoPhase(t, "out")
              /\ UNCHANGED ownerVars

FutexWake(t) == Futex!FutexWake(t) /\ UNCHANGED <<ownerVars, phase>>

Continue(t) == \/ LockSlow(t)
               \/ TakeOwnership(t)
               \/ ClearOwner(t)
               \/ Release(t)
               \/ FutexWake(t)

Next == \E t \in Threads : \/ LockRecursive(t)
                           \/ Lock(t)
                           \/ TryLock(t)
                           \/ Continue(t)
                           \/ SpuriousWake(t)
                           \/ Unlock(t)

\* mutex.h: work inside the region is extremely fast, so a thread in it leaves
\* it: it unlocks infinitely often, and does not nest for ever.
Fairness == \A t \in Threads : WF_vars(Continue(t)) /\ WF_vars(Unlock(t))

Spec     == Init /\ [][Next]_vars
FairSpec == Spec /\ Fairness

-----------------------------------------------------------------------------

\* Ranges, and what each phase says of the thread's place in the protocol.
TypeOK == /\ Futex!TypeOK
          /\ owner_ \in Threads \cup {NoThread}
          /\ recursion_count_ \in 0 .. MaxRecursion
          /\ phase \in [Threads -> Phases]
          /\ depth \in [Threads -> 0 .. MaxRecursion]

\* Exclusion and no lost wakeup of the futex protocol, as FastMutex states them,
\* for the lock's use of it: behind the owner check and under nesting.
MutualExclusion == Futex!MutualExclusion
NoLostWakeup    == Futex!NoLostWakeup

\* owner_ and recursion_count_ are plain data next to the lock word, and the
\* owner check reads owner_ without the lock.  Whenever a thread would find
\* itself there it does hold the region, as often as the count says: no thread
\* enters recursively on a stale id, and no unlock() leaves too early or late.
OwnerIsHolder ==
    \A t \in Threads : owner_ = t => \/ phase[t] = "in" /\ recursion_count_ = depth[t]
                                     \/ phase[t] = "disown" /\ depth[t] = 0

\* Conversely a thread inside the region is always recognised as its owner:
\* a nested lock() never waits for the thread itself.
HolderIsOwner == \A t \in Threads : phase[t] = "in" => owner_ = t /\ pc[t] = "held" /\ depth[t] > 0

\* The region as the callers see it is entered and left one thread at a time.
ImplementsRegion == Region!Spec

\* A free region is entered again if anybody is still inside lock().
Handover ==
    (\A t \in Threads : depth[t] = 0) /\ Futex!Waiting # {} ~> \E t \in Threads : depth[t] > 0
=============================================================================
