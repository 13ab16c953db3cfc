---------------------------- MODULE ReadWriteLock ----------------------------
(***************************************************************************)
(* The kernel's reader-writer lock, X_ERWLOCK and the Ex...ReadWriteLock   *)
(* exports of xboxkrnl_threading.cc.  Each export changes the counts in    *)
(* one step, under the lock's spin lock; the waits on the writers' event   *)
(* and on the readers' semaphore, and the grants that set them, come after *)
(* the spin lock is released.                                              *)
(*                                                                         *)
(* The callers: a thread holds the lock at most once and releases what it  *)
(* holds; only the threads in Writers ask for it exclusively.              *)
(***************************************************************************)
EXTENDS Integers, FiniteSets

CONSTANTS
    Threads,
    Writers,
    Wrap          \* the counts are unsigned: 2^32 in the code

ASSUME ReadWriteLockAssumption == /\ IsFiniteSet(Threads)
                                  /\ Writers \subseteq Threads
                                  /\ Wrap \in Nat
                                  /\ Cardinality(Threads) + 1 < Wrap

VARIABLES
    lock_count,              \* -1: free; else the holders and the waiters, less one
    writers_waiting_count,
    readers_waiting_count,
    readers_entry_count,
    writer_event,            \* an auto-reset event
    reader_semaphore,
    pc,
    grants                   \* what a thread inside ExReleaseReadWriteLock has to grant

counts  == <<lock_count, writers_waiting_count, readers_waiting_count, readers_entry_count>>
wakeups == <<writer_event, reader_semaphore>>
vars    == <<counts, wakeups, pc, grants>>

\* out; reading and writing: holds the lock; await_read, await_write: waits for
\* the semaphore or the event; grant_read, grant_write: released, about to wake.
Places == {"out", "reading", "writing", "await_read", "await_write", "grant_read", "grant_write"}

Go(t, place) == pc' = [pc EXCEPT ![t] = place]
Less(n)      == (n - 1 + Wrap) % Wrap

Init == /\ lock_count = -1
        /\ writers_waiting_count = 0
        /\ readers_waiting_count = 0
        /\ readers_entry_count = 0
        /\ writer_event = FALSE
        /\ reader_semaphore = 0
        /\ pc = [t \in Threads |-> "out"]
        /\ grants = [t \in Threads |-> 0]

AcquireExclusive(t) ==
    /\ t \in Writers
    /\ pc[t] = "out"
    /\ lock_count' = lock_count + 1
    /\ IF lock_count = -1
       THEN Go(t, "writing") /\ UNCHANGED writers_waiting_count
       ELSE Go(t, "await_write") /\ writers_waiting_count' = writers_waiting_count + 1
    /\ UNCHANGED <<readers_waiting_count, readers_entry_count, wakeups, grants>>

\* A call that returns FALSE changes nothing.
TryAcquireExclusive(t) ==
    /\ t \in Writers
    /\ pc[t] = "out"
    /\ lock_count < 0
    /\ lock_count' = 0
    /\ Go(t, "writing")
    /\ UNCHANGED <<writers_waiting_count, readers_waiting_count, readers_entry_count, wakeups, grants>>

\* Mutant of MayJoin: readers join readers although a writer waits.
JoinAlways == readers_entry_count # 0

\* Readers are inside and no writer waits: another reader may join them.
MayJoin == readers_entry_count # 0 /\ writers_waiting_count = 0

\* Mutant of AcquireShared: a reader joins whoever is inside while no writer waits.
AcquireSharedUnlessWaiting(t) ==
    /\ pc[t] = "out"
    /\ lock_count' = lock_count + 1
    /\ IF lock_count = -1 \/ writers_waiting_count = 0
       THEN /\ Go(t, "reading")
            /\ readers_entry_count' = (readers_entry_count + 1) % Wrap
            /\ UNCHANGED readers_waiting_count
       ELSE /\ Go(t, "await_read")
            /\ readers_waiting_count' = readers_waiting_count + 1
            /\ UNCHANGED readers_entry_count
    /\ UNCHANGED <<writers_waiting_count, wakeups, grants>>

AcquireShared(t) ==
    /\ pc[t] = "out"
    /\ lock_count' = lock_count + 1
    /\ IF lock_count = -1 \/ MayJoin
       THEN /\ Go(t, "reading")
            /\ readers_entry_count' = (readers_entry_count + 1) % Wrap
            /\ UNCHANGED readers_waiting_count
       ELSE /\ Go(t, "await_read")
            /\ readers_waiting_count' = readers_waiting_count + 1
            /\ UNCHANGED readers_entry_count
    /\ UNCHANGED <<writers_waiting_count, wakeups, grants>>

TryAcquireShared(t) ==
    /\ pc[t] = "out"
    /\ lock_count < 0 \/ MayJoin
    /\ lock_count' = lock_count + 1
    /\ readers_entry_count' = (readers_entry_count + 1) % Wrap
    /\ Go(t, "reading")
    /\ UNCHANGED <<writers_waiting_count, readers_waiting_count, wakeups, grants>>

AwaitWriterEvent(t) == /\ pc[t] = "await_write"
                       /\ writer_event
                       /\ writer_event' = FALSE
                       /\ Go(t, "writing")
                       /\ UNCHANGED <<counts, reader_semaphore, grants>>

AwaitReaderSemaphore(t) == /\ pc[t] = "await_read"
                           /\ reader_semaphore > 0
                           /\ reader_semaphore' = reader_semaphore - 1
                           /\ Go(t, "reading")
                           /\ UNCHANGED <<counts, writer_event, grants>>

\* ExReleaseReadWriteLock, the three ways it takes under the spin lock.
Holds(t) == pc[t] \in {"reading", "writing"}

\* Nobody else holds it or waits.
ReleaseLast(t) == /\ Holds(t)
                  /\ lock_count = 0
                  /\ lock_count' = -1
                  /\ readers_entry_count' = 0
                  /\ Go(t, "out")
                  /\ UNCHANGED <<writers_waiting_count, readers_waiting_count, wakeups, grants>>

\* Mutant of ReleaseToReaders: all readers are counted as entered, one is woken.
ReleaseToOneReader(t) == /\ Holds(t)
                         /\ lock_count > 0
                         /\ readers_entry_count = 0
                         /\ readers_waiting_count > 0
                         /\ lock_count' = lock_count - 1
                         /\ readers_entry_count' = readers_waiting_count
                         /\ readers_waiting_count' = 0
                         /\ grants' = [grants EXCEPT ![t] = 1]
                         /\ Go(t, "grant_read")
                         /\ UNCHANGED <<writers_waiting_count, wakeups>>

\* A writer leaves and readers wait: all of them are let in.
ReleaseToReaders(t) == /\ Holds(t)
                       /\ lock_count > 0
                       /\ readers_entry_count = 0
                       /\ readers_waiting_count > 0
                       /\ lock_count' = lock_count - 1
                       /\ readers_entry_count' = readers_waiting_count
                       /\ readers_waiting_count' = 0
                       /\ grants' = [grants EXCEPT ![t] = readers_waiting_count]
                       /\ Go(t, "grant_read")
                       /\ UNCHANGED <<writers_waiting_count, wakeups>>

\* The last reader lets a writer in.  A writer that leaves another writer behind
\* and no readers comes here as well, with a count of 0.
ReleaseEntry(t) ==
    /\ Holds(t)
    /\ lock_count > 0
    /\ readers_entry_count # 0 \/ readers_waiting_count = 0
    /\ lock_count' = lock_count - 1
    /\ readers_entry_count' = Less(readers_entry_count)
    /\ IF readers_entry_count' # 0
       THEN Go(t, "out") /\ UNCHANGED writers_waiting_count
       ELSE Go(t, "grant_write") /\ writers_waiting_count' = Less(writers_waiting_count)
    /\ UNCHANGED <<readers_waiting_count, wakeups, grants>>

\* xeKeReleaseSemaphore and xeKeSetEvent, after the spin lock is released.
GrantReaders(t) == /\ pc[t] = "grant_read"
                   /\ reader_semaphore' = reader_semaphore + grants[t]
                   /\ grants' = [grants EXCEPT ![t] = 0]
                   /\ Go(t, "out")
                   /\ UNCHANGED <<counts, writer_event>>

GrantWriter(t) == /\ pc[t] = "grant_write"
                  /\ writer_event' = TRUE
                  /\ Go(t, "out")
                  /\ UNCHANGED <<counts, reader_semaphore, grants>>

Acquire(t)  == \/ AcquireExclusive(t) \/ TryAcquireExclusive(t)
               \/ AcquireShared(t) \/ TryAcquireShared(t)
Continue(t) == AwaitWriterEvent(t) \/ AwaitReaderSemaphore(t) \/ GrantReaders(t) \/ GrantWriter(t)
Release(t)  == ReleaseLast(t) \/ ReleaseToReaders(t) \/ ReleaseEntry(t)

Next == \E t \in Threads : Acquire(t) \/ Continue(t) \/ Release(t)

\* A thread inside a call goes on, and a guest thread releases what it holds.
Fairness == \A t \in Threads : WF_vars(Continue(t)) /\ WF_vars(Release(t))

Spec     == Init /\ [][Next]_vars
FairSpec == Spec /\ Fairness

-----------------------------------------------------------------------------

At(place) == {t \in Threads : pc[t] = place}
Waiting   == At("await_read") \cup At("await_write")
Inside    == At("reading") \cup At("writing")

\* A hand-over under way: a thread about to grant, or a grant not taken yet.
Granting == At("grant_read") # {} \/ At("grant_write") # {} \/ writer_event \/ reader_semaphore > 0

\* readers_entry_count went below zero.
WrappedAround == readers_entry_count = Wrap - 1

\* A writer is alone, also while grants are on their way: the lock is passed
\* through an event and a semaphore that are set after the counts have changed.
WriterIsAlone == \A t \in At("writing") : Inside = {t} /\ ~Granting

\* A thread waits only while somebody holds the lock, or a grant is on its way,
\* or readers_entry_count has wrapped around (a writer that leaves to another
\* writer decrements it from 0 and wakes nobody).
WaitersHaveHope == Waiting # {} => Inside # {} \/ Granting \/ WrappedAround

\* Readers that came first cannot be overtaken for ever: a writer that waits while
\* readers hold the lock gets it, or the lock has wrapped around.
WriterAfterReaders ==
    At("reading") # {} /\ At("await_write") # {} ~> At("writing") # {} \/ WrappedAround
=============================================================================
