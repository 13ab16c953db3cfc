-------------------------- MODULE ReadWriteLockProofs --------------------------
(***************************************************************************)
(* Safety of the kernel's reader-writer lock for every finite set of       *)
(* threads and every width of the counts that is not reached by counting   *)
(* the threads.                                                            *)
(*                                                                         *)
(* The counts under the spin lock run ahead of the event and of the        *)
(* semaphore, so the invariant has one clause for each meaning the counts  *)
(* can have: the lock is free, it is one writer's, it is the readers', or  *)
(* it is stuck because readers_entry_count has wrapped around.  In each,   *)
(* the counts add up to the threads that hold the lock or wait for it, and *)
(* what the counts have given away and nobody has taken yet is on its way  *)
(* as exactly one grant.                                                   *)
(***************************************************************************)
EXTENDS ReadWriteLock, FiniteSetTheorems, TLAPS

\* The number of threads at the places K.
Count(K) == Cardinality({t \in Threads : pc[t] \in K})

\* The readers that are inside; the readers, and the writers, that are inside or wait.
NowReading == Count({"reading"})
AllReaders == Count({"reading", "await_read"})
AllWriters == Count({"writing", "await_write"})

TypeOK == /\ lock_count \in Int
          /\ writers_waiting_count \in Nat
          /\ readers_waiting_count \in Nat
          /\ readers_entry_count \in Nat
          /\ writer_event \in BOOLEAN
          /\ reader_semaphore \in Nat
          /\ pc \in [Threads -> Places]
          /\ grants \in [Threads -> Nat]

NoReaderGrant == (\A t \in Threads : pc[t] # "grant_read") /\ reader_semaphore = 0
NoWriterGrant == (\A t \in Threads : pc[t] # "grant_write") /\ ~writer_event
NoReader      == \A t \in Threads : pc[t] # "reading"
NoWriter      == \A t \in Threads : pc[t] # "writing"

FreeLock == /\ lock_count = -1
            /\ readers_entry_count = 0 /\ readers_waiting_count = 0 /\ writers_waiting_count = 0
            /\ NoReaderGrant /\ NoWriterGrant

\* One writer is inside, about to be granted the lock, or has the event set for it.
WritersLock ==
    /\ lock_count >= 0
    /\ readers_entry_count = 0
    /\ AllReaders = readers_waiting_count
    /\ AllWriters = writers_waiting_count + 1
    /\ NoReader /\ NoReaderGrant
    /\ \A t, u \in Threads :
          pc[t] \in {"writing", "grant_write"} /\ pc[u] \in {"writing", "grant_write"} => t = u
    /\ writer_event <=> \A t \in Threads : pc[t] \notin {"writing", "grant_write"}

\* readers_entry_count counts the readers that are inside and those that one thread
\* is about to grant the lock, or has granted it through the semaphore.
ReadersLock ==
    /\ lock_count >= 0
    /\ readers_entry_count > 0
    /\ AllReaders = readers_waiting_count + readers_entry_count
    /\ AllWriters = writers_waiting_count
    /\ NoWriter /\ NoWriterGrant
    /\ \A t, u \in Threads : pc[t] = "grant_read" /\ pc[u] = "grant_read" => t = u
    /\ \A t \in Threads : pc[t] = "grant_read" =>
          reader_semaphore = 0 /\ grants[t] > 0 /\ readers_entry_count = NowReading + grants[t]
    /\ (\A t \in Threads : pc[t] # "grant_read") =>
          readers_entry_count = NowReading + reader_semaphore
    /\ readers_waiting_count > 0 => writers_waiting_count > 0

\* A writer has left to another writer with no reader waiting: nobody is inside, and
\* nobody will be.
StuckLock ==
    /\ lock_count >= 0
    /\ WrappedAround
    /\ AllReaders = readers_waiting_count
    /\ AllWriters = writers_waiting_count
    /\ writers_waiting_count > 0
    /\ NoReader /\ NoWriter /\ NoReaderGrant /\ NoWriterGrant

LockInv == /\ TypeOK
           /\ lock_count + 1 = AllReaders + AllWriters
           /\ FreeLock \/ WritersLock \/ ReadersLock \/ StuckLock

-----------------------------------------------------------------------------

\* Unsigned arithmetic away from the boundary, and one step below zero.
LEMMA Modulo ==
    /\ \A n \in Nat : n < Wrap => n % Wrap = n
    /\ \A n \in Nat : n > 0 /\ n < Wrap => Less(n) = n - 1
    /\ Less(0) = Wrap - 1
<1>1. ASSUME NEW n \in Nat, n < Wrap
      PROVE  n % Wrap = n /\ (n + Wrap) % Wrap = n
  BY <1>1, ReadWriteLockAssumption
<1>2. ASSUME NEW n \in Nat, n > 0, n < Wrap
      PROVE  Less(n) = n - 1
  <2>1. n - 1 \in Nat /\ n - 1 < Wrap
    BY <1>2, ReadWriteLockAssumption
  <2>2. QED
    BY <1>1, <2>1, <1>2 DEF Less
<1>3. Less(0) = Wrap - 1
  <2>1. Wrap - 1 \in Nat /\ Wrap - 1 < Wrap /\ 0 - 1 + Wrap = Wrap - 1
    BY ReadWriteLockAssumption, FS_CardinalityType
  <2>2. QED
    BY <1>1, <2>1 DEF Less
<1>4. QED
  BY <1>1, <1>2, <1>3

\* A count is at most the number of threads, and 0 exactly when no thread is there.
LEMMA CountRange ==
    ASSUME NEW K
    PROVE  /\ Count(K) \in Nat
           /\ Count(K) <= Cardinality(Threads)
           /\ Count(K) = 0 <=> \A t \in Threads : pc[t] \notin K
<1> DEFINE S == {t \in Threads : pc[t] \in K}
<1>1. IsFiniteSet(S) /\ Cardinality(S) <= Cardinality(Threads)
  BY FS_Subset, ReadWriteLockAssumption
<1>2. Cardinality(S) \in Nat /\ (Cardinality(S) = 0 <=> S = {})
  BY <1>1, FS_CardinalityType, FS_EmptySet
<1>3. QED
  BY <1>1, <1>2 DEF Count

\* A count of 1 is one thread.
LEMMA CountOne ==
    ASSUME NEW K, Count(K) = 1, NEW t \in Threads, pc[t] \in K
    PROVE  \A u \in Threads : pc[u] \in K => u = t
<1> DEFINE S == {u \in Threads : pc[u] \in K}
<1>1. IsFiniteSet(S) /\ Cardinality(S) = 1
  BY FS_Subset, ReadWriteLockAssumption DEF Count
<1>2. \E x : S = {x}
  BY <1>1, FS_Singleton
<1>3. QED
  BY <1>2

\* How the move of one thread changes a count.
LEMMA Move ==
    ASSUME pc \in [Threads -> Places], NEW t \in Threads, NEW place, Go(t, place), NEW K
    PROVE  Count(K)' = Count(K) + (IF place \in K THEN 1 ELSE 0) - (IF pc[t] \in K THEN 1 ELSE 0)
<1> DEFINE S == {u \in Threads : pc[u] \in K}
           T == {u \in Threads : pc'[u] \in K}
<1>1. IsFiniteSet(S) /\ IsFiniteSet(T)
  BY FS_Subset, ReadWriteLockAssumption
<1>2. Cardinality(S) \in Nat /\ Cardinality(T) \in Nat
  BY <1>1, FS_CardinalityType
<1>3. T = IF place \in K THEN S \cup {t} ELSE S \ {t}
  BY DEF Go
<1>4. Count(K) = Cardinality(S) /\ Count(K)' = Cardinality(T)
  BY DEF Count
<1>5. t \in S <=> pc[t] \in K
  OBVIOUS
<1> HIDE DEF S, T
<1>6. CASE place \in K
  <2>1. Cardinality(T) = IF t \in S THEN Cardinality(S) ELSE Cardinality(S) + 1
    BY <1>1, <1>3, <1>6, FS_AddElement
  <2>2. QED
    BY <1>2, <1>4, <1>5, <1>6, <2>1
<1>7. CASE place \notin K
  <2>1. Cardinality(T) = IF t \in S THEN Cardinality(S) - 1 ELSE Cardinality(S)
    BY <1>1, <1>3, <1>7, FS_RemoveElement
  <2>2. QED
    BY <1>2, <1>4, <1>5, <1>7, <2>1
<1>8. QED
  BY <1>6, <1>7

\* What the counts of threads can be.
LEMMA Ranges ==
    /\ NowReading \in Nat /\ AllReaders \in Nat /\ AllWriters \in Nat
    /\ AllReaders + 1 < Wrap /\ AllWriters + 1 < Wrap
    /\ NowReading = 0 <=> NoReader
    /\ AllReaders = 0 <=> \A t \in Threads : pc[t] \notin {"reading", "await_read"}
    /\ AllWriters = 0 <=> \A t \in Threads : pc[t] \notin {"writing", "await_write"}
<1>1. Cardinality(Threads) \in Nat /\ Cardinality(Threads) + 1 < Wrap /\ Wrap \in Nat
  BY ReadWriteLockAssumption, FS_CardinalityType
<1>2. /\ AllReaders \in Nat /\ AllReaders <= Cardinality(Threads)
      /\ AllWriters \in Nat /\ AllWriters <= Cardinality(Threads)
  BY CountRange DEF AllReaders, AllWriters
<1>3. NowReading = 0 <=> \A t \in Threads : pc[t] \notin {"reading"}
  BY CountRange DEF NowReading
<1>4. QED
  BY <1>1, <1>2, <1>3, CountRange DEF NowReading, AllReaders, AllWriters, NoReader

\* How a move changes the counts of threads.
LEMMA Moves ==
    ASSUME TypeOK, NEW t \in Threads, NEW place, Go(t, place)
    PROVE  /\ NowReading' = NowReading + (IF place = "reading" THEN 1 ELSE 0)
                                       - (IF pc[t] = "reading" THEN 1 ELSE 0)
           /\ AllReaders' = AllReaders + (IF place \in {"reading", "await_read"} THEN 1 ELSE 0)
                                       - (IF pc[t] \in {"reading", "await_read"} THEN 1 ELSE 0)
           /\ AllWriters' = AllWriters + (IF place \in {"writing", "await_write"} THEN 1 ELSE 0)
                                       - (IF pc[t] \in {"writing", "await_write"} THEN 1 ELSE 0)
<1>1. Count({"reading"})' = Count({"reading"}) + (IF place \in {"reading"} THEN 1 ELSE 0)
                                               - (IF pc[t] \in {"reading"} THEN 1 ELSE 0)
  BY Move DEF TypeOK
<1>2. QED
  BY <1>1, Move DEF TypeOK, NowReading, AllReaders, AllWriters

\* An exclusive acquisition takes a free lock or joins those who wait.
LEMMA AcquireExclusiveStep ==
    ASSUME LockInv, NEW t \in Threads, AcquireExclusive(t)
    PROVE  LockInv'
<1> USE ReadWriteLockAssumption, Ranges
    DEF LockInv, TypeOK, counts, wakeups, NoReaderGrant, NoWriterGrant, NoReader, NoWriter
<1>1. CASE lock_count = -1
  <2>1. Go(t, "writing")
    BY <1>1 DEF AcquireExclusive
  <2>2. /\ NowReading' = NowReading /\ AllReaders' = AllReaders
        /\ AllWriters' = AllWriters + 1
    BY <2>1, Moves DEF AcquireExclusive
  <2>3. FreeLock
    BY <1>1 DEF WritersLock, ReadersLock, StuckLock
  <2>4. WritersLock'
    BY <1>1, <2>1, <2>2, <2>3 DEF AcquireExclusive, FreeLock, WritersLock, Go
  <2>5. QED
    BY <1>1, <2>1, <2>2, <2>4 DEF AcquireExclusive, Go, Places
<1>2. CASE lock_count # -1
  <2>1. Go(t, "await_write")
    BY <1>2 DEF AcquireExclusive
  <2>2. /\ NowReading' = NowReading /\ AllReaders' = AllReaders
        /\ AllWriters' = AllWriters + 1
    BY <2>1, Moves DEF AcquireExclusive
  <2>3. CASE WritersLock
    BY <1>2, <2>1, <2>2, <2>3 DEF AcquireExclusive, WritersLock, Go, Places
  <2>4. CASE ReadersLock
    BY <1>2, <2>1, <2>2, <2>4 DEF AcquireExclusive, ReadersLock, Go, Places
  <2>5. CASE StuckLock
    BY <1>2, <2>1, <2>2, <2>5 DEF AcquireExclusive, StuckLock, WrappedAround, Go, Places
  <2>6. QED
    BY <1>2, <2>3, <2>4, <2>5 DEF FreeLock
<1>3. QED
  BY <1>1, <1>2

LEMMA TryAcquireExclusiveStep ==
    ASSUME LockInv, NEW t \in Threads, TryAcquireExclusive(t)
    PROVE  LockInv'
<1> USE ReadWriteLockAssumption, Ranges
    DEF LockInv, TypeOK, counts, wakeups, NoReaderGrant, NoWriterGrant, NoReader, NoWriter
<1>1. Go(t, "writing")
  BY DEF TryAcquireExclusive
<1>2. /\ NowReading' = NowReading /\ AllReaders' = AllReaders
      /\ AllWriters' = AllWriters + 1
  BY <1>1, Moves DEF TryAcquireExclusive
<1>3. FreeLock
  BY DEF TryAcquireExclusive, WritersLock, ReadersLock, StuckLock
<1>4. WritersLock'
  BY <1>1, <1>2, <1>3 DEF TryAcquireExclusive, FreeLock, WritersLock, Go
<1>5. QED
  BY <1>1, <1>2, <1>3, <1>4 DEF TryAcquireExclusive, FreeLock, Go, Places

\* A reader that gets the lock at once: it is free, or readers are inside and no
\* writer waits.
LEMMA JoinStep ==
    ASSUME LockInv, NEW t \in Threads,
           pc[t] = "out", lock_count = -1 \/ MayJoin,
           lock_count' = lock_count + 1,
           readers_entry_count' = (readers_entry_count + 1) % Wrap,
           Go(t, "reading"),
           UNCHANGED <<readers_waiting_count, writers_waiting_count, wakeups, grants>>
    PROVE  LockInv'
<1> USE ReadWriteLockAssumption, Ranges
    DEF LockInv, TypeOK, counts, wakeups, NoReaderGrant, NoWriterGrant, NoReader, NoWriter
<1>1. /\ NowReading' = NowReading + 1 /\ AllReaders' = AllReaders + 1
      /\ AllWriters' = AllWriters
  BY Moves
<1>2. CASE lock_count = -1
  <2>1. FreeLock
    BY <1>2 DEF WritersLock, ReadersLock, StuckLock
  <2>2. readers_entry_count' = 1
    BY <2>1, Modulo DEF FreeLock
  <2>3. ReadersLock'
    BY <1>1, <1>2, <2>1, <2>2 DEF FreeLock, ReadersLock, Go
  <2>4. QED
    BY <1>1, <1>2, <2>1, <2>2, <2>3 DEF FreeLock, Go, Places
<1>3. CASE MayJoin /\ lock_count # -1
  <2>1. ReadersLock
    BY <1>3 DEF MayJoin, FreeLock, WritersLock, StuckLock
  <2>2. readers_entry_count' = readers_entry_count + 1
    BY <2>1, Modulo DEF ReadersLock
  <2>3. ReadersLock'
    BY <1>1, <1>3, <2>1, <2>2 DEF ReadersLock, Go
  <2>4. QED
    BY <1>1, <1>3, <2>1, <2>2, <2>3 DEF ReadersLock, Go, Places
<1>4. QED
  BY <1>2, <1>3

LEMMA AcquireSharedStep ==
    ASSUME LockInv, NEW t \in Threads, AcquireShared(t)
    PROVE  LockInv'
<1>1. CASE lock_count = -1 \/ MayJoin
  BY <1>1, JoinStep DEF AcquireShared
<1>2. CASE ~(lock_count = -1 \/ MayJoin)
  <2> USE ReadWriteLockAssumption, Ranges
      DEF LockInv, TypeOK, counts, wakeups, NoReaderGrant, NoWriterGrant, NoReader, NoWriter
  <2>1. Go(t, "await_read")
    BY <1>2 DEF AcquireShared
  <2>2. /\ NowReading' = NowReading /\ AllReaders' = AllReaders + 1
        /\ AllWriters' = AllWriters
    BY <2>1, Moves DEF AcquireShared
  <2>3. CASE WritersLock
    BY <1>2, <2>1, <2>2, <2>3 DEF AcquireShared, WritersLock, Go, Places
  <2>4. CASE ReadersLock
    BY <1>2, <2>1, <2>2, <2>4 DEF AcquireShared, MayJoin, ReadersLock, Go, Places
  <2>5. CASE StuckLock
    BY <1>2, <2>1, <2>2, <2>5 DEF AcquireShared, StuckLock, WrappedAround, Go, Places
  <2>6. QED
    BY <1>2, <2>3, <2>4, <2>5 DEF FreeLock
<1>3. QED
  BY <1>1, <1>2

LEMMA TryAcquireSharedStep ==
    ASSUME LockInv, NEW t \in Threads, TryAcquireShared(t)
    PROVE  LockInv'
<1>1. lock_count = -1 \/ MayJoin
  BY DEF TryAcquireShared, LockInv, FreeLock, WritersLock, ReadersLock, StuckLock, TypeOK
<1>2. QED
  BY <1>1, JoinStep DEF TryAcquireShared

\* The event lets in the writer that the lock is held for.
LEMMA AwaitWriterEventStep ==
    ASSUME LockInv, NEW t \in Threads, AwaitWriterEvent(t)
    PROVE  LockInv'
<1> USE ReadWriteLockAssumption, Ranges
    DEF LockInv, TypeOK, counts, wakeups, NoReaderGrant, NoWriterGrant, NoReader, NoWriter,
        AwaitWriterEvent
<1>1. /\ NowReading' = NowReading /\ AllReaders' = AllReaders
      /\ AllWriters' = AllWriters
  BY Moves
<1>2. WritersLock
  BY DEF FreeLock, ReadersLock, StuckLock
<1>3. WritersLock'
  BY <1>1, <1>2 DEF WritersLock, Go
<1>4. QED
  BY <1>1, <1>3 DEF Go, Places

\* The semaphore lets in one of the readers that are counted as entered.
LEMMA AwaitReaderSemaphoreStep ==
    ASSUME LockInv, NEW t \in Threads, AwaitReaderSemaphore(t)
    PROVE  LockInv'
<1> USE ReadWriteLockAssumption, Ranges
    DEF LockInv, TypeOK, counts, wakeups, NoReaderGrant, NoWriterGrant, NoReader, NoWriter,
        AwaitReaderSemaphore
<1>1. /\ NowReading' = NowReading + 1 /\ AllReaders' = AllReaders
      /\ AllWriters' = AllWriters
  BY Moves
<1>2. ReadersLock
  BY DEF FreeLock, WritersLock, StuckLock
<1>3. ReadersLock'
  BY <1>1, <1>2 DEF ReadersLock, Go
<1>4. QED
  BY <1>1, <1>3 DEF Go, Places

LEMMA GrantReadersStep ==
    ASSUME LockInv, NEW t \in Threads, GrantReaders(t)
    PROVE  LockInv'
<1> USE ReadWriteLockAssumption, Ranges
    DEF LockInv, TypeOK, counts, wakeups, NoReaderGrant, NoWriterGrant, NoReader, NoWriter,
        GrantReaders
<1>1. /\ NowReading' = NowReading /\ AllReaders' = AllReaders
      /\ AllWriters' = AllWriters
  BY Moves
<1>2. ReadersLock
  BY DEF FreeLock, WritersLock, StuckLock
<1>3. ReadersLock'
  BY <1>1, <1>2 DEF ReadersLock, Go
<1>4. QED
  BY <1>1, <1>3 DEF Go, Places

LEMMA GrantWriterStep ==
    ASSUME LockInv, NEW t \in Threads, GrantWriter(t)
    PROVE  LockInv'
<1> USE ReadWriteLockAssumption, Ranges
    DEF LockInv, TypeOK, counts, wakeups, NoReaderGrant, NoWriterGrant, NoReader, NoWriter,
        GrantWriter
<1>1. /\ NowReading' = NowReading /\ AllReaders' = AllReaders
      /\ AllWriters' = AllWriters
  BY Moves
<1>2. WritersLock
  BY DEF FreeLock, ReadersLock, StuckLock
<1>3. WritersLock'
  BY <1>1, <1>2 DEF WritersLock, Go
<1>4. QED
  BY <1>1, <1>3 DEF Go, Places

\* The one who holds the lock is the only one that is counted.
LEMMA ReleaseLastStep ==
    ASSUME LockInv, NEW t \in Threads, ReleaseLast(t)
    PROVE  LockInv'
<1> USE ReadWriteLockAssumption, Ranges
    DEF LockInv, TypeOK, counts, wakeups, NoReaderGrant, NoWriterGrant, NoReader, NoWriter,
        ReleaseLast, Holds
<1>1. CASE WritersLock
  <2>1. pc[t] = "writing"
    BY <1>1 DEF WritersLock
  <2>2. /\ NowReading' = NowReading /\ AllReaders' = AllReaders
        /\ AllWriters' = AllWriters - 1
    BY <2>1, Moves
  <2>3. FreeLock'
    BY <1>1, <2>1, <2>2 DEF WritersLock, FreeLock, Go
  <2>4. QED
    BY <1>1, <2>1, <2>2, <2>3 DEF WritersLock, Go, Places
<1>2. CASE ReadersLock
  <2>1. pc[t] = "reading"
    BY <1>2 DEF ReadersLock
  <2>2. /\ NowReading' = NowReading - 1 /\ AllReaders' = AllReaders - 1
        /\ AllWriters' = AllWriters
    BY <2>1, Moves
  <2>3. readers_entry_count = 1 /\ NowReading = 1
    BY <1>2, <2>1 DEF ReadersLock
  <2>4. FreeLock'
    BY <1>2, <2>1, <2>2, <2>3 DEF ReadersLock, FreeLock, Go
  <2>5. QED
    BY <1>2, <2>1, <2>2, <2>4 DEF ReadersLock, Go, Places
<1>3. QED
  BY <1>1, <1>2 DEF FreeLock, StuckLock

\* A writer lets all the readers in: what they are counted by moves from
\* readers_waiting_count to readers_entry_count.
LEMMA ReleaseToReadersStep ==
    ASSUME LockInv, NEW t \in Threads, ReleaseToReaders(t)
    PROVE  LockInv'
<1> USE ReadWriteLockAssumption, Ranges
    DEF LockInv, TypeOK, counts, wakeups, NoReaderGrant, NoWriterGrant, NoReader, NoWriter,
        ReleaseToReaders, Holds
<1>1. WritersLock
  BY DEF FreeLock, ReadersLock, StuckLock
<1>2. pc[t] = "writing"
  BY <1>1 DEF WritersLock
<1>3. /\ NowReading' = NowReading /\ AllReaders' = AllReaders
      /\ AllWriters' = AllWriters - 1
  BY <1>2, Moves
<1>4. NowReading = 0
  BY <1>1 DEF WritersLock
<1>5. ReadersLock'
  BY <1>1, <1>2, <1>3, <1>4 DEF WritersLock, ReadersLock, Go
<1>6. QED
  BY <1>1, <1>2, <1>3, <1>5 DEF WritersLock, Go, Places

\* The last reader hands over to a writer; a writer that leaves to another writer
\* leaves the lock stuck.
LEMMA ReleaseEntryStep ==
    ASSUME LockInv, NEW t \in Threads, ReleaseEntry(t)
    PROVE  LockInv'
<1> USE ReadWriteLockAssumption, Ranges
    DEF LockInv, TypeOK, counts, wakeups, NoReaderGrant, NoWriterGrant, NoReader, NoWriter,
        Holds
<1>1. CASE WritersLock
  <2>1. pc[t] = "writing" /\ readers_waiting_count = 0
    BY <1>1 DEF ReleaseEntry, WritersLock
  <2>2. readers_entry_count' = Wrap - 1 /\ Wrap - 1 # 0
    BY <1>1, Modulo DEF ReleaseEntry, WritersLock
  <2>3. Go(t, "out") /\ UNCHANGED writers_waiting_count
    BY <2>2 DEF ReleaseEntry
  <2>4. /\ NowReading' = NowReading /\ AllReaders' = AllReaders
        /\ AllWriters' = AllWriters - 1
    BY <2>1, <2>3, Moves
  <2>5. StuckLock'
    BY <1>1, <2>1, <2>2, <2>3, <2>4 DEF ReleaseEntry, WritersLock, StuckLock, WrappedAround, Go
  <2>6. QED
    BY <1>1, <2>1, <2>2, <2>3, <2>4, <2>5 DEF ReleaseEntry, WritersLock, Go, Places
<1>2. CASE ReadersLock /\ readers_entry_count # 1
  <2>1. pc[t] = "reading"
    BY <1>2 DEF ReleaseEntry, ReadersLock
  <2>2. readers_entry_count < Wrap /\ readers_entry_count' = readers_entry_count - 1
    BY <1>2, Modulo DEF ReleaseEntry, ReadersLock
  <2>3. Go(t, "out") /\ UNCHANGED writers_waiting_count
    BY <1>2, <2>2 DEF ReleaseEntry, ReadersLock
  <2>4. /\ NowReading' = NowReading - 1 /\ AllReaders' = AllReaders - 1
        /\ AllWriters' = AllWriters
    BY <2>1, <2>3, Moves
  <2>5. ReadersLock'
    BY <1>2, <2>1, <2>2, <2>3, <2>4 DEF ReleaseEntry, ReadersLock, Go
  <2>6. QED
    BY <1>2, <2>1, <2>2, <2>3, <2>4, <2>5 DEF ReleaseEntry, ReadersLock, Go, Places
<1>3. CASE ReadersLock /\ readers_entry_count = 1
  <2>1. pc[t] = "reading" /\ NowReading = 1
    BY <1>3 DEF ReleaseEntry, ReadersLock
  <2>2. readers_entry_count' = 0
    BY <1>3, Modulo DEF ReleaseEntry
  <2>3. writers_waiting_count > 0 /\ writers_waiting_count < Wrap
    BY <1>3, <2>1 DEF ReleaseEntry, ReadersLock
  <2>4. Go(t, "grant_write") /\ writers_waiting_count' = writers_waiting_count - 1
    BY <2>2, <2>3, Modulo DEF ReleaseEntry
  <2>5. /\ NowReading' = NowReading - 1 /\ AllReaders' = AllReaders - 1
        /\ AllWriters' = AllWriters
    BY <2>1, <2>4, Moves
  <2>6. \A u \in Threads : pc[u] = "reading" => u = t
    BY <2>1, CountOne DEF NowReading
  <2>7. WritersLock'
    BY <1>3, <2>1, <2>2, <2>3, <2>4, <2>5, <2>6 DEF ReleaseEntry, ReadersLock, WritersLock, Go
  <2>8. QED
    BY <1>3, <2>1, <2>2, <2>3, <2>4, <2>5, <2>7 DEF ReleaseEntry, ReadersLock, Go, Places
<1>4. QED
  BY <1>1, <1>2, <1>3 DEF FreeLock, StuckLock, ReleaseEntry

\* One step of any thread keeps LockInv.
LEMMA LockStep ==
    ASSUME LockInv, [Next]_vars
    PROVE  LockInv'
<1>1. ASSUME NEW t \in Threads, Acquire(t)
      PROVE  LockInv'
  BY <1>1, AcquireExclusiveStep, TryAcquireExclusiveStep, AcquireSharedStep, TryAcquireSharedStep
     DEF Acquire
<1>2. ASSUME NEW t \in Threads, Continue(t)
      PROVE  LockInv'
  BY <1>2, AwaitWriterEventStep, AwaitReaderSemaphoreStep, GrantReadersStep, GrantWriterStep
     DEF Continue
<1>3. ASSUME NEW t \in Threads, Release(t)
      PROVE  LockInv'
  BY <1>3, ReleaseLastStep, ReleaseToReadersStep, ReleaseEntryStep DEF Release
<1>4. CASE UNCHANGED vars
  BY <1>4
     DEF vars, counts, wakeups, LockInv, TypeOK, FreeLock, WritersLock, ReadersLock, StuckLock,
         WrappedAround, NoReaderGrant, NoWriterGrant, NoReader, NoWriter, NowReading, AllReaders,
         AllWriters, Count
<1>5. QED
  BY <1>1, <1>2, <1>3, <1>4 DEF Next

\* LockInv holds in every reachable state of the lock.
THEOREM LockInvariance == Spec => []LockInv
<1>1. Init => LockInv
  <2> SUFFICES ASSUME Init PROVE LockInv
    OBVIOUS
  <2>1. AllReaders = 0 /\ AllWriters = 0
    BY Ranges DEF Init
  <2>2. FreeLock
    BY DEF Init, FreeLock, NoReaderGrant, NoWriterGrant
  <2>3. writer_event \in BOOLEAN
    BY DEF Init
  <2>4. TypeOK
    BY <2>3 DEF Init, TypeOK, Places
  <2>5. QED
    BY <2>1, <2>2, <2>4 DEF Init, LockInv
<1>2. QED
  BY <1>1, LockStep, PTL DEF Spec

\* A writer is alone, and nobody is on the way in, however the counts, the event and
\* the semaphore are interleaved with other calls.
THEOREM WriterIsAloneHolds == Spec => []WriterIsAlone
<1>1. LockInv => WriterIsAlone
  <2> SUFFICES ASSUME LockInv, NEW t \in Threads, pc[t] = "writing"
               PROVE  Inside = {t} /\ ~Granting
    BY DEF WriterIsAlone, At
  <2>1. AllWriters # 0
    BY Ranges
  <2>2. WritersLock
    BY <2>1, Ranges
       DEF LockInv, TypeOK, FreeLock, ReadersLock, StuckLock, NoWriter
  <2>3. QED
    BY <2>2 DEF WritersLock, NoReader, NoReaderGrant, NoWriterGrant, Inside, Granting, At
<1>2. QED
  BY <1>1, LockInvariance, PTL

\* Nobody waits for a lock that nobody has, unless the count has wrapped around.
THEOREM WaitersHaveHopeHolds == Spec => []WaitersHaveHope
<1>1. LockInv => WaitersHaveHope
  <2> SUFFICES ASSUME LockInv, Waiting # {}
               PROVE  Inside # {} \/ Granting \/ WrappedAround
    BY DEF WaitersHaveHope
  <2>1. AllReaders # 0 \/ AllWriters # 0
    BY Ranges DEF Waiting, At
  <2>2. ~FreeLock
    BY <2>1, Ranges DEF LockInv, FreeLock, TypeOK
  <2>3. CASE WritersLock
    BY <2>3 DEF WritersLock, Inside, Granting, At
  <2>4. CASE ReadersLock
    <3>1. CASE NowReading = 0 /\ \A t \in Threads : pc[t] # "grant_read"
      BY <2>4, <3>1 DEF ReadersLock, LockInv, TypeOK, Granting
    <3>2. CASE NowReading # 0
      BY <3>2, Ranges DEF NoReader, Inside, At
    <3>3. QED
      BY <3>1, <3>2 DEF Granting, At
  <2>5. CASE StuckLock
    BY <2>5 DEF StuckLock
  <2>6. QED
    BY <2>2, <2>3, <2>4, <2>5 DEF LockInv
<1>2. QED
  BY <1>1, LockInvariance, PTL

\* The wrap-around is for ever: once readers_entry_count is below zero nobody is
\* inside, nobody is granted the lock, and the count never changes again.
THEOREM StuckForEver ==
    Spec => [][WrappedAround => Inside = {} /\ ~Granting /\ WrappedAround']_vars
<1>1. LockInv /\ Next => (WrappedAround => Inside = {} /\ ~Granting /\ WrappedAround')
  <2> SUFFICES ASSUME LockInv, Next, WrappedAround
               PROVE  Inside = {} /\ ~Granting /\ WrappedAround'
    OBVIOUS
  <2>1. StuckLock
    BY Ranges, ReadWriteLockAssumption
       DEF LockInv, TypeOK, FreeLock, WritersLock, ReadersLock, WrappedAround
  <2>2. Inside = {} /\ ~Granting
    BY <2>1 DEF LockInv, TypeOK, StuckLock, NoReader, NoWriter, NoReaderGrant, NoWriterGrant,
                Inside, Granting, At
  <2>3. UNCHANGED readers_entry_count
    BY <2>1 DEF LockInv, TypeOK, StuckLock, NoReader, NoWriter, Next, Acquire, Continue,
                Release, AcquireExclusive, TryAcquireExclusive, AcquireShared, TryAcquireShared,
                AwaitWriterEvent, AwaitReaderSemaphore, GrantReaders, GrantWriter, ReleaseLast,
                ReleaseToReaders, ReleaseEntry, Holds, MayJoin, counts, wakeups
  <2>4. QED
    BY <2>2, <2>3 DEF WrappedAround
<1>2. QED
  BY <1>1, LockInvariance, PTL DEF Spec

-----------------------------------------------------------------------------

(* What callers may rely on. *)

\* Where a thread is for the others: one that is about to grant has left.
Place(t) == IF pc[t] \in {"grant_read", "grant_write"} THEN "out" ELSE pc[t]

Region == INSTANCE SharedRegion WITH at <- [t \in Threads |-> Place(t)]

\* A step of thread t that takes it from one place to another is that change of the
\* region, and one that leaves its place alone changes nothing there.
LEMMA RegionMoves ==
    ASSUME TypeOK, NEW t \in Threads, NEW to, Go(t, to)
    PROVE  IF to \in {"grant_read", "grant_write"} THEN Region!Go(t, "out") ELSE Region!Go(t, to)
BY DEF TypeOK, Go, Region!Go, Place

\* Every step of the lock is a step of the region, or changes nothing there.
LEMMA RegionStep ==
    ASSUME LockInv, [Next]_vars
    PROVE  [Region!Next]_[t \in Threads |-> Place(t)]
<1> DEFINE Goal == [Region!Next]_[t \in Threads |-> Place(t)]
<1> USE DEF LockInv, TypeOK
<1>1. ASSUME NEW t \in Threads, AcquireExclusive(t) \/ TryAcquireExclusive(t)
      PROVE  Goal
  <2>1. pc[t] = "out" /\ (Go(t, "writing") \/ Go(t, "await_write"))
    BY <1>1 DEF AcquireExclusive, TryAcquireExclusive
  <2>2. CASE Go(t, "await_write")
    BY <2>1, <2>2, RegionMoves DEF Region!Next, Region!Queue, Place
  <2>3. CASE Go(t, "writing")
    <3>1. lock_count = -1
      BY <1>1, <2>3 DEF AcquireExclusive, TryAcquireExclusive, Go, FreeLock, WritersLock,
                        ReadersLock, StuckLock
    <3>2. AllReaders = 0 /\ AllWriters = 0
      BY <3>1, Ranges
    <3>3. Region!AllAre(Region!Outside)
      BY <3>2, Ranges DEF Region!AllAre, Region!Outside, Place, Places
    <3>4. QED
      BY <2>1, <2>3, <3>3, RegionMoves DEF Region!Next, Region!EnterExclusive, Place
  <2>4. QED
    BY <2>1, <2>2, <2>3
<1>2. ASSUME NEW t \in Threads, AcquireShared(t) \/ TryAcquireShared(t)
      PROVE  Goal
  <2>1. pc[t] = "out" /\ (Go(t, "reading") \/ Go(t, "await_read"))
    BY <1>2 DEF AcquireShared, TryAcquireShared
  <2>2. CASE Go(t, "await_read")
    BY <2>1, <2>2, RegionMoves DEF Region!Next, Region!Queue, Place
  <2>3. CASE Go(t, "reading")
    <3>1. lock_count = -1 \/ MayJoin
      BY <1>2, <2>3 DEF AcquireShared, TryAcquireShared, Go, FreeLock, WritersLock,
                        ReadersLock, StuckLock
    <3>2. AllWriters = 0
      BY <3>1, Ranges DEF MayJoin, FreeLock, WritersLock, ReadersLock, StuckLock
    <3>3. Region!AllAre({"out", "await_read", "reading"})
      BY <3>2, Ranges DEF Region!AllAre, Place, Places
    <3>4. QED
      BY <2>1, <2>3, <3>3, RegionMoves DEF Region!Next, Region!EnterShared, Place
  <2>4. QED
    BY <2>1, <2>2, <2>3
<1>3. ASSUME NEW t \in Threads, AwaitWriterEvent(t)
      PROVE  Goal
  <2>1. WritersLock
    BY <1>3 DEF AwaitWriterEvent, FreeLock, ReadersLock, StuckLock, NoWriterGrant
  <2>2. Region!AllAre(Region!Outside)
    BY <1>3, <2>1 DEF AwaitWriterEvent, WritersLock, NoReader, Region!AllAre, Region!Outside,
                      Place, Places
  <2>3. QED
    BY <1>3, <2>2, RegionMoves
       DEF AwaitWriterEvent, Region!Next, Region!EnterExclusive, Place
<1>4. ASSUME NEW t \in Threads, AwaitReaderSemaphore(t)
      PROVE  Goal
  <2>1. ReadersLock
    BY <1>4 DEF AwaitReaderSemaphore, FreeLock, WritersLock, StuckLock, NoReaderGrant
  <2>2. Region!AllAre(Region!Outside \cup {"reading"})
    BY <2>1 DEF ReadersLock, NoWriter, Region!AllAre, Region!Outside, Place, Places
  <2>3. QED
    BY <1>4, <2>2, RegionMoves
       DEF AwaitReaderSemaphore, Region!Next, Region!EnterShared, Place
<1>5. ASSUME NEW t \in Threads, GrantReaders(t) \/ GrantWriter(t)
      PROVE  Goal
  BY <1>5 DEF GrantReaders, GrantWriter, Go, Place
<1>6. ASSUME NEW t \in Threads, Release(t)
      PROVE  Goal
  <2>1. pc[t] \in {"reading", "writing"}
    BY <1>6 DEF Release, ReleaseLast, ReleaseToReaders, ReleaseEntry, Holds
  <2>2. Go(t, "out") \/ Go(t, "grant_read") \/ Go(t, "grant_write")
    BY <1>6 DEF Release, ReleaseLast, ReleaseToReaders, ReleaseEntry
  <2>3. Region!Go(t, "out")
    BY <2>2, RegionMoves
  <2>4. QED
    BY <2>1, <2>3 DEF Region!Next, Region!Leave, Place
<1>7. CASE UNCHANGED vars
  BY <1>7 DEF vars, Place
<1>8. QED
  BY <1>1, <1>2, <1>3, <1>4, <1>5, <1>6, <1>7 DEF Next, Acquire, Continue

\* An X_ERWLOCK implements the shared region: its readers and writers exclude each
\* other, whoever waits enters as what it asked for, and no reader that arrives goes
\* in before a writer that waits.
THEOREM ImplementsSharedRegion == Spec => Region!Spec
<1>1. Init => Region!Init
  BY DEF Init, Region!Init, Place
<1>2. LockInv /\ [Next]_vars => [Region!Next]_[t \in Threads |-> Place(t)]
  BY RegionStep
<1>3. QED
  BY <1>1, <1>2, LockInvariance, PTL DEF Spec, Region!Spec

(* How the lock gets stuck. *)

\* A writer leaves the region while writers wait and no reader does.
LeftToWriter == \E t \in Threads : /\ pc[t] = "writing" /\ pc'[t] = "out"
                                   /\ At("await_write") # {} /\ At("await_read") = {}

\* A wrapped entry count has no other meaning than that the lock is stuck, with a
\* writer waiting.
StuckMeaning == WrappedAround => StuckLock /\ At("await_write") # {}

LEMMA WrappedIsStuck == LockInv => StuckMeaning
<1> SUFFICES ASSUME LockInv, WrappedAround PROVE StuckLock /\ At("await_write") # {}
  BY DEF StuckMeaning
<1>1. StuckLock
  BY Ranges, ReadWriteLockAssumption
     DEF LockInv, TypeOK, FreeLock, WritersLock, ReadersLock, WrappedAround
<1>2. AllWriters # 0 /\ NoWriter
  BY <1>1 DEF StuckLock, LockInv, TypeOK
<1>3. QED
  BY <1>1, <1>2, Ranges DEF At, NoWriter

\* A step that makes the count wrap is a writer's that leaves to other writers.
LEMMA WrapsOnlySo ==
    ASSUME LockInv, ~WrappedAround, Next, StuckMeaning', WrappedAround'
    PROVE  LeftToWriter
<1> USE DEF LockInv, TypeOK, counts
<1>1. /\ readers_entry_count # Wrap - 1 /\ readers_entry_count' = Wrap - 1
      /\ StuckLock' /\ At("await_write")' # {}
  BY DEF StuckMeaning, WrappedAround
<1>2. PICK t \in Threads : Acquire(t) \/ Continue(t) \/ Release(t)
  BY DEF Next
<1>3. /\ pc'[t] \notin {"reading", "grant_read", "grant_write"}
  BY <1>1 DEF StuckLock, NoReader, NoReaderGrant, NoWriterGrant
<1>4. ReleaseEntry(t)
  <2>1. ~Acquire(t)
    BY <1>1, <1>3 DEF Acquire, AcquireExclusive, TryAcquireExclusive, AcquireShared,
                      TryAcquireShared, Go
  <2>2. ~Continue(t)
    BY <1>1 DEF Continue, AwaitWriterEvent, AwaitReaderSemaphore, GrantReaders, GrantWriter
  <2>3. ~ReleaseLast(t)
    BY <1>1, ReadWriteLockAssumption, FS_CardinalityType DEF ReleaseLast
  <2>4. ~ReleaseToReaders(t)
    BY <1>3 DEF ReleaseToReaders, Go
  <2>5. QED
    BY <1>2, <2>1, <2>2, <2>3, <2>4 DEF Release
<1>5. Go(t, "out") /\ pc'[t] = "out"
  BY <1>3, <1>4 DEF ReleaseEntry, Go
<1>6. At("await_write") # {}
  BY <1>1, <1>5 DEF At, Go
<1>7. ~ReadersLock
  <2> SUFFICES ASSUME ReadersLock PROVE FALSE
    OBVIOUS
  <2>1. readers_entry_count > 0 /\ readers_entry_count < Wrap
    <3>1. AllReaders = readers_waiting_count + readers_entry_count /\ readers_entry_count > 0
      BY DEF ReadersLock
    <3>2. readers_waiting_count \in Nat /\ readers_entry_count \in Nat
      OBVIOUS
    <3>3. AllReaders + 1 < Wrap /\ Wrap \in Nat
      BY Ranges, ReadWriteLockAssumption
    <3>4. QED
      BY ONLY <3>1, <3>2, <3>3
  <2>2. readers_entry_count' = readers_entry_count - 1
    BY <1>4, <2>1, Modulo DEF ReleaseEntry
  <2>3. QED
    BY <1>1, <2>1, <2>2, ReadWriteLockAssumption
<1>8. WritersLock
  BY <1>1, <1>4, <1>7 DEF ReleaseEntry, FreeLock, StuckLock, WrappedAround
<1>9. pc[t] = "writing" /\ AllReaders = 0
  BY <1>4, <1>8 DEF ReleaseEntry, Holds, WritersLock, NoReader
<1>10. At("await_read") = {}
  BY <1>9, Ranges DEF At
<1>11. QED
  BY <1>5, <1>6, <1>9, <1>10 DEF LeftToWriter

\* A writer that leaves to other writers makes the count wrap.
LEMMA LeavingWraps ==
    ASSUME LockInv, Next, LeftToWriter
    PROVE  WrappedAround'
<1> USE DEF LockInv, TypeOK
<1>1. PICK t \in Threads : /\ pc[t] = "writing" /\ pc'[t] = "out"
                           /\ At("await_write") # {} /\ At("await_read") = {}
  BY DEF LeftToWriter
<1>2. PICK u \in Threads : pc[u] = "await_write"
  BY <1>1 DEF At
<1>3. Acquire(t) \/ Continue(t) \/ Release(t)
  <2>1. ASSUME NEW v \in Threads, v # t, Acquire(v) \/ Continue(v) \/ Release(v)
        PROVE  pc'[t] = pc[t]
    BY <2>1 DEF Acquire, AcquireExclusive, TryAcquireExclusive, AcquireShared,
                TryAcquireShared, Continue, AwaitWriterEvent, AwaitReaderSemaphore,
                GrantReaders, GrantWriter, Release, ReleaseLast, ReleaseToReaders,
                ReleaseEntry, Go
  <2>2. QED
    BY <1>1, <2>1 DEF Next
<1>4. Release(t)
  BY <1>1, <1>3 DEF Acquire, AcquireExclusive, TryAcquireExclusive, AcquireShared,
                    TryAcquireShared, Continue, AwaitWriterEvent, AwaitReaderSemaphore,
                    GrantReaders, GrantWriter
<1>5. ~ReleaseLast(t)
  <2> SUFFICES ASSUME lock_count = 0 PROVE FALSE
    BY DEF ReleaseLast
  <2>1. AllReaders + AllWriters = 1 /\ AllWriters # 0
    BY <1>1, Ranges
  <2>2. AllWriters = 1
    BY <2>1, Ranges
  <2>3. Count({"writing", "await_write"}) = 1
    BY <2>2 DEF AllWriters
  <2>4. u = t
    BY <1>1, <1>2, <2>3, CountOne
  <2>5. QED
    BY <1>1, <1>2, <2>4
<1>6. ReleaseEntry(t)
  BY <1>1, <1>4, <1>5 DEF Release, ReleaseToReaders, Go
<1>7. AllWriters # 0 /\ ~NoWriter
  BY <1>1, Ranges DEF NoWriter
<1>8. CASE WritersLock
  BY <1>6, <1>8, Modulo DEF ReleaseEntry, WritersLock, WrappedAround
<1>9. QED
  BY <1>6, <1>7, <1>8, Ranges DEF ReleaseEntry, FreeLock, ReadersLock, StuckLock

\* readers_entry_count goes below zero exactly when a writer leaves while writers wait
\* and no reader does, which xboxkrnl_threading.cc does not tell apart from the last
\* reader's leaving: no other history sticks the lock, and this one always does.
THEOREM SticksExactlySo ==
    Spec => [][~WrappedAround => (WrappedAround' <=> LeftToWriter)]_vars
<1>1. ASSUME LockInv, StuckMeaning', Next
      PROVE  ~WrappedAround => (WrappedAround' <=> LeftToWriter)
  BY <1>1, WrapsOnlySo, LeavingWraps
<1>2. QED
  BY <1>1, LockInvariance, WrappedIsStuck, PTL DEF Spec
=============================================================================
