# A TLA+ verification of Nexia360's concurrent core

Nexia360 is an Xbox 360 emulator in the Xenia line.  Guest threads run as host
threads on translated code; the guest kernel's objects (threads, events,
semaphores, mutants, timers, critical sections, reader-writer locks) are
emulated by `src/src/xenia/kernel` on top of a host layer in
`src/src/xenia/base`; guest memory is shared with the graphics emulation by
watching its pages.  This directory holds TLA+ models of what these parts do
between threads on Linux, TLC configurations that check them on small instances,
and TLAPS proofs of the central properties for every instance.

Paths below are relative to `src/src/xenia`; line numbers refer to this commit.
`PROJECT.json` maps every definition to the lines it models.

## 1. Inventory

The repository has 2422 files.  The greatest part of its text is instruction
tests, graphics and vendored code.  What carries state between threads is this:

| component | state it keeps | operations | what is hard | modelled in |
|---|---|---|---|---|
| `base/mutex` | futex word; owner and recursion count of the global critical region | lock, try_lock, unlock | lost wakeups; the owner check without the lock; plain stores around the atomic ones | FastMutex, GlobalMutex |
| `base/threading_posix`: threads | state, suspend count, semaphore, signalled flag | start, Suspend, Resume, Terminate, Exit, join by Wait | suspension by a signal whose handler blocks; cancellation anywhere | PosixThread |
| `base/threading_posix`: events, semaphores, mutants | a count, an owner, a mutex and a condition each | Set, Reset, Pulse, Release, Wait, WaitMultiple, SignalAndWait | lock order, missed wakeups, unlocked ownership check | PosixWait |
| `base/threading_timer_queue` | items in four places, a state per item | QueueTimer, Disarm, dispatch, shutdown | a disarmament racing a callback, or made by it; the thread that empties a full ring may wait for a slot of it | TimerQueue |
| `base/threading_posix`: timers, `kernel/xtimer` | current item and callback, signal | SetOnce, SetRepeating, Cancel, completion, Wait | set and cancel racing the completion; three locks and a spin | PosixTimer |
| `kernel/xboxkrnl_rtl`: critical sections | lock count, owner, recursion count, event | Enter, TryEnter, Leave | one count for holders, nesting and waiters; hand-over by an event | CriticalSection |
| `kernel/xboxkrnl_threading`: X_ERWLOCK | four counts, event, semaphore | Acquire and TryAcquire, exclusive and shared; Release | grants outside of the lock, unsigned counts | ReadWriteLock |
| `kernel/util/object_table`, `kernel/xobject` | slots, handle counts, names, reference counts | create, open by name, duplicate, use, close; end of a title | reuse of slots; `handles_[0]` read without the lock; names dropped by handle | ObjectTable |
| `cpu`: entry table, processor, background translator, call caches | an entry per function, the module's symbols, records of sweeps | resolve and compile, sweep, translate ahead, pause, flush | a sweep during a translation; two spins; the end of a title, which stops guests where they stand | CodeResolution |
| `memory`, `cpu/mmio_handler`: watches on physical pages | flags per page, the protection of each window's host pages | watch, fault, notify, arm, disarm | the fault is told of after the lock was left | PhysicalHeap |
| `gpu/shared_memory` | which pages are valid, which only the GPU has | request, upload, mark valid, give up | a store between the copy and the watch | SharedMemory |
| `gpu/vulkan`: resolve contracts | what each resolve still owes to guest memory, requests of waiting threads | keep, arm, serve, materialize, wait | a guest thread waits inside its access violation for the worker | ResolveContracts |
| `kernel/xthread` | guest suspend count, APC lists | Suspend, Resume, SelfSuspend, APCs | two suspend counts; APCs from other threads | no |
| `kernel/xiocompletion`, `kernel/xnotifylistener` | a queue mirrored by a semaphore or an event | queue, wait, dequeue | the mirror at its limit | no |
| `kernel/xevent`, `xsemaphore`, `xmutant` | a host object | forwarding | none of their own | no |
| everything else | see "Not modelled" | | | no |

How they interact.  `kernel/xtimer` calls a host timer under its `timer_lock_`;
the host timer queues items on the process-wide timer queue, whose dispatch
thread calls back into the timer and from there into the guest kernel.  Guest
waits end in `PosixWait`'s objects: a critical section and an X_ERWLOCK wait on
a guest event or semaphore that is backed by a host one.  Guest threads are
host threads that are created suspended (`kernel/xthread.cc:452`).  The global
critical region is the lock of the object table, of the entry table, of the
pages' watches and of the virtual file system.  Two paths run through several
parts.  A call of guest code resolves through the call cache, the entry table
and the module's symbols, while stores to code reach it as sweeps.  A guest
access to a watched page enters `cpu/mmio_handler`, the watches of
`memory.cc`, and from there the shared memory's invalidation, or a contract of
the command processor, on whose worker it may wait.

What makes each correct: exclusion and hand-over for the locks; that suspension
stops and resumption frees, and that an ended thread is seen to have ended; that
no waiter sleeps on a satisfied object and a mutant has one owner; that a
disarmed item never runs again, and when a call may wait for ever; that a cancelled timer
does not signal; that no call runs code that was overwritten before it; that
the GPU's copy of a page is the guest's unless the GPU has the newer bytes, and
that these reach the guest before it reads; that an object lives while something
leads to it and a handle leads to its object.  The hazards of PROJECT.json name
the lines.

## 2. Modules

Specifications come first, each with its properties at its end; the definitions
marked "Mutant of X" are plausible mistakes in X, for the mutation runs.

* **CriticalRegion**: what `base/mutex.h` promises of the global critical
  region, as an abstract machine of one variable, the nesting of each thread.
* **MutexParameters**: the constants of the mutexes and what is assumed of them.
* **FastMutex**: `xe_fast_mutex`, one action per atomic operation: the CAS of
  `lock`, the spin loop, `exchange(2)`, `futex_wait` with spurious returns, the
  CAS after it, `exchange(0)`, `futex_wake`.
* **GlobalMutex**: `xe_global_mutex` on the same protocol (`INSTANCE
  FastMutex`), with the owner check, and the stores of `owner_` (relaxed)
  and `recursion_count_` (plain) as steps of their own.  `Region == INSTANCE
  CriticalRegion WITH ...` maps it to the abstract region.  FastMutex has no run
  of its own: this one goes through every step of it.
* **PosixThread**: one `Thread` and any number of callers.  A step is a
  critical section of `state_mutex_` or of `mutex_`, the delivery of a signal,
  the return of `sem_wait`, a cancellation.  Suspend signals are counted
  between their cause and their delivery; the handler is a frame that parks the
  thread wherever it stands.
* **PosixWait**: events, semaphores and mutants, and threads inside `Wait`,
  `WaitMultiple` and `SignalAndWait`.  A step is a critical section of an
  object's mutex; `lock` records a mutex that stays held over several steps.
* **TimerQueue**: the dispatch loop label by label, the items' states and
  places, QueueTimer and Disarm from a thread and from the callback, the
  destructor.  A QueueTimer that finds the ring full claims its slot in two steps
  (`claiming`): whoever calls it waits, the dispatch thread in a callback too.
* **PosixTimer**: EXTENDS TimerQueue; every step on an item is TimerQueue's
  action, conjoined with the timer's own part.  A callback calls Set and Cancel as
  often as it likes.
* **CriticalSection**: `RtlEnter-`, `RtlTryEnter-` and
  `RtlLeaveCriticalSection`, one action per atomic operation or group of plain
  stores that only the owner makes.  It implements CriticalRegion too (a
  theorem).
* **ReadWriteLock**: the six `X_ERWLOCK` exports; what is done under the guest
  spin lock is one step, the waits and the grants are steps of their own.
* **CodeResolution**: the code a title writes itself.  Guest threads call
  through their call caches, write code and sweep it; translators work ahead;
  the title may end: the translators pause, TerminateTitle suspends the guest
  threads where they stand, in the middle of a translation too (`Parked`), and
  FlushCode deletes all entries, compiling ones too.  `Names` are guest addresses, `MemoryOf` the memory behind
  each: two names of one memory are two windows on it.  A translation is the
  loop of `CompileEntry`, whose attempts read the memory's version (a counter
  per memory stands for its bytes), and whose steps are what is done under the
  entry table's or the module's lock.
* **PhysicalHeap**: the page flags of each window and the protection of host
  pages, with the operators that ask for notifications, take watches off, and
  arm and disarm read watches; no behaviour of its own.
* **SharedMemory**: EXTENDS PhysicalHeap with the valid and GPU-written pages,
  and the effect of invalidation, uploads and GPU stores on them.
* **ResolveContracts**: EXTENDS SharedMemory.  The guest threads' loads and
  stores through any window, from the fault to the retry, and the worker's jobs
  (requests of a range, draws that upload, resolves, memory exports, the service
  of requests), interleaved where the code leaves a lock or waits.
* **ObjectTable**: the table, the objects' counts and names, and the guest's
  calls, from creation to closing, with `handles_` read outside of the lock as a
  step; `raced` remembers the events after which a handle may be another's
  (section 6).
* **WaitItem**, **SharedRegion**, **CodeEntry**, **ObjectLife**: like
  CriticalRegion, small abstract machines of what one timer item, one X_ERWLOCK,
  one entry of the entry table and one object promise to those who use them.
  They have no run: theorems show that every item, lock, entry and object of the
  detailed modules implements them.
* `*Proofs`: theorems; `MC*` and `.cfg`: TLC instances.

## 3. Runs

| run | question | instance | distinct states |
|---|---|---|---|
| global_mutex | exclusion, no lost wakeup, owner fields against the truth, refinement of CriticalRegion, hand-over | 4 threads, 2 spins, nesting 2 | 197 k |
| posix_thread | the suspend semaphore's books, parking, resumption, joining | counts to 2, 2 signals under way, both ways of creation | 80 k |
| posix_wait | missed wakeups, mutant exclusion, progress of lock holders | 3 threads, an event, a semaphore, a mutant, lists in both orders | 578 k, under symmetry |
| timer_queue | guarantees of Disarm, one callback at a time, which calls return, termination | 3 items (one recurring), a thread and the callbacks, ring of 1 | 41 k |
| posix_timer | cancel, set and completion of an XTimer; which operations return, of either timer | 3 items (one recurring), 2 threads and the callbacks, ring of 1 | 184 k |
| critical_section | one owner, one claim, hand-over | 5 threads, 2 spins, nesting 3 | 79 k |
| read_write_lock | writers alone, hope for waiters, no overtaking for ever | 5 threads, 2 of them write | 1 k |
| code_resolution | does old code stay callable; quiet while a title is torn down; do all waits end | 2 names of one memory, a guest thread, a translator, 2 attempts, 1 record, 2 writes, 2 sweeps | 288 k |
| code_failed_entry | is a name compiled anew once its code has been written and announced? | the same, 1 write, 1 sweep | violation |
| resolve_contracts | stores noticed, copies current, GPU bytes kept, owed bytes hidden, waiters heard | 2 pages, 3 windows, 2 guest threads with 2 accesses each in all, 2 jobs | 1.8 M, under symmetry |
| contract_waiter | does a thread that waits for a contract go on? | 1 page, 2 windows, 1 thread, 1 access, 2 jobs | violation |
| object_table | objects alive, handles kept, names of their objects | 2 threads, 2 objects of 2 types, 3 handles, 3 variables, 1 name, 3 calls, 2 titles | 177 k, under symmetry |

Why the bounds suffice.  A lock's races need a holder, a thread that acquires
and one that sleeps; a fourth and fifth make several sleepers and a late
spinner.  `SpinCount` only multiplies equal rounds.  Nesting separates first
and last entry, and at 3 a middle one.  For suspension, 2 gives nesting and one
signal overtaking another.  Three threads on an object are an owner, a waiter
and an intruder; the lists in both orders give `WaitMultiple` its lock
inversion.  With three timer items, one is in its callback while one fills the
ring of a single slot and the third is being queued: `claim_one` waits, for a
thread and for a callback, and every hang that section 6 tells of is reached but
one form: that the callback's own call, not the completion routine, waits for
`mutex_` in RingCircle takes a fourth item.  CircleForEver covers it.
`Wrap` is 8 where the code has 2^32: the run never comes near it except by
wrapping.  Two names of one memory give a sweep that drops two entries, a
record that has been displaced (`RecordCount` 1, the code has 256) and the last
attempt (`MaxAttempts` 2, the code has 4); the second write and sweep make a
translation stale twice.  Two pages give ranges that end or join between them,
two guest threads one that waits while another stores to its page, two jobs a
contract and what disturbs it.  Two objects and three handles give a slot that
is used again, a duplicate, and a name that is looked up while it is given
away.

Bounds that the code does not have are in guards and named: `MaxRecursion`,
`MaxSuspend`, `MaxInFlight`, `MaxHold`, `MaxWrites`, `MaxSweeps`,
`MaxAccesses`, `MaxJobs`, `MaxCalls`, `MaxTitles`; timer items and objects are
not made again.  Symmetry is used in runs that check safety only.

Deadlock is checked for the mutual-exclusion locks and for CodeResolution.  It
is off where the system may really stop: a thread or a queue that has ended,
waiters that nobody signals, items, accesses, jobs and calls that are used up,
and X_ERWLOCK after its count has wrapped.

Two variables chosen in the initial state, `create_suspended` and `xtimer`, let
one passing run cover both variants; the properties that hold for one variant
say so, and section 6 says what the other does.

## 4. Fairness

* Locks: weak fairness of each thread's next step inside `lock` or `unlock`
  (threads are scheduled) and of leaving (`base/mutex.h` asks that work under
  the region be fast).  Nothing obliges a thread to call `lock`, and spurious
  futex returns are not relied on.  Hand-over is stated for the group: neither
  the futex nor the event is fair to a single thread.
* PosixThread: the kernel schedules, delivers signals and cancellations; a
  begun call ends.  `start_routine` need not end and nobody must call Resume.
* TimerQueue: the dispatch thread runs, items become due, and a callback returns
  after finitely many calls, unless one of them does not return.  Strong fairness
  of a spinning Disarm: a recurring item is idle for its interval in each round,
  so the spinner sees it idle.  Strong fairness of a claim and of the destructor's
  item: the ring hands its slots to the claims in their order.  PosixTimer
  likewise.
* ReadWriteLock: threads inside a call go on, holders release.
* CodeResolution: weak fairness of a thread inside a resolution that is not
  parked, of the store to the call cache, and of the end of a pause that has nothing left to wait
  for.  Nobody must call, write, sweep or translate.
* ResolveContracts: the worker goes on with a job it has begun, and a guest
  thread inside its access violation is scheduled.  No job must begin.  That the
  worker ends its polls of memory is assumed (section 6).
* PosixWait has no fairness: its retry loop without a clock would need fairness
  between pollers that nothing gives.  That a holder of locks can always go on
  is stated with ENABLED instead.  ObjectTable is checked for safety only.

## 5. Proofs

Every theorem is proved by TLAPS from nothing but the named assumptions on the
constants, for every value of them (sets of threads of any size, finite where
something is counted).

* **MutexProofs**.  Exclusion of the futex protocol is not inductive alone: the
  invariant adds that the word is 0 exactly when nobody holds the lock, and the
  remaining spins of a thread in the spin phase.  NoLostWakeup follows with a
  case for each site that may erase the mark.  Every step of the recursive lock
  is a step of the futex protocol (the instance `Futex`) or leaves it alone, so
  these facts hold of its word; OwnerInv adds what each phase says of the plain
  fields, and gives the two owner properties and the refinement of
  CriticalRegion.
* **ThreadingProofs**.  Of the waits: a sleeper would not be satisfied whether
  its object is locked or not (SleepInv), from which NoMissedWakeup.  For
  MutantExclusion the count of a mutant must be compared with what its holder has
  acquired including a `count_++` whose `owner_` is not stored yet (Mine), and
  LockInv says who can be between the two: with the mutex theirs, nobody else
  reads `owner_`, except `Release()`, whose unlocked check succeeds only for a
  thread that has stored it.  The theorems assume that a thread releases only
  mutants it has acquired (`~StrayRelease`): a `Release()` by a thread whose id
  is left in `owner_` passes the check while another is between `count_++` and
  the store.  HolderCanProceed uses ENABLED; proved is its part without:
  HolderIsInPassing, that who keeps a mutex locked stands where TryLock,
  Evaluate or StoreOwner has a disjunct for every case.  Every step on a mutant
  is one of CriticalRegion's or leaves what is acquired of it alone
  (MutantIsRegion; a mutant may be created owned, so the region's initial state
  is not claimed).  Of a thread:
  SuspendAccounting is the invariant's core, waits begun or on their way equal
  posts plus the present suspension.  With it, that a suspended thread is parked
  and that a dead thread is signalled.  For a thread created suspended the books
  are one post ahead from its start on (SparePost), so whatever parks it before
  it ends lets it go at once (PassesThroughHolds: section 6).  However it was
  created, a thread that is parked and whose suspend count is 0 has a post to go
  on by (NotStrandedHolds), the safety part of ResumedRuns.
* **TimerProofs**.  QueueInv relates an item's state to its place and to the
  dispatch thread's label; from it the Disarm guarantee, one callback at a time,
  and, as an action property, that a self-disarmament is final.  PosixTimer
  implements TimerQueue (UsesQueue), so QueueInv holds of a timer's queue too;
  with it, under XTimer's lock, one thread is in an operation and all items but
  that of the last activation are disarmed.  An item the dispatch thread works on
  is then either disarmed or the last (LiveIsLast), which gives CancelStops and
  NoStaleSignal.  Every item implements WaitItem, in the queue alone and under a
  timer's calls.  The safety parts of the liveness properties: who waits in
  Disarm waits for the callback that the dispatch thread is executing, and that
  thread waits for nobody unless its callback hangs it (WaitsForDispatchHolds);
  the waits for `mutex_`, for a slot of the ring and in Disarm close no circle, of
  an XTimer ever, of another timer outside of the named hangs
  (LocksAcyclicHolds).  The exceptions are no excuses that pass: a callback that
  waits for itself or for a slot hangs the dispatch thread where it is, a queue
  that ended with its ring full stays closed (HangsForEver), and so does the circle
  of `mutex_` and a full ring (CircleForEver).
* **ReadWriteLockProofs**.  The counts change under the spin lock before the
  event and the semaphore are set, so the invariant has one clause for each
  meaning of the counts (free, one writer's, the readers', stuck) and in each
  says that what was given away and not yet taken is on its way as exactly one
  grant.  The counts are cardinalities of sets of threads.  From it
  WriterIsAlone and WaitersHaveHope, the refinement of SharedRegion (a waiter is
  inside when its wait returns; who is about to grant has left),
  that the entry count wraps exactly when a writer leaves to waiting writers
  alone (SticksExactlySo), and that this is for ever (StuckForEver).
* **CriticalSectionProofs**.  Three invariants: `lock_count` is the cardinality
  of those inside and waiting plus the nested entries; the plain fields belong
  to the thread inside; and a used section has exactly one claim (a holder, a
  thread about to set the event, or the event).  From them OneOwner, OneClaim,
  and the refinement of the same CriticalRegion.
* **CodeResolutionProofs**.  That ready entries are fresh needs to know who may
  make them so: a compiling entry has one thread that compiles it, a symbol
  being defined one holder, and what a translation has read is either what was
  last swept, or a record or a displaced record will tell it.  From this
  EntryIsFresh, CachedIsFresh and PausedIsQuiet.  A second invariant says that
  each compiling entry and each symbol being defined has a thread at work on it
  (Owned, Held).  So the spin for an entry and the wait for a symbol end, after
  two steps at most, at a thread that waits for nobody (WaitsEndHolds, the safety
  part of TranslationEnds; a parked thread takes no steps, and those that wait for
  it are parked or deleted with it).  Every entry implements CodeEntry, which says
  who may publish: an entry becomes ready or failed only while a thread is
  translating it.  `FlushCode` has no check and deletes entries in translation; it
  deletes none under a running thread because the translators have paused and the
  guests are parked, which is proved of the steps before it and not a guard.
* **ResolveContractsProofs**.  Lemmas say what each operator of PhysicalHeap and
  SharedMemory does to one place (one window's view of one page).  The invariant
  has named parts: a valid page is watched where the worker has come by; a page
  being marked is not the GPU's; a buffer holds what its contract's pages held;
  a hidden place has a read watch or a thread that gives it back; a waiting
  thread is queued or in hand.  From it the four invariants of the run and the
  action property GpuDataKept.
* **ObjectTableProofs**.  The reference count is the cardinality of the
  references, a handle's count is at least the number of those who have it open
  (variables of the guest, and threads that have it retained), and what a thread
  has read of `handles_[0]` stays true while it opens the object.  Cardinality
  lemmas say what taking and dropping a reference and closing a handle do.
  From these AliveWhileReferenced, OpenHandleIsKept and NameIsOfItsObject, and
  that every object implements ObjectLife: as a new object has no references
  counted and a count of 1 is that of one reference, no release and no end of a
  title moves an object but from new to live to deleted.

Only model-checked: all liveness (hand-over, ResumedRuns, JoinEnds,
CallsReturn, ShutdownEnds, OperationsReturn, WriterAfterReaders,
TranslationEnds) and ENABLED (HolderCanProceed), which are outside the prover's
reach.  What liveness needs of the states, that whoever waits waits for a thread
that works, is proved for the two mutexes, the critical section, the
X_ERWLOCK, the suspended thread, the timer queue, the XTimer and the resolution
of code.  Every other invariant and action property of the runs is proved.

## 6. Disagreements found

With a run each:

1. A name that is called before its code is written fails to resolve, and its
   entry stays `STATUS_FAILED` for ever: a sweep drops only entries that have
   code (`cpu/entry_table.cc:113`), while `cpu/processor.h:153-155` says that the
   next call of swept code compiles it anew (code_failed_entry).
2. A guest thread that waits for a contract is woken, finds that the worker has
   registered a new contract for the same range before it looked, and waits again
   with no request in the queue
   (`gpu/vulkan/vulkan_command_processor.cc:3318`); its header, 854-855, tells
   of a thread that waits for the worker to service its request
   (contract_waiter).

Read in the code and shown by the models, in part as exceptions that a
property names, without a run of their own.

Threads and waits:

* `Suspend` of a thread that was created suspended never holds it, not only the
  first time: the post of the first Resume stays in `suspend_sem_`
  (`base/threading_posix.cc:841`), each suspension takes one post and its Resume
  returns it (PassesThroughHolds).  Guest threads are created in this way.
* A previous owner's stray `Mutant::Release` can pass the unlocked check between
  the next owner's two stores (`threading_posix.cc:451`), against
  `threading.h:413`.  It needs a caller that releases without owning.
* The timer queue can hang, each time for ever (HangsForEver), in ways that
  CallsReturn and ShutdownEnds name.  A callback that disarms its own item a
  second time spins for its own return (`threading_timer_queue.cc:205`).  One that
  queues while the ring of 512 slots is full waits in `claim_one` (154) on the only
  thread that makes room, and the destructor's join with it.  At the end of the
  process, the destructor's item or another claim may find the ring full after
  the dispatch thread has seen `shutdown_` and ended.
* A timer whose callback sets it while another thread sets it too keeps an item
  that no Cancel reaches (`threading_posix.cc:502`).  And the activation, which
  has `mutex_`, waits in `claim_one` while the ring is full, and the dispatch
  thread, which empties it, for `mutex_`: in `CompletionRoutine` if an earlier item
  of the same timer completes (`threading_posix.cc:488`, 537), or in the callback's
  own call (RingCircle, CircleForEver).  `XTimer` is not affected by any of these:
  its lock, and callbacks that only queue an APC, exclude them (OperationsReturn,
  LocksAcyclicHolds).
* A writer that releases an X_ERWLOCK while another writer waits, and no reader
  does, decrements the readers' count from 0 and wakes nobody
  (`kernel/xboxkrnl/xboxkrnl_threading.cc:1952`).  This is the only way, and the
  lock is dead from then on (SticksExactlySo, StuckForEver); WaitersHaveHope
  excepts it.
* A Resume between the two critical sections of the start routine is lost
  (`threading_posix.cc:1295`); the suspend handler can park a thread that holds
  `state_mutex_` (1381), which Resume needs; a Wait on a thread with a timeout
  joins without one (955); `WaitMultiple` retries a failed try-lock without
  looking at its clock (298-301); a mutant whose owner has ended stays owned
  (469); Pulse is a Set and a Reset 10 us apart (1113); a thread that exits
  just after another has called Terminate on it spins with `state_mutex_` held
  until it is cancelled (891-899).
* `XThread::Suspend` suspends the host thread once per call but `Resume` resumes
  it once in all (`kernel/xthread.cc:1080`, 1129).

Code:

* An entry becomes READY without code when the module's symbol is already being
  declared elsewhere, against "Ready to use." at `cpu/processor.cc:568`: the
  symbol is being defined between its creation and its declaration
  (`cpu/module.cc:125`).
* A call cache may be filled after the sweep of what is stored
  (`cpu/backend/x64/x64_emitter.cc:863`), and the last attempt of a translation
  installs code that it knows to be stale.  EntryIsFresh and CachedIsFresh name
  these two.
* The branch that `cpu/entry_table.cc:55-57` calls dead code is reached.
* The end of a title deletes entries that a suspended guest was translating
  (`cpu/entry_table.cc:95`), and nothing in `cpu` checks that the guest is
  stopped: it rests on `kernel/kernel_state.cc:1215-1231`.  A guest may also be
  suspended with `background_mutex_` held, as it queues a translation inside a
  sweep (`cpu/processor.cc:691`); whoever resumes the translators (746) then waits
  for ever.

Watches and contracts:

* Two threads that load from one armed place fault both; the second finds no
  watch and its access violation is not handled (`cpu/mmio_handler.cc:455-469`,
  `memory.cc:838`).  The model ends there ("crashed").
* A store through the same window while another thread waits for
  materialization finds the place open, and the copy then overwrites it; so it
  is for a store between the collection of GPU-written ranges and the arming.
  CopyIsCurrent excepts such pages (`clobbered`).
* A disarmament that comes after the range was registered again takes off the
  new contract's watch, and the guest reads old bytes, against
  `memory.h:569-571`.  OwedIsHidden excepts such places (`late`).
* Eviction, an overlapping resolve, a memory export or a queued invalidation of
  one page gives up the owed bytes of the contract's other pages; a failed
  `vkMapMemory` counts as materialized, and a failed wait for the queue drops the
  requests that were taken.
* WAIT_REG_MEM polls without serving contracts
  (`gpu/pm4_command_processor_implement.h:721`): if the thread that would store
  the value waits for one, both wait, against the header's 875-878.
* The global lock is recursive and the handler drops one level of it;
  `PhysicalHeap::Protect` (`memory.cc:3680-3697`) leaves it before the base
  heap's part; a CPU store between the valid mark and the watch of a GPU write is
  not noticed (`gpu/shared_memory.cc:323-324`).

Handles:

* An open by name looks the object up, releases the handle it retained and
  retains `handles_[0]`, read without the lock (`kernel/xobject.cc:74`,
  `xboxkrnl_threading.cc:684`): in between another thread may close it, and a
  handle comes back that was not retained, against the comment at
  `xboxkrnl_threading.cc:64`.  The properties of handles except this (`raced`).
* An object of that name but another type: the comment (63-66) speaks of a name
  collision; the code keeps the retained handle, makes a second object whose
  name is refused and that is returned nonetheless, and closing it drops the
  first one's name.
* Names outlive the end of a title (`kernel/util/object_table.cc:273`); the
  assertion at 226 does not hold for DUPLICATE_CLOSE_SOURCE, which removes a
  handle that is open elsewhere; `slot <= capacity` at 303 is one too far;
  ReleaseHandle of a purged object reads an empty `handles_`.

## 7. Not modelled, and what the models leave out

* Windows and macOS variants of the layer: Linux is the reference, and Vulkan
  for the graphics; the D3D12 backend repeats the contracts.
* Memory order: the lock words and the items' states use acquire and release,
  `owner_` of the global region and the queue's `shutdown_` are relaxed; all are
  modelled as sequentially consistent.  What rests on a relaxed load is what
  the thread has stored there itself, or is re-read until it changes.
* Time: due times and timeouts are choices of the environment.
* Third-party code the timer queue rests on (the ring buffer) is modelled as
  far as its number of slots.  The guest spin lock of X_ERWLOCK is taken to
  exclude: its steps run at raised IRQL.
* A guest critical section's event is taken to be the auto-reset event its
  header says; the wait on it is not alertable and has no timeout.  Guest
  threads that are terminated inside a section or lock are left out.
* Alertable waits and user callbacks of `threading_posix`; the recovery of a
  robust mutex whose holder was cancelled.
* Code: the functions of loaded modules (their images do not change), the
  extent of functions, return sites, the debugger, and what a translation makes
  of the bytes it reads.  A `LookupFunction` without a result
  (`cpu/processor.cc:587-590`) ends like the failing scan.  Suspension is
  asynchronous on the host, while a guest that TerminateTitle suspends is taken to
  stand still by FlushCode; one suspended inside a critical section of a lock that
  FlushCode needs is left out.
* Watches: the user-mode views' watches, allocation and protection by the title
  (pages stay committed and writable), the textures' own watches, and the
  materialization that the heap of managed titles asks for
  (`memory.cc:896`).  One block of 64 pages within one unit of
  64 KB is modelled, so a store's range is widened within it.
* Contracts: loss of the device, shutdown, which releases the waiters
  (`vulkan_command_processor.cc:1250-1279`), the budget in bytes (any contract
  may be evicted), scaled resolution (which keeps no contracts,
  `vulkan_command_processor.cc:3171-3173`), spurious returns of the condition.
* Handles: the table of host objects, growing, saving and restoring the table,
  enumeration, references by pointer, the special handles, failing calls
  (`NtCreateSemaphore` with bad counts, `xboxkrnl_threading.cc:848-853`) and calls
  that ask for no handle (683, `xboxkrnl_ob.cc:401`).  The guest's variable is
  written before the call has returned, so other threads use it no later than they
  could.
* `kernel/xthread`'s APCs and suspend count, completion ports, the notification
  listener and the audio worker are small queues over the objects above; of
  these only the suspend counts are known to go wrong (section 6), and none is
  modelled.
* The rest of the program (instruction translation, graphics, decoding, input,
  file system, user interface, system applications, XNA, network services): data
  handling, input and output, or sequences without a second actor; listed in
  PROJECT.json with the reason.  The instruction sequences, shader translators
  and render target caches are most of the code, and their correctness is that
  of each case against the hardware.

## 8. Where the project can grow

In order of use: a module for `kernel/xthread` over PosixThread, in which a
thread whose guest suspend count is 0 runs (it does not, after nested
suspensions); the queues of completion ports and listeners against the semaphore
and event that mirror them, at the maximum; APC lists against the timer's
callback.
