------------------------------ MODULE PosixWait ------------------------------
(***************************************************************************)
(* The waitable objects of base/threading_posix.cc (events, semaphores,    *)
(* mutants) and the waits on them: Wait, WaitMultiple, SignalAndWait.      *)
(*                                                                         *)
(* An object is a count under mutex_ with a condition variable: signal_ of *)
(* an event as 0 or 1, count_ of a semaphore or of a mutant.  A step is a  *)
(* critical section of mutex_; lock records who holds mutex_ only between  *)
(* steps, which WaitMultiple does while it collects the locks of its       *)
(* handles, and a wait for a mutant between its two plain stores, because  *)
(* Release() reads both of them without the lock.                          *)
(***************************************************************************)
EXTENDS Integers, Sequences, Functions

CONSTANTS
    Threads, NoThread,
    ManualEvents, AutoEvents, Semaphores, Mutants,    \* the objects, by kind
    MaxCount,        \* maximum_count of the semaphores
    MaxHold,         \* bound on a mutant's count_, a uint32_t in the code
    HandleLists,     \* the handle lists WaitMultiple is called with
    StrayRelease     \* a thread may call Release() on a mutant it does not own

Objects == ManualEvents \cup AutoEvents \cup Semaphores \cup Mutants
Events  == ManualEvents \cup AutoEvents

ASSUME PosixWaitAssumption == /\ NoThread \notin Threads
                              /\ ManualEvents \cap AutoEvents = {}
                              /\ Semaphores \cap (Events \cup Mutants) = {}
                              /\ Mutants \cap Events = {}
                              /\ MaxCount \in Nat
                              /\ HandleLists \subseteq Seq(Objects)

VARIABLES
    value,       \* signal_ or count_ of each object
    owner,       \* owner_ of each mutant
    lock,        \* who holds mutex_ of each object between two steps
    pc,          \* where each thread stands in an operation
    call,        \* the wait it is in: its handles and parameters
    held         \* caller's side: acquisitions of each mutant less releases

vars == <<value, owner, lock, pc, call, held>>

\* asleep, woken: in cond_.wait, not notified and notified.  trying: collecting
\* locks.  polling: in sleep_for.  owning: after a mutant's count_++.
\* releasing: past the check of Release().  pulsing: before Pulse()'s Reset().
\* andWait: SignalAndWait before its Wait().
Labels == {"idle", "asleep", "woken", "trying", "polling", "owning", "releasing", "pulsing",
           "andWait"}

\* timed: the call has a timeout, which may be over at any moment.  locked: the
\* number of locks collected.  got: the handles that satisfied the wait.
Call(objs, all, timed) == [objs |-> objs, all |-> all, timed |-> timed, locked |-> 0, got |-> {}]
NoCall == Call(<<>>, FALSE, FALSE)

Handles(t) == Range(call[t].objs)
On(t, o)   == call[t].objs = <<o>>         \* t's operation is on the one object o
Free(o)    == lock[o] = NoThread
Goto(t, label)      == pc' = [pc EXCEPT ![t] = label]
UnlockAll(t)        == lock' = [o \in Objects |-> IF lock[o] = t THEN NoThread ELSE lock[o]]
SleepersOn(O)       == {u \in Threads : pc[u] = "asleep" /\ \E o \in O : On(u, o)}
\* t goes to label; notify_all wakes the sleepers of the objects O.
GotoNotify(t, label, O) ==
    pc' = [u \in Threads |-> IF u = t THEN label ELSE IF u \in SleepersOn(O) THEN "woken" ELSE pc[u]]

Signaled(t, o) == IF o \in Mutants THEN value[o] = 0 \/ owner[o] = t ELSE value[o] > 0

\* post_execution of the objects O, up to a mutant's count_++.
Consume(O) == value' = [o \in Objects |-> IF o \in O \cap AutoEvents THEN 0
                                          ELSE IF o \in O \cap Semaphores THEN value[o] - 1
                                          ELSE IF o \in O \cap Mutants THEN value[o] + 1
                                          ELSE value[o]]

-----------------------------------------------------------------------------

\* Objects are created in any state; a mutant's creator may be its owner.
Init == /\ owner \in [Mutants -> Threads \cup {NoThread}]
        /\ value \in [Objects -> 0 .. MaxCount]
        /\ \A e \in Events : value[e] <= 1
        /\ \A m \in Mutants : value[m] = IF owner[m] = NoThread THEN 0 ELSE 1
        /\ held = [t \in Threads |-> [m \in Mutants |-> IF owner[m] = t THEN 1 ELSE 0]]
        /\ lock = [o \in Objects |-> NoThread]
        /\ pc = [t \in Threads |-> "idle"]
        /\ call = [t \in Threads |-> NoCall]

(* Wait on one object. *)

\* The wait of t is satisfied by the objects O, whose locks t holds or takes;
\* without a mutant it returns, with one the owner is still to be stored.
Satisfy(t, O) ==
    /\ Consume(O)
    /\ IF O \cap Mutants = {}
         THEN /\ GotoNotify(t, "idle", O \cap Semaphores)
              /\ call' = [call EXCEPT ![t] = NoCall]
              /\ UnlockAll(t)
         ELSE /\ GotoNotify(t, "owning", O \cap Semaphores)
              /\ call' = [call EXCEPT ![t].got = O]
              /\ lock' = [o \in Objects |-> IF o \in O THEN t ELSE lock[o]]
    /\ UNCHANGED <<owner, held>>

\* Mutant of StoreOwner: only the first acquisition stores the owner.
StoreOwnerOnce(t) ==
    /\ pc[t] = "owning"
    /\ owner' = [m \in Mutants |-> IF m \in call[t].got /\ owner[m] = NoThread THEN t ELSE owner[m]]
    /\ held' = [held EXCEPT ![t] = [m \in Mutants |-> @[m] + IF m \in call[t].got THEN 1 ELSE 0]]
    /\ UnlockAll(t)
    /\ call' = [call EXCEPT ![t] = NoCall]
    /\ Goto(t, "idle")
    /\ UNCHANGED value

\* owner_ = get_id(), and the unlock.
StoreOwner(t) ==
    /\ pc[t] = "owning"
    /\ owner' = [m \in Mutants |-> IF m \in call[t].got THEN t ELSE owner[m]]
    /\ held' = [held EXCEPT ![t] = [m \in Mutants |-> @[m] + IF m \in call[t].got THEN 1 ELSE 0]]
    /\ UnlockAll(t)
    /\ call' = [call EXCEPT ![t] = NoCall]
    /\ Goto(t, "idle")
    /\ UNCHANGED value

FallAsleep(t, c) == /\ Goto(t, "asleep")
                    /\ call' = [call EXCEPT ![t] = c]
                    /\ UNCHANGED <<value, owner, lock, held>>

Wait(t, o, timed) ==
    /\ pc[t] = "idle" /\ Free(o)
    /\ \/ Signaled(t, o) /\ Satisfy(t, {o})
       \/ ~Signaled(t, o) /\ FallAsleep(t, Call(<<o>>, FALSE, timed))

\* cond_.wait is over: the predicate is evaluated again.
Recheck(t, o) ==
    /\ pc[t] = "woken" /\ On(t, o) /\ Free(o)
    /\ \/ Signaled(t, o) /\ Satisfy(t, {o})
       \/ ~Signaled(t, o) /\ FallAsleep(t, call[t])

\* cond_.wait_for times out; it returns what the predicate is then.
TimeOut(t, o) ==
    /\ pc[t] \in {"asleep", "woken"} /\ On(t, o) /\ call[t].timed /\ Free(o)
    /\ \/ Signaled(t, o) /\ Satisfy(t, {o})
       \/ /\ ~Signaled(t, o)
          /\ Goto(t, "idle")
          /\ call' = [call EXCEPT ![t] = NoCall]
          /\ UNCHANGED <<value, owner, lock, held>>

(* WaitMultiple: poll with all locks held. *)

WaitMultiple(t, objs, all, timed) ==
    /\ pc[t] = "idle"
    /\ Goto(t, "trying")
    /\ call' = [call EXCEPT ![t] = Call(objs, all, timed)]
    /\ UNCHANGED <<value, owner, lock, held>>

Unlock(t, label) ==
    /\ UnlockAll(t)
    /\ Goto(t, label)
    /\ call' = [call EXCEPT ![t] = IF label = "idle" THEN NoCall ELSE [@ EXCEPT !.locked = 0]]
    /\ UNCHANGED <<value, owner, held>>

NextHandle(t) == call[t].objs[call[t].locked + 1]
Collect(t, o) == /\ Free(o)
                 /\ lock' = [lock EXCEPT ![o] = t]
                 /\ call' = [call EXCEPT ![t].locked = @ + 1]
                 /\ UNCHANGED <<value, owner, pc, held>>

\* Mutant of TryLock: it waits for the next lock with the others held.
BlockingLock(t) ==
    /\ pc[t] = "trying" /\ call[t].locked < Len(call[t].objs)
    /\ Collect(t, NextHandle(t))

\* pthread_mutex_trylock on the next handle; a failure gives all locks back
\* and starts over at once, without a look at the time.
TryLock(t) ==
    /\ pc[t] = "trying" /\ call[t].locked < Len(call[t].objs)
    /\ \/ Collect(t, NextHandle(t))
       \/ ~Free(NextHandle(t)) /\ Unlock(t, "trying")

Ready(t)        == {o \in Handles(t) : Signaled(t, o)}
ConditionMet(t) == IF call[t].all THEN Ready(t) = Handles(t) ELSE Ready(t) # {}
FirstReady(t)   == LET objs == call[t].objs
                   IN  objs[CHOOSE i \in 1 .. Len(objs) :
                             objs[i] \in Ready(t) /\ \A j \in 1 .. i - 1 : objs[j] \notin Ready(t)]

\* All locks are held: consume, or give them back and sleep 1 ms unless the time is over.
Evaluate(t) ==
    /\ pc[t] = "trying" /\ call[t].locked = Len(call[t].objs)
    /\ \/ ConditionMet(t) /\ Satisfy(t, IF call[t].all THEN Handles(t) ELSE {FirstReady(t)})
       \/ ~ConditionMet(t) /\ Unlock(t, "polling")
       \/ ~ConditionMet(t) /\ call[t].timed /\ Unlock(t, "idle")

PollAgain(t) == pc[t] = "polling" /\ Goto(t, "trying") /\ UNCHANGED <<value, owner, lock, call, held>>

(* Signalling.  then is <<>>, or <<o>> in SignalAndWait with o to wait on. *)

\* The operation of t ends, having notified the waiters of O, or goes on to its Wait().
ThenWait(t, then, O) ==
    /\ GotoNotify(t, IF then = <<>> THEN "idle" ELSE "andWait", O)
    /\ call' = [call EXCEPT ![t] = Call(then, FALSE, FALSE)]

\* The event becomes signaled; notify_all.
Set(t, e, then) == /\ pc[t] = "idle" /\ Free(e)
                   /\ value' = [value EXCEPT ![e] = 1]
                   /\ ThenWait(t, then, {e})
                   /\ UNCHANGED <<owner, lock, held>>

Reset(t, e) == /\ pc[t] = "idle" /\ Free(e)
               /\ value' = [value EXCEPT ![e] = 0]
               /\ UNCHANGED <<owner, lock, pc, call, held>>

\* Pulse() is Set(), a short sleep, and Reset().
Pulse(t, e) == /\ pc[t] = "idle" /\ Free(e)
               /\ value' = [value EXCEPT ![e] = 1]
               /\ GotoNotify(t, "pulsing", {e})
               /\ call' = [call EXCEPT ![t] = Call(<<e>>, FALSE, FALSE)]
               /\ UNCHANGED <<owner, lock, held>>

PulseReset(t, e) == /\ pc[t] = "pulsing" /\ On(t, e) /\ Free(e)
                    /\ value' = [value EXCEPT ![e] = 0]
                    /\ Goto(t, "idle")
                    /\ call' = [call EXCEPT ![t] = NoCall]
                    /\ UNCHANGED <<owner, lock, held>>

\* Mutant of ReleaseSemaphore: one waiter is notified, as with an auto-reset event.
ReleaseNotifiesOne(t, s, n, then) ==
    /\ pc[t] = "idle" /\ Free(s)
    /\ value[s] + n <= MaxCount
    /\ value' = [value EXCEPT ![s] = @ + n]
    /\ \E u \in Threads : /\ SleepersOn({s}) # {} => u \in SleepersOn({s})
                          /\ SleepersOn({s}) = {} => u = t
                          /\ pc' = [pc EXCEPT ![u] = "woken",
                                              ![t] = IF then = <<>> THEN "idle" ELSE "andWait"]
    /\ call' = [call EXCEPT ![t] = Call(then, FALSE, FALSE)]
    /\ UNCHANGED <<owner, lock, held>>

\* Semaphore Release(n), refused when it would exceed the maximum.
ReleaseSemaphore(t, s, n, then) ==
    /\ pc[t] = "idle" /\ Free(s)
    /\ value[s] + n <= MaxCount
    /\ value' = [value EXCEPT ![s] = @ + n]
    /\ ThenWait(t, then, {s})
    /\ UNCHANGED <<owner, lock, held>>

\* Mutant Release(): the ownership check, which does not take mutex_ ...
CheckRelease(t, m, then) ==
    /\ pc[t] = "idle"
    /\ held[t][m] > 0 \/ StrayRelease
    /\ owner[m] = t /\ value[m] > 0
    /\ Goto(t, "releasing")
    /\ call' = [call EXCEPT ![t] = Call(<<m>> \o then, FALSE, FALSE)]
    /\ UNCHANGED <<value, owner, lock, held>>

\* ... and the decrement under it, which wakes the waiters at 0.
ReleaseMutant(t, m) ==
    /\ pc[t] = "releasing" /\ Head(call[t].objs) = m /\ Free(m)
    /\ value' = [value EXCEPT ![m] = @ - 1]
    /\ held' = [held EXCEPT ![t][m] = IF @ > 0 THEN @ - 1 ELSE 0]
    /\ ThenWait(t, Tail(call[t].objs), IF value[m] = 1 THEN {m} ELSE {})
    /\ UNCHANGED <<owner, lock>>

\* SignalAndWait, after the signal: an ordinary Wait(), with or without a timeout.
AndWait(t, o) ==
    /\ pc[t] = "andWait" /\ On(t, o) /\ Free(o)
    /\ \/ Signaled(t, o) /\ Satisfy(t, {o})
       \/ /\ ~Signaled(t, o)
          /\ \E timed \in BOOLEAN : FallAsleep(t, [call[t] EXCEPT !.timed = timed])

-----------------------------------------------------------------------------

\* An operation that was begun goes on ...
Continue(t) == \/ \E o \in Objects : Recheck(t, o) \/ AndWait(t, o)
               \/ StoreOwner(t) \/ TryLock(t) \/ Evaluate(t) \/ PollAgain(t)
               \/ \E e \in Events : PulseReset(t, e)
               \/ \E m \in Mutants : ReleaseMutant(t, m)

\* ... and an idle thread may begin any, or never do anything again: nothing is
\* done about the mutants of a thread that has ended.
Waitable(t)  == {o \in Objects : o \in Mutants => held[t][o] < MaxHold}
WaitLists(t) == {objs \in HandleLists : Range(objs) \subseteq Waitable(t)}
Thens(t)     == {<<>>} \cup {<<o>> : o \in Waitable(t)}
Begin(t) == \/ \E o \in Waitable(t), timed \in BOOLEAN : Wait(t, o, timed)
            \/ \E objs \in WaitLists(t), all \in BOOLEAN, timed \in BOOLEAN :
                  WaitMultiple(t, objs, all, timed)
            \/ \E e \in Events : Reset(t, e) \/ Pulse(t, e)
            \/ \E e \in Events, then \in Thens(t) : Set(t, e, then)
            \/ \E s \in Semaphores, then \in Thens(t) :
                  ReleaseSemaphore(t, s, 1, then) \/ ReleaseSemaphore(t, s, 2, <<>>)
            \/ \E m \in Mutants, then \in Thens(t) : CheckRelease(t, m, then)

Next == \E t \in Threads : \/ Begin(t) \/ Continue(t)
                           \/ \E o \in Objects : TimeOut(t, o)

Spec == Init /\ [][Next]_vars

-----------------------------------------------------------------------------

\* A thread asleep in Wait() on an object that nobody holds the lock of would
\* not be satisfied now: every change that could satisfy it notified it.
NoMissedWakeup ==
    \A t \in Threads, o \in Objects : pc[t] = "asleep" /\ On(t, o) /\ Free(o) => ~Signaled(t, o)

\* A mutant is held by one thread at a time, as often as its count says.
MutantExclusion ==
    \A m \in Mutants : \A t \in Threads :
        held[t][m] > 0 => /\ \A u \in Threads \ {t} : held[u][m] = 0
                          /\ Free(m) => value[m] = held[t][m] /\ owner[m] = t

\* WaitMultiple, "Use try_lock to avoid deadlocks from lock ordering issues": a
\* thread that keeps an object locked, alone or with others, in whatever order it
\* collects them, can always take its next step; it waits for no other thread.
HolderCanProceed == \A o \in Objects : ~Free(o) => ENABLED Continue(lock[o])
=============================================================================
