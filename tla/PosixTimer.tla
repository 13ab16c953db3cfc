----------------------------- MODULE PosixTimer -----------------------------
(***************************************************************************)
(* One timer of base/threading_posix.cc on the timer queue: SetOnce and    *)
(* SetRepeating, Cancel, the CompletionRoutine that the queue calls on its *)
(* dispatch thread, and Wait; with the timer_lock_ of kernel/xtimer.cc.    *)
(*                                                                         *)
(* Every activation makes a wait item of its own, so an item also stands   *)
(* for the callback it was set with.  The steps on the items are those of  *)
(* TimerQueue.                                                             *)
(***************************************************************************)
EXTENDS TimerQueue

CONSTANTS
    Manual          \* manual_reset_

ASSUME PosixTimerAssumption == Manual \in BOOLEAN

VARIABLES
    xtimer,         \* the timer is an XTimer's, which calls it under its timer_lock_, and
                    \* with callbacks that do not set or cancel the timer
    wait_item_,     \* the item of the last activation, a weak_ptr
    callback_,      \* the callback of the last activation
    signal_,
    mutex_,         \* the thread that holds it between two steps, or None
    op, pc,         \* each thread's operation, "set" or "cancel", and where it stands
    arming,         \* the item a thread in "arm" has made
    routine,        \* where CompletionRoutine stands
    called,         \* the callback it calls
    signaler,       \* history: the item that has signaled it, None if it is not signaled
    stopped         \* history: "yes" after a Cancel() that overlapped no other operation

timerVars == <<xtimer, wait_item_, callback_, signal_, mutex_>>
callVars  == <<op, pc, arming>>
allVars   == <<vars, timerVars, callVars, routine, called, signaler, stopped>>

TimerInit ==
    /\ Init
    /\ xtimer \in BOOLEAN
    /\ wait_item_ = None /\ callback_ = None /\ signal_ = FALSE /\ mutex_ = None
    /\ op = [t \in Threads |-> "none"] /\ pc = [t \in Threads |-> "idle"]
    /\ arming = [t \in Threads |-> None]
    /\ routine = "none" /\ called = None /\ signaler = None
    /\ stopped = "no"

Others(t) == {u \in Threads \ {t} : pc[u] # "idle"}
Unmade    == {i \in Items : place[i] = "new" /\ \A t \in Threads : arming[t] # i}
\* One of each kind, with an interval and without: items of a kind are alike.
NewItems  == {CHOOSE i \in kind : TRUE : kind \in {Unmade \cap Recurring, Unmade \ Recurring} \ {{}}}
\* The instance has an item left for one more activation.
ItemLeft  == Cardinality({u \in Threads : op[u] = "set" /\ pc[u] \in {"cancel", "disarming", "lock"}})
                < Cardinality(Unmade)
Goto(t, label) == pc' = [pc EXCEPT ![t] = label]

\* t has no more to do in its operation.
Return(t) == /\ Goto(t, "idle")
             /\ op' = [op EXCEPT ![t] = "none"]

\* A Cancel() is over, by itself or at the start of an activation.
Cancelled(t) ==
    /\ \/ op[t] = "set" /\ Goto(t, "lock") /\ UNCHANGED op
       \/ op[t] = "cancel" /\ Return(t)
    /\ stopped' = IF op[t] = "cancel" /\ stopped = "cancelling" THEN "yes" ELSE stopped

-----------------------------------------------------------------------------

\* Mutant of Begin: XTimer without timer_lock_.
BeginUnlocked(t, o) ==
    /\ pc[t] = "idle" /\ (o = "set" => ItemLeft)
    /\ t = Dispatcher => ~xtimer /\ routine = "call"
    /\ op' = [op EXCEPT ![t] = o]
    /\ Goto(t, "cancel")
    /\ stopped' = IF o = "cancel" /\ t # Dispatcher /\ Others(t) = {} THEN "cancelling" ELSE "no"
    /\ UNCHANGED <<vars, timerVars, arming, routine, called, signaler>>

\* SetOnce, SetRepeating or Cancel is called, by a callback as often as it likes.
Begin(t, o) ==
    /\ pc[t] = "idle" /\ (o = "set" => ItemLeft)
    /\ xtimer => Others(t) = {}
    /\ t = Dispatcher => ~xtimer /\ routine = "call"
    /\ op' = [op EXCEPT ![t] = o]
    /\ Goto(t, "cancel")
    /\ stopped' = IF o = "cancel" /\ t # Dispatcher /\ Others(t) = {} THEN "cancelling" ELSE "no"
    /\ UNCHANGED <<vars, timerVars, arming, routine, called, signaler>>

Expired == IF wait_item_ = None THEN TRUE ELSE place[wait_item_] = "dropped"

\* Mutant of Cancel: the item is disarmed without waiting for its callback.
CancelAtOnce(t) ==
    /\ pc[t] = "cancel"
    /\ Cancelled(t)
    /\ IF ~Expired /\ state_[wait_item_] = "kIdle"
          THEN state_' = [state_ EXCEPT ![wait_item_] = "kDisarmed"] ELSE UNCHANGED state_
    /\ UNCHANGED <<place, kick, shutdown_, dpc, current, spin, claiming, disarmed, timerVars, arming,
                   routine, called, signaler>>

\* Cancel(): the item, if there still is one, is disarmed.
Cancel(t) ==
    /\ pc[t] = "cancel"
    /\ \/ /\ Expired
          /\ Cancelled(t)
          /\ UNCHANGED vars
       \/ /\ ~Expired /\ t = Dispatcher
          /\ SelfDisarm(wait_item_)
          /\ Cancelled(t)
       \/ /\ ~Expired
          /\ BeginDisarm(t, wait_item_)
          /\ Goto(t, "disarming") /\ UNCHANGED <<op, stopped>>
    /\ UNCHANGED <<timerVars, arming, routine, called, signaler>>

DisarmReturn(t) == /\ pc[t] = "disarming"
                   /\ EndDisarm(t)
                   /\ Cancelled(t)
                   /\ UNCHANGED <<timerVars, arming, routine, called, signaler>>

\* The activation: under mutex_, the callback is stored and the signal reset ...
ArmLock(t, i) ==
    /\ pc[t] = "lock" /\ mutex_ = None
    /\ i \in NewItems
    /\ mutex_' = t
    /\ callback_' = i
    /\ signal_' = FALSE /\ signaler' = None
    /\ arming' = [arming EXCEPT ![t] = i]
    /\ Goto(t, "arm")
    /\ UNCHANGED <<vars, xtimer, wait_item_, op, routine, called, stopped>>

\* ... and the item is queued, still under mutex_, and when there is a slot for it ...
Queued(t) == /\ wait_item_' = arming[t]
             /\ mutex_' = None
             /\ arming' = [arming EXCEPT ![t] = None]
             /\ Return(t)
             /\ UNCHANGED <<xtimer, callback_, signal_>>

ArmQueue(t) ==
    /\ pc[t] = "arm"
    /\ QueueTimer(t, arming[t])
    /\ \/ claiming'[t] = None /\ Queued(t)
       \/ claiming'[t] # None /\ UNCHANGED <<timerVars, callVars>>
    /\ UNCHANGED <<routine, called, signaler, stopped>>

\* ... or after it has waited for one.
ArmPublish(t) ==
    /\ pc[t] = "arm"
    /\ Publish(t)
    /\ Queued(t)
    /\ UNCHANGED <<routine, called, signaler, stopped>>

(* The dispatch thread and CompletionRoutine. *)

ClaimItem == /\ Claim
             /\ routine' = IF dpc' = "callback" THEN "signal" ELSE "none"
             /\ UNCHANGED <<timerVars, callVars, called, signaler, stopped>>

\* Signal(): under mutex_; the waiters are notified.
RoutineSignal == /\ routine = "signal" /\ mutex_ = None
                 /\ signal_' = TRUE
                 /\ signaler' = current
                 /\ routine' = "read"
                 /\ UNCHANGED <<vars, xtimer, wait_item_, callback_, mutex_, callVars, called, stopped>>

\* Mutant of RoutineRead: the callback is called with mutex_ held.
RoutineReadLocked == /\ routine = "read" /\ mutex_ = None
                     /\ called' = callback_
                     /\ mutex_' = Dispatcher
                     /\ routine' = "call"
                     /\ UNCHANGED <<vars, xtimer, wait_item_, callback_, signal_, callVars, signaler, stopped>>

\* The callback is copied under mutex_, and called without.
RoutineRead == /\ routine = "read" /\ mutex_ = None
               /\ called' = callback_
               /\ routine' = "call"
               /\ UNCHANGED <<vars, timerVars, callVars, signaler, stopped>>

RoutineReturn == /\ routine = "call" /\ pc[Dispatcher] = "idle"
                 /\ CallbackReturns
                 /\ routine' = "none" /\ called' = None
                 /\ UNCHANGED <<timerVars, callVars, signaler, stopped>>

OtherDispatch == /\ TestShutdown \/ Consume \/ NoneDue \/ Reload \/ Rearm \/ Retire
                    \/ \E i \in Items : Pop(i)
                 /\ UNCHANGED <<timerVars, callVars, routine, called, signaler, stopped>>

\* A Wait() that is satisfied: post_execution resets a synchronization timer.
Wait == /\ signal_ /\ mutex_ = None
        /\ signal_' = Manual
        /\ signaler' = IF Manual THEN signaler ELSE None
        /\ UNCHANGED <<vars, xtimer, wait_item_, callback_, mutex_, callVars, routine, called, stopped>>

-----------------------------------------------------------------------------

DispatchStep == ClaimItem \/ RoutineSignal \/ RoutineRead \/ RoutineReturn \/ OtherDispatch
Proceed(t)   == \/ Cancel(t) \/ DisarmReturn(t) \/ ArmQueue(t) \/ ArmPublish(t)
                \/ \E i \in Items : ArmLock(t, i)

TimerNext == \/ \E t \in Threads : \E o \in {"set", "cancel"} : Begin(t, o)
             \/ \E t \in Threads : Proceed(t)
             \/ DispatchStep \/ Wait

\* The dispatch thread and a caller inside an operation run on, a callback makes
\* finitely many calls, and a thread gets mutex_, or a slot, or sees an item idle,
\* that is so again and again.
TimerFairness == /\ SF_allVars(DispatchStep)
                 /\ \A t \in Threads : SF_allVars(Proceed(t))

TimerSpec     == TimerInit /\ [][TimerNext]_allVars
FairTimerSpec == TimerSpec /\ TimerFairness

-----------------------------------------------------------------------------

\* XTimer's cancellation keeps the whole promise: the CompletionRoutine is not
\* executing at all.
CancelStops == xtimer /\ stopped = "yes" => routine = "none"

\* "Remains signaled until SetOnce() or SetRepeating() is called": the timer is
\* signaled by its last activation, never by an earlier one, and a completion calls
\* the callback that was set for it.  For an XTimer.
NoStaleSignal ==
    xtimer => /\ signal_ => signaler = callback_
              /\ routine = "call" => called = current

\* The dispatch thread wants mutex_, for the completion or for a callback that sets the
\* timer, and who has it waits for the dispatch thread to empty the ring.
WantsMutex == routine \in {"signal", "read"} \/ pc[Dispatcher] = "lock"
RingCircle == /\ WantsMutex
              /\ mutex_ # None
              /\ claiming[mutex_] # None /\ ~HasSlot

\* SetOnce, SetRepeating and Cancel of an XTimer return, whatever the dispatch thread
\* is doing.  So they do of a timer that is called without its lock, and by its own
\* callback, but for the two hangs of the queue and the circle above.
OperationsReturn ==
    \A t \in Threads : pc[t] # "idle" ~> pc[t] = "idle" \/ (~xtimer /\ (Hung \/ RingCircle))
=============================================================================
