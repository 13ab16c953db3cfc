----------------------------- MODULE TimerQueue -----------------------------
(***************************************************************************)
(* The timer queue of base/threading_timer_queue.cc: one dispatch thread   *)
(* that runs the callbacks of wait items, any threads that queue and       *)
(* disarm items, and callbacks that do so on the dispatch thread itself.   *)
(*                                                                         *)
(* Due times are left out: which of the waiting items are due, and in what *)
(* order, is the environment's choice.                                     *)
(***************************************************************************)
EXTENDS Naturals, FiniteSets

CONSTANTS
    Items,          \* the TimerQueueWaitItem objects that are ever made
    Recurring,      \* those with an interval
    Callers,        \* threads other than the dispatch thread
    Dispatcher,     \* dispatch_thread_
    None,
    Capacity        \* kWaitCount, the slots of buffer_

ASSUME TimerQueueAssumption == /\ Recurring \subseteq Items
                               /\ Dispatcher \notin Callers
                               /\ None \notin Items
                               /\ Capacity \in Nat \ {0}

VARIABLES
    state_,     \* the State of each item
    place,      \* where the shared_ptr to each item is
    kick,       \* the destructor's item: none, buffered or consumed
    shutdown_,
    dpc,        \* where the dispatch thread stands
    current,    \* the item it has taken from the wait queue
    spin,       \* the item each thread is in Disarm() of, or None
    claiming,   \* the item for which each thread waits in claim_one, or None
    disarmed    \* history: the items that a Disarm() has returned for, but not the
                \* one by which a callback disarms its own item

vars == <<state_, place, kick, shutdown_, dpc, current, spin, claiming, disarmed>>

States == {"kIdle", "kInCallback", "kInCallbackSelfDisarmed", "kDisarmed"}

\* new: not made.  buffer: published in the ring.  queue: in wait_queue_.
\* dispatch: in TimerThreadMain's local variable, or in its local list.
Locations == {"new", "buffer", "queue", "dispatch", "dropped"}

\* test: at the head of the outer loop.  consume: in wait_until_published.  check: at the head of the inner loop.
\* claim: before the compare-exchange.  callback: inside the callback.
\* reload, rearm, retire: after it.
Labels == {"test", "consume", "check", "claim", "callback", "reload", "rearm", "retire", "stopped"}
Busy   == {"claim", "callback", "reload", "rearm", "retire"}

Threads      == Callers \cup {Dispatcher}
HasSlot      == Cardinality({i \in Items : place[i] = "buffer"})
                  + (IF kick = "buffered" THEN 1 ELSE 0) < Capacity
Running(i)   == current = i /\ dpc = "callback"      \* the callback of i is executing
CanRun(t)    == t \in Callers \/ dpc = "callback"    \* t can call into the queue
Calling(t)   == CanRun(t) /\ spin[t] = None /\ claiming[t] = None
Waiting      == {t \in Threads : claiming[t] # None}

-----------------------------------------------------------------------------

Init == /\ state_ = [i \in Items |-> "kIdle"]
        /\ place = [i \in Items |-> "new"]
        /\ kick = "none" /\ shutdown_ = FALSE
        /\ dpc = "test" /\ current = None
        /\ spin = [t \in Threads |-> None] /\ claiming = [t \in Threads |-> None]
        /\ disarmed = {}

(* Any thread, a callback included. *)

\* QueueTimer: claims a slot, or waits for one while the ring is full or earlier
\* claims wait.
QueueTimer(t, i) ==
    /\ Calling(t)
    /\ place[i] = "new" /\ \A u \in Threads : claiming[u] # i
    /\ \/ /\ HasSlot /\ Waiting = {}
          /\ place' = [place EXCEPT ![i] = "buffer"]
          /\ UNCHANGED claiming
       \/ /\ ~HasSlot \/ Waiting # {}
          /\ claiming' = [claiming EXCEPT ![t] = i]
          /\ UNCHANGED place
    /\ UNCHANGED <<state_, kick, shutdown_, dpc, current, spin, disarmed>>

\* The claimed slot is free: the item is stored there and published.
Publish(t) ==
    /\ claiming[t] # None
    /\ HasSlot
    /\ place' = [place EXCEPT ![claiming[t]] = "buffer"]
    /\ claiming' = [claiming EXCEPT ![t] = None]
    /\ UNCHANGED <<state_, kick, shutdown_, dpc, current, spin, disarmed>>

\* Disarm() by the callback of the item itself: mark it and return.
SelfDisarm(i) ==
    /\ Running(i) /\ Calling(Dispatcher)
    /\ state_[i] = "kInCallback"
    /\ state_' = [state_ EXCEPT ![i] = "kInCallbackSelfDisarmed"]
    /\ UNCHANGED <<place, kick, shutdown_, dpc, current, spin, claiming, disarmed>>

\* Any other Disarm(): the loop is entered.  The caller has got the item from
\* its weak_ptr, so it was queued and is not destroyed.  A callback that disarms
\* its own item once more comes here, too.
BeginDisarm(t, i) ==
    /\ Calling(t)
    /\ place[i] \notin {"new", "dropped"}
    /\ t = Dispatcher /\ Running(i) => state_[i] = "kInCallbackSelfDisarmed"
    /\ spin' = [spin EXCEPT ![t] = i]
    /\ UNCHANGED <<state_, place, kick, shutdown_, dpc, current, claiming, disarmed>>

\* Mutant of EndDisarm: kInCallbackSelfDisarmed counts as disarmed.
EndDisarmEarly(t) ==
    LET i == spin[t]
    IN  /\ i # None
        /\ state_[i] # "kInCallback"
        /\ state_' = IF state_[i] = "kIdle" THEN [state_ EXCEPT ![i] = "kDisarmed"] ELSE state_
        /\ spin' = [spin EXCEPT ![t] = None]
        /\ disarmed' = disarmed \cup {i}
        /\ UNCHANGED <<place, kick, shutdown_, dpc, current, claiming>>

\* The compare-exchange of the loop succeeds, or finds the item disarmed; in
\* the other two states it spins on.
EndDisarm(t) ==
    LET i == spin[t]
    IN  /\ i # None
        /\ state_[i] \in {"kIdle", "kDisarmed"}
        /\ state_' = [state_ EXCEPT ![i] = "kDisarmed"]
        /\ spin' = [spin EXCEPT ![t] = None]
        /\ disarmed' = disarmed \cup {i}
        /\ UNCHANGED <<place, kick, shutdown_, dpc, current, claiming>>

(* TimerThreadMain. *)

TestShutdown == /\ dpc = "test"
                /\ dpc' = IF shutdown_ THEN "stopped" ELSE "consume"
                /\ UNCHANGED <<state_, place, kick, shutdown_, current, spin, claiming, disarmed>>

\* It has waited for a publication, or for the first item to be due.
Consume ==
    /\ dpc = "consume"
    /\ kick = "buffered" \/ \E i \in Items : place[i] \in {"buffer", "queue"}
    /\ kick' = IF kick = "buffered" THEN "consumed" ELSE kick
    /\ place' = [i \in Items |-> IF place[i] = "buffer" THEN "queue" ELSE place[i]]
    /\ dpc' = "check"
    /\ UNCHANGED <<state_, shutdown_, current, spin, claiming, disarmed>>

\* The first item of the wait queue is due.
Pop(i) == /\ dpc = "check" /\ place[i] = "queue"
          /\ place' = [place EXCEPT ![i] = "dispatch"]
          /\ current' = i
          /\ dpc' = "claim"
          /\ UNCHANGED <<state_, kick, shutdown_, spin, claiming, disarmed>>

\* None is: the local list of rescheduled items goes back to the wait queue.
NoneDue == /\ dpc = "check"
           /\ place' = [i \in Items |-> IF place[i] = "dispatch" THEN "queue" ELSE place[i]]
           /\ dpc' = "test"
           /\ UNCHANGED <<state_, kick, shutdown_, current, spin, claiming, disarmed>>

\* Only an idle item may be called back; a disarmed one is dropped.
Claim == /\ dpc = "claim"
         /\ \/ /\ state_[current] = "kIdle"
               /\ state_' = [state_ EXCEPT ![current] = "kInCallback"]
               /\ dpc' = "callback"
               /\ UNCHANGED <<place, current>>
            \/ /\ state_[current] # "kIdle"
               /\ place' = [place EXCEPT ![current] = "dropped"]
               /\ dpc' = "check" /\ current' = None
               /\ UNCHANGED state_
         /\ UNCHANGED <<kick, shutdown_, spin, claiming, disarmed>>

CallbackReturns == /\ dpc = "callback" /\ Calling(Dispatcher)
                   /\ dpc' = "reload"
                   /\ UNCHANGED <<state_, place, kick, shutdown_, current, spin, claiming, disarmed>>

\* Mutant of Reload: every recurring item is rescheduled.
ReloadIgnoringDisarm == /\ dpc = "reload"
                        /\ dpc' = IF current \in Recurring THEN "rearm" ELSE "retire"
                        /\ UNCHANGED <<state_, place, kick, shutdown_, current, spin, claiming, disarmed>>

Reload == /\ dpc = "reload"
          /\ dpc' = IF current \in Recurring /\ state_[current] # "kInCallbackSelfDisarmed"
                    THEN "rearm" ELSE "retire"
          /\ UNCHANGED <<state_, place, kick, shutdown_, current, spin, claiming, disarmed>>

\* Mutant of Rearm: the state is left alone.
RearmWithoutStore == /\ dpc = "rearm"
                     /\ current' = None
                     /\ dpc' = "check"
                     /\ UNCHANGED <<state_, place, kick, shutdown_, spin, claiming, disarmed>>

\* The item is stored idle and goes to the local list.
Rearm == /\ dpc = "rearm"
         /\ state_' = [state_ EXCEPT ![current] = "kIdle"]
         /\ current' = None
         /\ dpc' = "check"
         /\ UNCHANGED <<place, kick, shutdown_, spin, claiming, disarmed>>

\* Mutant of Retire: an item that has had its turn is just dropped.
RetireWithoutStore == /\ dpc = "retire"
                      /\ place' = [place EXCEPT ![current] = "dropped"]
                      /\ current' = None
                      /\ dpc' = "check"
                      /\ UNCHANGED <<state_, kick, shutdown_, spin, claiming, disarmed>>

Retire == /\ dpc = "retire"
          /\ state_' = [state_ EXCEPT ![current] = "kDisarmed"]
          /\ place' = [place EXCEPT ![current] = "dropped"]
          /\ current' = None
          /\ dpc' = "check"
          /\ UNCHANGED <<kick, shutdown_, spin, claiming, disarmed>>

(* ~TimerQueue: the flag, and then an item to wake the dispatch thread. *)

SetShutdown == /\ ~shutdown_
               /\ shutdown_' = TRUE
               /\ UNCHANGED <<state_, place, kick, dpc, current, spin, claiming, disarmed>>

\* Mutant of Kick: the item is queued before the flag is stored.
KickEarly == /\ kick = "none" /\ HasSlot
             /\ kick' = "buffered"
             /\ UNCHANGED <<state_, place, shutdown_, dpc, current, spin, claiming, disarmed>>

Kick == /\ shutdown_ /\ kick = "none" /\ HasSlot
        /\ kick' = "buffered"
        /\ UNCHANGED <<state_, place, shutdown_, dpc, current, spin, claiming, disarmed>>

-----------------------------------------------------------------------------

Dispatch == \/ TestShutdown \/ Consume \/ NoneDue \/ \E i \in Items : Pop(i)
            \/ Claim \/ CallbackReturns \/ Reload \/ Rearm \/ Retire

Next == \/ Dispatch
        \/ \E t \in Threads, i \in Items : QueueTimer(t, i) \/ BeginDisarm(t, i)
        \/ \E t \in Threads : EndDisarm(t) \/ Publish(t)
        \/ \E i \in Items : SelfDisarm(i)
        \/ SetShutdown \/ Kick

\* The dispatch thread runs, callbacks return, items become due, and the
\* destructor is at work.  A recurring item is idle for its interval in every
\* round, so a thread that spins sees it idle; and claims are served in turn, so a
\* thread that waits for a slot has one of those that become free: strong fairness.
Fairness == /\ SF_vars(Dispatch)
            /\ SF_vars(Kick)
            /\ \A t \in Threads : SF_vars(EndDisarm(t) \/ Publish(t))

Spec     == Init /\ [][Next]_vars
FairSpec == Spec /\ Fairness

-----------------------------------------------------------------------------

\* Ranges of the variables; the dispatch thread has an item while it works on one.
TypeOK == /\ state_ \in [Items -> States]
          /\ place \in [Items -> Locations]
          /\ kick \in {"none", "buffered", "consumed"}
          /\ shutdown_ \in BOOLEAN
          /\ dpc \in Labels
          /\ current \in Items \cup {None}
          /\ current # None <=> dpc \in Busy
          /\ spin \in [Threads -> Items \cup {None}]
          /\ claiming \in [Threads -> Items \cup {None}]
          /\ disarmed \subseteq Items

\* "No callbacks will be running after this call": once a Disarm() of an item has
\* returned, no callback of it executes, now or later.
DisarmGuarantee == \A i \in disarmed : ~Running(i)

\* A callback that has disarmed its own item is the last one of the item.
SelfDisarmIsFinal ==
    [][\A i \in Items : state_[i] = "kInCallbackSelfDisarmed"
           => state_'[i] \in {"kInCallbackSelfDisarmed", "kDisarmed"}]_vars

\* The assertion of TimerThreadMain, "Specifically, kInCallback is illegal here":
\* an item is never taken for dispatch while a callback of it is under way.
OneCallbackAtATime == dpc = "claim" => state_[current] \in {"kIdle", "kDisarmed"}

\* The two ways in which a callback stops the dispatch thread, and with it the
\* queue, for ever: it disarms its own item again, and waits for itself to finish;
\* or it queues an item while the ring is full, which only the dispatch thread
\* empties.
WaitsForItself == spin[Dispatcher] # None /\ Running(spin[Dispatcher])
WaitsForSlot   == claiming[Dispatcher] # None /\ ~HasSlot
Hung           == WaitsForItself \/ WaitsForSlot

\* The dispatch thread has ended with the ring full: nobody makes room any more.
Closed == dpc = "stopped" /\ ~HasSlot

\* Disarm() "returns only after the callback has finished", whatever state the item
\* was caught in, and so does QueueTimer() when the ring is full: but for the two
\* ways above, and for a claim that is left over when the dispatch thread has ended.
CallsReturn ==
    \A t \in Threads :
        spin[t] # None \/ claiming[t] # None
            ~> \/ spin[t] = None /\ claiming[t] = None
               \/ Hung
               \/ claiming[t] # None /\ Closed

\* The destructor queues its item and joins the dispatch thread, unless that hangs, or
\* has seen the flag and ended before there was a slot for the item.
ShutdownEnds == shutdown_ ~> (dpc = "stopped" /\ kick # "none") \/ Closed \/ Hung
=============================================================================
