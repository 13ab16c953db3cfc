---------------------------- MODULE TimerProofs -----------------------------
(***************************************************************************)
(* The guarantee of TimerQueueWaitItem::Disarm(), for every set of items,  *)
(* every set of threads and every size of the ring buffer; and what a      *)
(* timer makes of it.                                                      *)
(*                                                                         *)
(* DisarmGuarantee speaks of the dispatch thread's program counter and is  *)
(* not inductive.  QueueInv ties that counter to the item's state: a       *)
(* callback executes only under kInCallback or kInCallbackSelfDisarmed, no *)
(* item but the current one is in these states, and an item that a         *)
(* Disarm() has returned for is kDisarmed and stays so.                    *)
(*                                                                         *)
(* Every step of a timer is a step of the queue or leaves the queue alone  *)
(* (UsesQueue), so QueueInv holds of the queue under a timer as well.      *)
(* XTimerInv adds, for a timer of kernel/xtimer.cc, that all of its items  *)
(* but the last are disarmed, and the last one too from the moment a       *)
(* cancellation is over until the next item is queued.                     *)
(***************************************************************************)
EXTENDS PosixTimer, TLAPS

InCallback == {"kInCallback", "kInCallbackSelfDisarmed"}

\* What the state of the current item is at each label of the dispatch thread.
CurrentPhase == /\ dpc = "claim" => state_[current] \in {"kIdle", "kDisarmed"}
                /\ dpc \in {"callback", "reload", "retire"} => state_[current] \in InCallback
                /\ dpc = "rearm" => state_[current] = "kInCallback"

OnlyCurrent  == \A i \in Items : state_[i] \in InCallback => i = current
DisarmedStay == \A i \in disarmed : state_[i] = "kDisarmed"

QueueInv == TypeOK /\ CurrentPhase /\ OnlyCurrent /\ DisarmedStay

\* One step of the dispatch thread or of a caller keeps QueueInv.
LEMMA QueueStep ==
    ASSUME QueueInv, [Next]_vars
    PROVE  QueueInv'
<1> USE TimerQueueAssumption
    DEF QueueInv, TypeOK, CurrentPhase, OnlyCurrent, DisarmedStay, InCallback,
        States, Locations, Labels, Busy, Threads, Running, CanRun, Calling
<1>1. ASSUME NEW t \in Threads, NEW i \in Items, QueueTimer(t, i)
      PROVE  QueueInv'
  BY <1>1 DEF QueueTimer
<1>2. ASSUME NEW t \in Threads, NEW i \in Items, BeginDisarm(t, i)
      PROVE  QueueInv'
  BY <1>2 DEF BeginDisarm
<1>3. ASSUME NEW t \in Threads, EndDisarm(t)
      PROVE  QueueInv'
  BY <1>3 DEF EndDisarm
<1>4. ASSUME NEW i \in Items, SelfDisarm(i)
      PROVE  QueueInv'
  BY <1>4 DEF SelfDisarm
<1>5. CASE TestShutdown
  BY <1>5 DEF TestShutdown
<1>6. CASE Consume
  BY <1>6 DEF Consume
<1>7. CASE NoneDue
  BY <1>7 DEF NoneDue
<1>8. ASSUME NEW i \in Items, Pop(i)
      PROVE  QueueInv'
  BY <1>8 DEF Pop
<1>9. CASE Claim
  BY <1>9 DEF Claim
<1>10. CASE CallbackReturns
  BY <1>10 DEF CallbackReturns
<1>11. CASE Reload
  BY <1>11 DEF Reload
<1>12. CASE Rearm
  BY <1>12 DEF Rearm
<1>13. CASE Retire
  BY <1>13 DEF Retire
<1>14. CASE SetShutdown
  BY <1>14 DEF SetShutdown
<1>15. CASE Kick
  BY <1>15 DEF Kick
<1>16. ASSUME NEW t \in Threads, Publish(t)
       PROVE  QueueInv'
  BY <1>16 DEF Publish
<1>17. CASE UNCHANGED vars
  BY <1>17 DEF vars
<1>18. QED
  BY <1>1, <1>2, <1>3, <1>4, <1>5, <1>6, <1>7, <1>8, <1>9, <1>10, <1>11, <1>12, <1>13,
     <1>14, <1>15, <1>16, <1>17 DEF Next, Dispatch

LEMMA QueueInit == Init => QueueInv
BY TimerQueueAssumption
   DEF Init, QueueInv, TypeOK, CurrentPhase, OnlyCurrent, DisarmedStay, InCallback, States,
       Locations, Labels, Busy

\* QueueInv is an invariant of the timer queue.
THEOREM QueueInvariance == Spec => []QueueInv
<1>1. Init => QueueInv
  BY QueueInit
<1>2. QueueInv /\ [Next]_vars => QueueInv'
  BY QueueStep
<1>3. QED
  BY <1>1, <1>2, PTL DEF Spec

\* threading_timer_queue.h, Disarm(): once it has returned, no callback of the item
\* is executing, and none ever will.
THEOREM DisarmGuaranteeHolds == Spec => []DisarmGuarantee
<1>1. QueueInv => DisarmGuarantee
  BY TimerQueueAssumption
     DEF QueueInv, TypeOK, CurrentPhase, DisarmedStay, DisarmGuarantee, Running, InCallback, Busy
<1>2. QED
  BY <1>1, QueueInvariance, PTL

\* The assertion of TimerThreadMain holds: no item is taken twice.
THEOREM OneCallbackHolds == Spec => []OneCallbackAtATime
<1>1. QueueInv => OneCallbackAtATime
  BY DEF QueueInv, CurrentPhase, OneCallbackAtATime
<1>2. QED
  BY <1>1, QueueInvariance, PTL

\* The variables stay within their ranges.
THEOREM TypeCorrectness == Spec => []TypeOK
<1>1. QueueInv => TypeOK
  BY DEF QueueInv
<1>2. QED
  BY <1>1, QueueInvariance, PTL

\* A callback that disarms its own item is the item's last: from
\* kInCallbackSelfDisarmed the only way leads to kDisarmed.
THEOREM SelfDisarmFinalHolds == Spec => SelfDisarmIsFinal
<1> DEFINE Final == \A i \in Items : state_[i] = "kInCallbackSelfDisarmed"
                       => state_'[i] \in {"kInCallbackSelfDisarmed", "kDisarmed"}
<1>1. ASSUME QueueInv, Next
      PROVE  Final
  <2> USE <1>1, TimerQueueAssumption
      DEF QueueInv, TypeOK, CurrentPhase, OnlyCurrent, InCallback, States, Busy
  <2>1. CASE Dispatch
    <3>1. CASE Claim
      BY <3>1 DEF Claim
    <3>2. CASE Rearm
      BY <3>2 DEF Rearm
    <3>3. CASE Retire
      BY <3>3 DEF Retire
    <3>4. CASE UNCHANGED state_
      BY <3>4
    <3>5. QED
      BY <2>1, <3>1, <3>2, <3>3, <3>4
         DEF Dispatch, TestShutdown, Consume, NoneDue, Pop, CallbackReturns, Reload
  <2>2. CASE \E t \in Threads : EndDisarm(t)
    BY <2>2 DEF EndDisarm
  <2>3. CASE \E i \in Items : SelfDisarm(i)
    BY <2>3 DEF SelfDisarm
  <2>4. CASE UNCHANGED state_
    BY <2>4
  <2>5. QED
    BY <2>1, <2>2, <2>3, <2>4 DEF Next, QueueTimer, Publish, BeginDisarm, SetShutdown, Kick
<1>2. QueueInv /\ [Next]_vars => [Final]_vars
  BY <1>1
<1>3. QED
  BY <1>2, QueueInvariance, PTL DEF Spec, SelfDisarmIsFinal

\* What becomes of an item: it is idle until it is queued and disarmed when it is
\* dropped; the dispatch thread and Disarm() work on items that were queued, and a
\* thread that waits for a slot waits with an item of its own.
ItemInv == /\ \A i \in Items : /\ place[i] = "new" => state_[i] = "kIdle"
                               /\ place[i] = "dropped" => state_[i] = "kDisarmed"
           /\ current # None => place[current] = "dispatch"
           /\ \A t \in Threads : /\ spin[t] # None => place[spin[t]] # "new"
                                 /\ claiming[t] # None => place[claiming[t]] = "new"
           /\ \A t, u \in Threads : claiming[t] # None /\ claiming[t] = claiming[u] => t = u

LEMMA ItemInit == Init => ItemInv
BY DEF Init, ItemInv

\* One step of the queue keeps ItemInv.
LEMMA ItemStep ==
    ASSUME QueueInv, ItemInv, [Next]_vars
    PROVE  ItemInv'
<1> USE TimerQueueAssumption
    DEF QueueInv, ItemInv, TypeOK, CurrentPhase, OnlyCurrent, InCallback, States, Locations, Busy
<1>1. ASSUME NEW t \in Threads, NEW i \in Items, QueueTimer(t, i)
      PROVE  ItemInv'
  BY <1>1 DEF QueueTimer
<1>2. ASSUME NEW t \in Threads, NEW i \in Items, BeginDisarm(t, i)
      PROVE  ItemInv'
  BY <1>2 DEF BeginDisarm
<1>3. ASSUME NEW t \in Threads, EndDisarm(t)
      PROVE  ItemInv'
  BY <1>3 DEF EndDisarm
<1>4. ASSUME NEW i \in Items, SelfDisarm(i)
      PROVE  ItemInv'
  BY <1>4 DEF SelfDisarm, Running
<1>5. CASE Consume
  BY <1>5 DEF Consume
<1>6. CASE NoneDue
  BY <1>6 DEF NoneDue
<1>7. ASSUME NEW i \in Items, Pop(i)
      PROVE  ItemInv'
  BY <1>7 DEF Pop
<1>8. CASE Claim
  BY <1>8 DEF Claim
<1>9. CASE Rearm
  BY <1>9 DEF Rearm
<1>10. CASE Retire
  BY <1>10 DEF Retire
<1>11. CASE UNCHANGED <<state_, place, current, spin, claiming>>
  BY <1>11
<1>12. ASSUME NEW t \in Threads, Publish(t)
       PROVE  ItemInv'
  BY <1>12 DEF Publish
<1>13. QED
  BY <1>1, <1>2, <1>3, <1>4, <1>5, <1>6, <1>7, <1>8, <1>9, <1>10, <1>11, <1>12
     DEF Next, Dispatch, TestShutdown, CallbackReturns, Reload, SetShutdown, Kick, vars

\* ItemInv is an invariant of the timer queue.
LEMMA ItemInvariance == Spec => []ItemInv
<1>1. QueueInv /\ ItemInv /\ [Next]_vars => ItemInv'
  BY ItemStep
<1>2. QED
  BY <1>1, ItemInit, QueueInvariance, PTL DEF Spec

(* Each item, seen by the code that has queued it. *)

\* No other call of the item will begin: it is disarmed, by its own callback or
\* another, or it is executing the only call it has.
Final(i) == \/ state_[i] \in {"kInCallbackSelfDisarmed", "kDisarmed"}
            \/ state_[i] = "kInCallback" /\ i \notin Recurring

Item(i) == INSTANCE WaitItem
               WITH recurring <- i \in Recurring, calling <- Running(i), final <- Final(i)

\* Where the dispatch thread goes after a callback.
LoopInv == /\ dpc = "rearm" => current \in Recurring
           /\ dpc = "retire" => Final(current)

LEMMA LoopStep ==
    ASSUME QueueInv, LoopInv, [Next]_vars
    PROVE  LoopInv'
<1> USE TimerQueueAssumption
    DEF QueueInv, LoopInv, Final, TypeOK, CurrentPhase, InCallback, Busy
<1>1. ASSUME NEW t \in Threads, EndDisarm(t)
      PROVE  LoopInv'
  BY <1>1 DEF EndDisarm
<1>2. ASSUME NEW i \in Items, SelfDisarm(i)
      PROVE  LoopInv'
  BY <1>2 DEF SelfDisarm, Running
<1>3. CASE Reload
  BY <1>3 DEF Reload
<1>4. CASE UNCHANGED <<state_, dpc, current>>
  BY <1>4
<1>5. CASE dpc' \notin {"rearm", "retire"}
  BY <1>5
<1>6. QED
  BY <1>1, <1>2, <1>3, <1>4, <1>5
     DEF Next, Dispatch, TestShutdown, Consume, NoneDue, Pop, Claim, CallbackReturns, Rearm,
         Retire, QueueTimer, Publish, BeginDisarm, SetShutdown, Kick, vars

LEMMA LoopInvariance == Spec => []LoopInv
<1>1. Init => LoopInv
  BY DEF Init, LoopInv
<1>2. QueueInv /\ LoopInv /\ [Next]_vars => LoopInv'
  BY LoopStep
<1>3. QED
  BY <1>1, <1>2, QueueInvariance, PTL DEF Spec

\* Every step of the queue is one of the item's, or nothing to it.
LEMMA ItemIsWaitItem ==
    ASSUME QueueInv, LoopInv, [Next]_vars, NEW i \in Items
    PROVE  [Item(i)!Next]_(Item(i)!itemVars)
<1> DEFINE Goal == [Item(i)!Next]_(Item(i)!itemVars)
<1> USE TimerQueueAssumption
    DEF QueueInv, TypeOK, CurrentPhase, OnlyCurrent, InCallback, States, Busy, Running, Final,
        Item!itemVars
<1>1. ASSUME NEW t \in Threads, EndDisarm(t)
      PROVE  Goal
  <2>1. CASE spin[t] = i
    BY <1>1, <2>1 DEF EndDisarm, Item!Next, Item!Disarm
  <2>2. CASE spin[t] # i
    BY <1>1, <2>2 DEF EndDisarm
  <2>3. QED
    BY <2>1, <2>2
<1>2. ASSUME NEW j \in Items, SelfDisarm(j)
      PROVE  Goal
  <2>1. CASE j = i
    BY <1>2, <2>1 DEF SelfDisarm, Item!Next, Item!SelfDisarm
  <2>2. CASE j # i
    BY <1>2, <2>2 DEF SelfDisarm
  <2>3. QED
    BY <2>1, <2>2
<1>3. CASE Claim
  <2>1. CASE current = i /\ state_[i] = "kIdle"
    BY <1>3, <2>1 DEF Claim, Item!Next, Item!Call
  <2>2. CASE ~(current = i /\ state_[i] = "kIdle")
    BY <1>3, <2>2 DEF Claim
  <2>3. QED
    BY <2>1, <2>2
<1>4. CASE CallbackReturns
  BY <1>4 DEF CallbackReturns, Item!Next, Item!Return
<1>5. CASE Rearm
  BY <1>5 DEF Rearm, LoopInv
<1>6. CASE Retire
  BY <1>6 DEF Retire, LoopInv
<1>7. CASE UNCHANGED state_ /\ dpc # "callback" /\ dpc' # "callback"
  BY <1>7
<1>8. CASE UNCHANGED <<state_, dpc, current>>
  BY <1>8
<1>9. QED
  BY <1>1, <1>2, <1>3, <1>4, <1>5, <1>6, <1>7, <1>8
     DEF Next, Dispatch, TestShutdown, Consume, NoneDue, Pop, Reload, QueueTimer, Publish,
         BeginDisarm, SetShutdown, Kick, vars

\* Every item keeps the promise of the header: one call at a time; a single one
\* without an interval; and none that begins after a Disarm() has returned, after the
\* callback has disarmed its own item, or after the only call.
THEOREM ImplementsWaitItem == ASSUME NEW i \in Items PROVE Spec => Item(i)!Spec
<1>1. Init => Item(i)!Init
  <2> SUFFICES ASSUME Init PROVE Running(i) = FALSE /\ Final(i) = FALSE
    BY DEF Item!Init
  <2>1. QED
    BY DEF Init, Running, Final
<1>2. QueueInv /\ LoopInv /\ [Next]_vars => [Item(i)!Next]_(Item(i)!itemVars)
  BY ItemIsWaitItem
<1>3. QED
  BY <1>1, <1>2, QueueInvariance, LoopInvariance, PTL DEF Spec, Item!Spec

(* Who waits for whom. *)

\* The dispatch thread calls into the queue only from a callback.
CallsFromCallback ==
    spin[Dispatcher] # None \/ claiming[Dispatcher] # None => dpc = "callback"

LEMMA CallsFromCallbackStep ==
    ASSUME QueueInv, CallsFromCallback, [Next]_vars
    PROVE  CallsFromCallback'
<1> USE TimerQueueAssumption DEF QueueInv, TypeOK, CallsFromCallback, Threads, Busy, Calling, CanRun
<1>1. ASSUME NEW t \in Threads, NEW i \in Items, BeginDisarm(t, i) \/ QueueTimer(t, i)
      PROVE  CallsFromCallback'
  BY <1>1 DEF BeginDisarm, QueueTimer
<1>2. ASSUME NEW t \in Threads, EndDisarm(t) \/ Publish(t)
      PROVE  CallsFromCallback'
  BY <1>2 DEF EndDisarm, Publish
<1>3. CASE UNCHANGED <<spin, claiming, dpc>>
  BY <1>3
<1>4. CASE UNCHANGED <<spin, claiming>> /\ dpc # "callback"
  BY <1>4
<1>5. CASE CallbackReturns
  BY <1>5 DEF CallbackReturns
<1>6. QED
  BY <1>1, <1>2, <1>3, <1>4, <1>5
     DEF Next, Dispatch, TestShutdown, Consume, NoneDue, Pop, Claim, Reload, Rearm, Retire,
         SelfDisarm, SetShutdown, Kick, vars

LEMMA CallsFromCallbackInvariance == Spec => []CallsFromCallback
<1>1. Init => CallsFromCallback
  BY DEF Init, CallsFromCallback, Threads
<1>2. QueueInv /\ CallsFromCallback /\ [Next]_vars => CallsFromCallback'
  BY CallsFromCallbackStep
<1>3. QED
  BY <1>1, <1>2, QueueInvariance, PTL DEF Spec

\* A Disarm() that cannot return yet waits for the item that the dispatch thread has in
\* hand.  Unless that hangs, it is another thread's Disarm(), and a call that the
\* callback has made into the queue meanwhile is one that can return.
WaitsForDispatch ==
    \A t \in Threads : spin[t] # None /\ state_[spin[t]] \in InCallback =>
        /\ current = spin[t]
        /\ dpc \in {"callback", "reload", "rearm", "retire"}
        /\ ~Hung => /\ t # Dispatcher
                    /\ spin[Dispatcher] # None => state_[spin[Dispatcher]] \in {"kIdle", "kDisarmed"}
                    /\ claiming[Dispatcher] # None => HasSlot

\* No circle of calls waits but those that Hung tells of: the safety part of
\* CallsReturn.
THEOREM WaitsForDispatchHolds == Spec => []WaitsForDispatch
<1>1. QueueInv /\ CallsFromCallback => WaitsForDispatch
  <2> SUFFICES ASSUME QueueInv, CallsFromCallback, NEW t \in Threads,
                      spin[t] # None, state_[spin[t]] \in InCallback
               PROVE  /\ current = spin[t]
                      /\ dpc \in {"callback", "reload", "rearm", "retire"}
                      /\ ~Hung =>
                           /\ t # Dispatcher
                           /\ spin[Dispatcher] # None
                                => state_[spin[Dispatcher]] \in {"kIdle", "kDisarmed"}
                           /\ claiming[Dispatcher] # None => HasSlot
    BY DEF WaitsForDispatch
  <2> USE TimerQueueAssumption DEF QueueInv, TypeOK, Threads
  <2>1. spin[t] \in Items /\ current = spin[t]
    BY DEF OnlyCurrent
  <2>2. dpc \in {"callback", "reload", "rearm", "retire"}
    BY <2>1 DEF CurrentPhase, Busy, InCallback
  <2>3. ASSUME ~Hung, spin[Dispatcher] # None
        PROVE  spin[Dispatcher] \in Items /\ current # spin[Dispatcher]
    BY <2>3 DEF Hung, WaitsForItself, Running, CallsFromCallback
  <2>4. ASSUME ~Hung, spin[Dispatcher] # None
        PROVE  state_[spin[Dispatcher]] \in {"kIdle", "kDisarmed"}
    BY <2>3, <2>4 DEF OnlyCurrent, InCallback, States
  <2>5. ~Hung => (claiming[Dispatcher] # None => HasSlot)
    BY DEF Hung, WaitsForSlot
  <2>6. ~Hung => t # Dispatcher
    BY <2>1, <2>3
  <2>7. QED
    BY <2>1, <2>2, <2>4, <2>5, <2>6
<1>2. QED
  BY <1>1, CallsFromCallbackInvariance, QueueInvariance, PTL

\* A full ring stays full while the dispatch thread does not come by.
LEMMA FullRingStays ==
    ASSUME ~HasSlot, [Next]_vars, ~Dispatch
    PROVE  UNCHANGED <<place, kick>>
BY DEF Next, QueueTimer, Publish, BeginDisarm, EndDisarm, SelfDisarm, SetShutdown, Kick, vars

\* What the properties except is for ever.  A callback that disarms its own item a
\* second time, or that queues an item into a full ring, never returns from that, and
\* the dispatch thread runs no other callback; and who waits for a slot when it has
\* ended waits for good.
THEOREM HangsForEver ==
    Spec => [][/\ Hung => Hung' /\ UNCHANGED <<dpc, current>>
               /\ Closed => Closed']_vars
<1>1. ASSUME QueueInv, CallsFromCallback, Next, Hung
      PROVE  Hung' /\ UNCHANGED <<dpc, current>>
  <2> USE <1>1, TimerQueueAssumption DEF QueueInv, TypeOK, Threads
  <2>1. dpc = "callback"
    BY DEF CallsFromCallback, Hung, WaitsForItself, WaitsForSlot
  <2>2. ~Calling(Dispatcher)
    BY DEF Calling, Hung, WaitsForItself, WaitsForSlot
  <2>3. ~Dispatch
    BY <2>1, <2>2
       DEF Dispatch, TestShutdown, Consume, NoneDue, Pop, Claim, CallbackReturns, Reload, Rearm,
           Retire
  <2>4. UNCHANGED <<dpc, current>>
    BY <2>3
       DEF Next, QueueTimer, Publish, BeginDisarm, EndDisarm, SelfDisarm, SetShutdown, Kick
  <2>5. CASE WaitsForItself
    <3>1. spin[Dispatcher] = current /\ state_[current] \in InCallback
      BY <2>1, <2>5 DEF WaitsForItself, Running, CurrentPhase
    <3>2. UNCHANGED spin[Dispatcher]
      BY <2>2, <2>3, <3>1
         DEF Next, QueueTimer, Publish, BeginDisarm, EndDisarm, SelfDisarm, SetShutdown, Kick,
             InCallback
    <3>3. QED
      BY <2>4, <2>5, <3>2 DEF Hung, WaitsForItself, Running
  <2>6. CASE WaitsForSlot
    <3>1. UNCHANGED <<place, kick>>
      BY <2>3, <2>6, FullRingStays DEF WaitsForSlot
    <3>2. UNCHANGED claiming[Dispatcher]
      BY <2>2, <2>3, <2>6
         DEF WaitsForSlot, Next, QueueTimer, Publish, BeginDisarm, EndDisarm, SelfDisarm,
             SetShutdown, Kick
    <3>3. QED
      BY <2>4, <2>6, <3>1, <3>2 DEF Hung, WaitsForSlot, HasSlot
  <2>7. QED
    BY <2>4, <2>5, <2>6 DEF Hung
<1>2. ASSUME QueueInv, Next, Closed
      PROVE  Closed'
  <2>1. ~Dispatch
    BY <1>2
       DEF Closed, Dispatch, TestShutdown, Consume, NoneDue, Pop, Claim, CallbackReturns, Reload,
           Rearm, Retire
  <2>2. UNCHANGED <<place, kick>>
    BY <1>2, <2>1, FullRingStays DEF Closed
  <2>3. UNCHANGED dpc
    BY <1>2, <2>1
       DEF Next, QueueTimer, Publish, BeginDisarm, EndDisarm, SelfDisarm, SetShutdown, Kick
  <2>4. QED
    BY <1>2, <2>2, <2>3 DEF Closed, HasSlot
<1>3. QED
  BY <1>1, <1>2, CallsFromCallbackInvariance, QueueInvariance, PTL DEF Spec

-----------------------------------------------------------------------------

(* A timer on the queue. *)

\* Ranges of the variables of the timer; CompletionRoutine runs as the callback of
\* the queue.
TimerTypeOK ==
    /\ xtimer \in BOOLEAN
    /\ wait_item_ \in Items \cup {None}
    /\ callback_ \in Items \cup {None}
    /\ signal_ \in BOOLEAN
    /\ mutex_ \in Threads \cup {None}
    /\ op \in [Threads -> {"none", "set", "cancel"}]
    /\ pc \in [Threads -> {"idle", "cancel", "disarming", "lock", "arm"}]
    /\ arming \in [Threads -> Items \cup {None}]
    /\ \A t \in Threads : pc[t] = "arm" => arming[t] # None
    /\ routine \in {"none", "signal", "read", "call"}
    /\ routine # "none" <=> dpc = "callback"
    /\ called \in Items \cup {None}
    /\ signaler \in Items \cup {None}
    /\ stopped \in {"no", "cancelling", "yes"}

\* An activation makes an item that nobody has made before.
LEMMA NewItemsUnmade == NewItems \subseteq Unmade
BY DEF NewItems

\* Every call a timer makes into the queue is one that the queue allows.
LEMMA QueueUse ==
    ASSUME TimerTypeOK, [TimerNext]_allVars
    PROVE  [Next]_vars
<1>1. ASSUME NEW t \in Threads, NEW o \in {"set", "cancel"}, Begin(t, o)
      PROVE  UNCHANGED vars
  BY <1>1 DEF Begin
<1>2. ASSUME NEW t \in Threads, Cancel(t)
      PROVE  UNCHANGED vars \/ Next
  <2>1. \/ UNCHANGED vars
        \/ wait_item_ # None /\ (SelfDisarm(wait_item_) \/ BeginDisarm(t, wait_item_))
    BY <1>2 DEF Cancel, Expired
  <2>2. wait_item_ # None => wait_item_ \in Items
    BY DEF TimerTypeOK
  <2>3. QED
    BY <2>1, <2>2 DEF Next
<1>3. ASSUME NEW t \in Threads, Proceed(t)
      PROVE  UNCHANGED vars \/ Next
  <2>1. CASE DisarmReturn(t)
    BY <2>1 DEF DisarmReturn, Next
  <2>2. CASE ArmQueue(t)
    <3>1. arming[t] \in Items /\ QueueTimer(t, arming[t])
      BY <2>2 DEF ArmQueue, TimerTypeOK
    <3>2. QED
      BY <3>1 DEF Next
  <2>3. CASE ArmPublish(t)
    BY <2>3 DEF ArmPublish, Next
  <2>4. CASE \E i \in Items : ArmLock(t, i)
    BY <2>4 DEF ArmLock
  <2>5. QED
    BY <1>2, <1>3, <2>1, <2>2, <2>3, <2>4 DEF Proceed
<1>4. CASE DispatchStep
  BY <1>4 DEF DispatchStep, ClaimItem, RoutineSignal, RoutineRead, RoutineReturn, OtherDispatch,
              Next, Dispatch
<1>5. CASE Wait
  BY <1>5 DEF Wait
<1>6. CASE UNCHANGED allVars
  BY <1>6 DEF allVars
<1>7. QED
  BY <1>1, <1>3, <1>4, <1>5, <1>6 DEF TimerNext

\* One step of a timer keeps its types.
LEMMA TimerTypeStep ==
    ASSUME QueueInv, TimerTypeOK, [TimerNext]_allVars
    PROVE  TimerTypeOK'
<1> USE TimerQueueAssumption, PosixTimerAssumption
    DEF TimerTypeOK, timerVars, callVars, vars, Goto, Return, Cancelled, Queued
<1>1. ASSUME NEW t \in Threads, NEW o \in {"set", "cancel"}, Begin(t, o)
      PROVE  TimerTypeOK'
  BY <1>1 DEF Begin
<1>2. ASSUME NEW t \in Threads, Cancel(t)
      PROVE  TimerTypeOK'
  BY <1>2 DEF Cancel, SelfDisarm, BeginDisarm
<1>3. ASSUME NEW t \in Threads, DisarmReturn(t)
      PROVE  TimerTypeOK'
  BY <1>3 DEF DisarmReturn, EndDisarm
<1>4. ASSUME NEW t \in Threads, NEW i \in Items, ArmLock(t, i)
      PROVE  TimerTypeOK'
  BY <1>4 DEF ArmLock
<1>5. ASSUME NEW t \in Threads, ArmQueue(t) \/ ArmPublish(t)
      PROVE  TimerTypeOK'
  BY <1>5 DEF ArmQueue, ArmPublish, QueueTimer, Publish
<1>6. CASE ClaimItem
  BY <1>6 DEF ClaimItem, Claim
<1>7. CASE RoutineSignal
  BY <1>7 DEF RoutineSignal, QueueInv, TypeOK, Busy
<1>8. CASE RoutineRead
  BY <1>8 DEF RoutineRead
<1>9. CASE RoutineReturn
  BY <1>9 DEF RoutineReturn, CallbackReturns, Threads
<1>10. CASE OtherDispatch
  BY <1>10 DEF OtherDispatch, TestShutdown, Consume, NoneDue, Reload, Rearm, Retire, Pop
<1>11. CASE Wait
  BY <1>11 DEF Wait
<1>12. CASE UNCHANGED allVars
  BY <1>12 DEF allVars
<1>13. QED
  BY <1>1, <1>2, <1>3, <1>4, <1>5, <1>6, <1>7, <1>8, <1>9, <1>10, <1>11, <1>12
     DEF TimerNext, Proceed, DispatchStep

\* The queue's invariant and the timer's types, in every reachable state of a timer.
LEMMA TimerTypes == TimerSpec => [](QueueInv /\ TimerTypeOK)
<1>1. TimerInit => QueueInv /\ TimerTypeOK
  <2>1. TimerInit => QueueInv
    BY QueueInit DEF TimerInit
  <2>2. ASSUME TimerInit
        PROVE  TimerTypeOK
    <3>1. xtimer \in BOOLEAN /\ signal_ \in BOOLEAN
      BY <2>2 DEF TimerInit
    <3>2. \A t \in Threads : pc[t] = "idle"
      BY <2>2 DEF TimerInit
    <3>3. QED
      BY <2>2, <3>1, <3>2 DEF TimerInit, TimerTypeOK, Init
  <2>3. QED
    BY <2>1, <2>2
<1>2. QueueInv /\ TimerTypeOK /\ [TimerNext]_allVars => (QueueInv /\ TimerTypeOK)'
  BY QueueUse, QueueStep, TimerTypeStep
<1>3. QED
  BY <1>1, <1>2, PTL DEF TimerSpec

\* A timer uses its queue as the specification of the queue allows: whatever holds
\* of the queue under any callers holds under the callers of a timer.
THEOREM UsesQueue == TimerSpec => Spec
<1>1. TimerInit => Init
  BY DEF TimerInit
<1>2. TimerTypeOK /\ [TimerNext]_allVars => [Next]_vars
  BY QueueUse
<1>3. QED
  BY <1>1, <1>2, TimerTypes, PTL DEF TimerSpec, Spec

LEMMA TimerItems == TimerSpec => []ItemInv
BY UsesQueue, ItemInvariance, PTL

(* XTimer. *)

\* The items of all activations have been disarmed; of all but the last.
AllDisarmed == \A i \in Items : place[i] # "new" => state_[i] = "kDisarmed"
OldDisarmed == \A i \in Items : place[i] # "new" /\ i # wait_item_ => state_[i] = "kDisarmed"

\* timer_lock_: one thread at a time, never the dispatch thread, is in an operation.
OneOperation == /\ \A t, u \in Threads : pc[t] # "idle" /\ pc[u] # "idle" => t = u
                /\ pc[Dispatcher] = "idle"
                /\ stopped = "yes" => \A t \in Threads : pc[t] = "idle"

\* Where a thread stands in its operation, and what is disarmed by then.
OperationPhase ==
    /\ OldDisarmed
    /\ \A t \in Threads :
         /\ spin[t] = IF pc[t] = "disarming" THEN wait_item_ ELSE None
         /\ pc[t] \in {"lock", "arm"} => AllDisarmed
         /\ pc[t] = "arm" => callback_ = arming[t]
         /\ claiming[t] # None => pc[t] = "arm" /\ claiming[t] = arming[t]
    /\ (\A t \in Threads : pc[t] # "arm") => callback_ = wait_item_
    /\ stopped = "yes" => AllDisarmed

SignalInv == /\ signal_ => signaler = callback_
             /\ routine = "call" => called = current

XTimerInv == OneOperation /\ OperationPhase /\ SignalInv

\* An item that the dispatch thread works on and that is not disarmed is that of the
\* last activation, and no thread has got as far as to queue another.
LEMMA LiveIsLast ==
    ASSUME QueueInv, TimerTypeOK, ItemInv, OperationPhase,
           dpc \in Busy, state_[current] # "kDisarmed"
    PROVE  /\ current = wait_item_ /\ current = callback_
           /\ ~AllDisarmed
<1>1. current \in Items /\ place[current] = "dispatch"
  BY TimerQueueAssumption DEF QueueInv, TypeOK, ItemInv
<1>2. current = wait_item_ /\ ~AllDisarmed
  BY <1>1 DEF OperationPhase, OldDisarmed, AllDisarmed
<1>3. \A t \in Threads : pc[t] # "arm"
  BY <1>2 DEF OperationPhase
<1>4. QED
  BY <1>2, <1>3 DEF OperationPhase

\* So is one whose callback executes.
LEMMA LastCallback ==
    ASSUME QueueInv, TimerTypeOK, ItemInv, OperationPhase, dpc = "callback"
    PROVE  /\ current = wait_item_ /\ current = callback_
           /\ ~AllDisarmed
BY LiveIsLast DEF QueueInv, CurrentPhase, InCallback, Busy

\* A cancellation that is over leaves at most its own thread in an operation.
LEMMA CancelledOperation ==
    ASSUME TimerTypeOK, OneOperation, NEW t \in Threads, pc[t] # "idle", t # Dispatcher, Cancelled(t)
    PROVE  OneOperation'
<1> USE DEF TimerTypeOK, OneOperation, Cancelled, Goto, Return
<1>1. CASE pc' = [pc EXCEPT ![t] = "lock"] /\ op[t] = "set"
  BY <1>1
<1>2. CASE pc' = [pc EXCEPT ![t] = "idle"]
  <2>1. \A u \in Threads : pc'[u] = "idle"
    BY <1>2
  <2>2. QED
    BY <2>1, TimerQueueAssumption DEF Threads
<1>3. QED
  BY <1>1, <1>2

\* One step of an XTimer keeps XTimerInv.
LEMMA XTimerStep ==
    ASSUME QueueInv, TimerTypeOK, ItemInv, XTimerInv, xtimer, [TimerNext]_allVars
    PROVE  XTimerInv'
<1> USE TimerQueueAssumption
    DEF XTimerInv, OneOperation, OperationPhase, OldDisarmed, AllDisarmed, SignalInv,
        TimerTypeOK, timerVars, callVars, vars, Goto, Return, Cancelled, Queued
<1>1. ASSUME NEW t \in Threads, NEW o \in {"set", "cancel"}, Begin(t, o)
      PROVE  XTimerInv'
  BY <1>1 DEF Begin, Others
<1>2. ASSUME NEW t \in Threads, Cancel(t)
      PROVE  XTimerInv'
  <2>1. t # Dispatcher
    BY <1>2 DEF Cancel
  <2>2. CASE Expired /\ Cancelled(t) /\ UNCHANGED vars
    <3>1. AllDisarmed
      BY <2>2 DEF Expired, ItemInv
    <3>2. OperationPhase'
      BY <1>2, <2>2, <3>1 DEF Cancel
    <3>3. OneOperation'
      BY <1>2, <2>1, <2>2, CancelledOperation DEF Cancel
    <3>4. SignalInv'
      BY <1>2, <2>2 DEF Cancel
    <3>5. QED
      BY <3>2, <3>3, <3>4
  <2>3. CASE BeginDisarm(t, wait_item_) /\ Goto(t, "disarming") /\ UNCHANGED <<op, stopped>>
    BY <1>2, <2>1, <2>3 DEF Cancel, BeginDisarm, QueueInv, TypeOK
  <2>4. QED
    BY <1>2, <2>1, <2>2, <2>3 DEF Cancel
<1>3. ASSUME NEW t \in Threads, DisarmReturn(t)
      PROVE  XTimerInv'
  <2>1. OneOperation'
    BY <1>3, CancelledOperation DEF DisarmReturn
  <2>2. SignalInv'
    BY <1>3 DEF DisarmReturn, EndDisarm
  <2>3. spin[t] = wait_item_ /\ state_'[wait_item_] = "kDisarmed" /\ AllDisarmed'
    BY <1>3 DEF DisarmReturn, EndDisarm, QueueInv, TypeOK
  <2>4. OperationPhase'
    BY <1>3, <2>3 DEF DisarmReturn, EndDisarm, QueueInv, TypeOK
  <2>5. QED
    BY <2>1, <2>2, <2>4
<1>4. ASSUME NEW t \in Threads, NEW i \in Items, ArmLock(t, i)
      PROVE  XTimerInv'
  BY <1>4 DEF ArmLock
<1>5. ASSUME NEW t \in Threads, ArmQueue(t) \/ ArmPublish(t)
      PROVE  XTimerInv'
  <2> USE DEF QueueInv, TypeOK
  <2> DEFINE Kept == UNCHANGED <<xtimer, state_, spin, current, routine, called, signaler, stopped>>
  <2>1. CASE /\ pc[t] = "arm" /\ Queued(t) /\ Kept
             /\ place' = [place EXCEPT ![arming[t]] = "buffer"]
             /\ claiming' = [claiming EXCEPT ![t] = None]
    <3>1. \A u \in Threads : pc'[u] = "idle"
      BY <2>1
    <3>2. OneOperation'
      BY <3>1 DEF Threads
    <3>3. SignalInv'
      BY <2>1
    <3>4. AllDisarmed /\ callback_ = arming[t] /\ spin[t] = None
      BY <2>1
    <3>5. OldDisarmed' /\ (stopped' # "yes")
      BY <2>1, <3>4
    <3>6. OperationPhase'
      BY <2>1, <3>1, <3>4, <3>5
    <3>7. QED
      BY <3>2, <3>3, <3>6
  <2>2. CASE /\ pc[t] = "arm" /\ UNCHANGED <<timerVars, callVars, place>> /\ Kept
             /\ claiming' = [claiming EXCEPT ![t] = arming[t]]
    BY <2>2
  <2>3. CASE ArmPublish(t)
    <3>1. claiming[t] = arming[t]
      BY <2>3 DEF ArmPublish, Publish
    <3>2. QED
      BY <2>1, <2>3, <3>1 DEF ArmPublish, Publish
  <2>4. CASE ArmQueue(t)
    <3>1. claiming[t] = None /\ arming[t] # None
      BY <2>4 DEF ArmQueue, QueueTimer, Calling
    <3>2. CASE claiming'[t] = None
      <4>1. UNCHANGED claiming /\ place' = [place EXCEPT ![arming[t]] = "buffer"]
        BY <2>4, <3>1, <3>2 DEF ArmQueue, QueueTimer
      <4>2. claiming' = [claiming EXCEPT ![t] = None]
        BY <3>1, <4>1
      <4>3. QED
        BY <2>1, <2>4, <3>2, <4>1, <4>2 DEF ArmQueue, QueueTimer
    <3>3. CASE claiming'[t] # None
      BY <2>2, <2>4, <3>1, <3>3 DEF ArmQueue, QueueTimer
    <3>4. QED
      BY <3>2, <3>3
  <2>5. QED
    BY <1>5, <2>3, <2>4
<1>6. CASE ClaimItem
  BY <1>6, LiveIsLast DEF ClaimItem, Claim, QueueInv, TypeOK, Busy
<1>7. CASE RoutineSignal
  BY <1>7, LastCallback DEF RoutineSignal
<1>8. CASE RoutineRead
  BY <1>8, LastCallback DEF RoutineRead
<1>9. CASE RoutineReturn
  BY <1>9 DEF RoutineReturn, CallbackReturns
<1>10. CASE OtherDispatch
  <2> USE DEF OtherDispatch
  <2>1. CASE Rearm
    BY <1>10, <2>1, LiveIsLast DEF Rearm, QueueInv, TypeOK, CurrentPhase, Busy
  <2>2. CASE Retire
    BY <1>10, <2>2 DEF Retire, QueueInv, TypeOK, Busy
  <2>3. CASE Consume \/ NoneDue \/ \E i \in Items : Pop(i)
    BY <1>10, <2>3 DEF Consume, NoneDue, Pop, QueueInv, TypeOK
  <2>4. CASE TestShutdown \/ Reload
    BY <1>10, <2>4 DEF TestShutdown, Reload
  <2>5. QED
    BY <1>10, <2>1, <2>2, <2>3, <2>4
<1>11. CASE Wait
  BY <1>11 DEF Wait
<1>12. CASE UNCHANGED allVars
  BY <1>12 DEF allVars
<1>13. QED
  BY <1>1, <1>2, <1>3, <1>4, <1>5, <1>6, <1>7, <1>8, <1>9, <1>10, <1>11, <1>12
     DEF TimerNext, Proceed, DispatchStep

\* XTimerInv holds of every timer that is an XTimer's, with the queue's invariants.
THEOREM XTimerInvariance == TimerSpec => [](xtimer => XTimerInv)
<1> DEFINE Inv == xtimer => XTimerInv
<1>1. TimerInit => Inv
  BY TimerQueueAssumption
     DEF TimerInit, Init, XTimerInv, OneOperation, OperationPhase, OldDisarmed, AllDisarmed,
         SignalInv, Threads
<1>2. QueueInv /\ TimerTypeOK /\ ItemInv /\ Inv /\ [TimerNext]_allVars => Inv'
  <2> SUFFICES ASSUME QueueInv, TimerTypeOK, ItemInv, Inv, [TimerNext]_allVars
               PROVE  Inv'
    OBVIOUS
  <2>1. UNCHANGED xtimer
    BY DEF TimerNext, Begin, Proceed, Cancel, DisarmReturn, ArmLock, ArmQueue, ArmPublish, Queued,
           DispatchStep, ClaimItem, RoutineSignal, RoutineRead, RoutineReturn, OtherDispatch, Wait,
           timerVars, allVars
  <2>2. CASE xtimer
    BY <2>2, XTimerStep
  <2>3. QED
    BY <2>1, <2>2
<1>3. QED
  BY <1>1, <1>2, TimerTypes, TimerItems, PTL DEF TimerSpec

\* kernel/xtimer.cc: when XTimer's Cancel() has returned, the CompletionRoutine is not
\* executing, and does not until the timer is set again.
THEOREM CancelStopsHolds == TimerSpec => []CancelStops
<1>1. QueueInv /\ TimerTypeOK /\ ItemInv /\ (xtimer => XTimerInv) => CancelStops
  BY LastCallback DEF CancelStops, XTimerInv, OperationPhase, TimerTypeOK
<1>2. QED
  BY <1>1, TimerTypes, TimerItems, XTimerInvariance, PTL

\* An XTimer is signaled only by its last activation, and a completion calls the
\* callback of the activation that it completes.
THEOREM NoStaleSignalHolds == TimerSpec => []NoStaleSignal
<1>1. (xtimer => XTimerInv) => NoStaleSignal
  BY DEF NoStaleSignal, XTimerInv, SignalInv
<1>2. QED
  BY <1>1, XTimerInvariance, PTL

\* Disarm() keeps its promise to a timer: DisarmGuarantee, under its calls.
THEOREM TimerDisarms == TimerSpec => []DisarmGuarantee
BY UsesQueue, DisarmGuaranteeHolds, PTL

(* The locks of an XTimer. *)

\* mutex_ is held between two steps only by an activation that queues its item.
MutexHolder == mutex_ # None => pc[mutex_] = "arm"

LEMMA MutexHolderStep ==
    ASSUME TimerTypeOK, MutexHolder, [TimerNext]_allVars
    PROVE  MutexHolder'
<1> USE DEF TimerTypeOK, MutexHolder, timerVars, callVars, Goto, Return, Cancelled, Queued
<1>1. ASSUME NEW t \in Threads, NEW o \in {"set", "cancel"}, Begin(t, o)
      PROVE  MutexHolder'
  BY <1>1 DEF Begin
<1>2. ASSUME NEW t \in Threads, Cancel(t) \/ DisarmReturn(t)
      PROVE  MutexHolder'
  BY <1>2 DEF Cancel, DisarmReturn
<1>3. ASSUME NEW t \in Threads, NEW i \in Items, ArmLock(t, i)
      PROVE  MutexHolder'
  BY <1>3 DEF ArmLock
<1>4. ASSUME NEW t \in Threads, ArmQueue(t) \/ ArmPublish(t)
      PROVE  MutexHolder'
  BY <1>4 DEF ArmQueue, ArmPublish
<1>5. CASE UNCHANGED <<mutex_, pc>>
  BY <1>5
<1>6. QED
  BY <1>1, <1>2, <1>3, <1>4, <1>5
     DEF TimerNext, Proceed, DispatchStep, ClaimItem, RoutineSignal, RoutineRead, RoutineReturn,
         OtherDispatch, Wait, allVars

\* Whatever an XTimer's thread waits for is on its way.  An activation that holds mutex_
\* while the ring is full waits for the dispatch thread, which is then in no completion
\* of the timer that would want mutex_; a cancellation that spins waits for a completion,
\* which then finds mutex_ free; and the completion itself makes no call into the
\* queue, so that neither hang of the queue nor the circle of the ring comes about.
LocksAcyclic ==
    xtimer => /\ mutex_ # None => routine = "none"
              /\ \A t \in Threads : spin[t] # None /\ state_[spin[t]] \in InCallback =>
                    current = spin[t] /\ mutex_ = None
              /\ ~Hung /\ ~RingCircle

\* timer_lock_ keeps the three waits of an XTimer (for mutex_, for a slot of the ring,
\* in Disarm()) from closing a circle, which they can for a timer that is set by two
\* threads without it.
THEOREM LocksAcyclicHolds == TimerSpec => []LocksAcyclic
<1>1. TimerInit => MutexHolder
  BY DEF TimerInit, MutexHolder
<1>2. TimerTypeOK /\ MutexHolder /\ [TimerNext]_allVars => MutexHolder'
  BY MutexHolderStep
<1>3. QueueInv /\ TimerTypeOK /\ ItemInv /\ MutexHolder /\ (xtimer => XTimerInv)
         => LocksAcyclic
  <2> SUFFICES ASSUME QueueInv, TimerTypeOK, ItemInv, MutexHolder, XTimerInv
               PROVE  /\ mutex_ # None => routine = "none"
                      /\ \A t \in Threads : spin[t] # None /\ state_[spin[t]] \in InCallback =>
                            current = spin[t] /\ mutex_ = None
                      /\ ~Hung /\ ~RingCircle
    BY DEF LocksAcyclic
  <2> USE DEF XTimerInv, TimerTypeOK
  <2>1. mutex_ # None => mutex_ \in Threads /\ pc[mutex_] = "arm"
    BY DEF MutexHolder
  <2>2. ASSUME mutex_ # None
        PROVE  routine = "none"
    <3>1. AllDisarmed
      BY <2>1, <2>2 DEF OperationPhase
    <3>2. QED
      BY <3>1, LastCallback
  <2>3. ASSUME NEW t \in Threads, spin[t] # None, state_[spin[t]] \in InCallback
        PROVE  current = spin[t] /\ mutex_ = None
    <3>1. current = spin[t]
      BY <2>3 DEF QueueInv, TypeOK, OnlyCurrent
    <3>2. pc[t] = "disarming"
      BY <2>3 DEF OperationPhase
    <3>3. mutex_ = None
      BY <2>1, <3>2 DEF OneOperation
    <3>4. QED
      BY <3>1, <3>3
  <2>4. spin[Dispatcher] = None /\ claiming[Dispatcher] = None
    BY DEF OneOperation, OperationPhase, Threads
  <2>5. ~Hung /\ ~RingCircle
    <3>1. mutex_ # None => pc[Dispatcher] # "lock"
      BY <2>1 DEF OneOperation, OperationPhase, Threads
    <3>2. QED
      BY <2>2, <2>4, <3>1 DEF Hung, WaitsForItself, WaitsForSlot, RingCircle, WantsMutex
  <2>6. QED
    BY <2>2, <2>3, <2>5
<1>4. QED
  BY <1>1, <1>2, <1>3, TimerTypes, TimerItems, XTimerInvariance, PTL DEF TimerSpec

\* The dispatch thread sets and cancels the timer only in the callback.
DispatcherCalls == pc[Dispatcher] # "idle" => routine = "call"

LEMMA DispatcherCallsStep ==
    ASSUME TimerTypeOK, DispatcherCalls, [TimerNext]_allVars
    PROVE  DispatcherCalls'
<1> USE DEF TimerTypeOK, DispatcherCalls, Threads, timerVars, callVars, Goto, Return, Cancelled, Queued
<1>1. ASSUME NEW t \in Threads, NEW o \in {"set", "cancel"}, Begin(t, o)
      PROVE  DispatcherCalls'
  BY <1>1 DEF Begin
<1>2. ASSUME NEW t \in Threads, Cancel(t) \/ DisarmReturn(t)
      PROVE  DispatcherCalls'
  BY <1>2 DEF Cancel, DisarmReturn
<1>3. ASSUME NEW t \in Threads, NEW i \in Items, ArmLock(t, i)
      PROVE  DispatcherCalls'
  BY <1>3 DEF ArmLock
<1>4. ASSUME NEW t \in Threads, ArmQueue(t) \/ ArmPublish(t)
      PROVE  DispatcherCalls'
  BY <1>4 DEF ArmQueue, ArmPublish
<1>5. CASE ClaimItem
  BY <1>5 DEF ClaimItem, Claim
<1>6. CASE RoutineSignal \/ RoutineRead \/ RoutineReturn
  BY <1>6 DEF RoutineSignal, RoutineRead, RoutineReturn
<1>7. CASE UNCHANGED <<routine, pc>>
  BY <1>7
<1>8. QED
  BY <1>1, <1>2, <1>3, <1>4, <1>5, <1>6, <1>7
     DEF TimerNext, Proceed, DispatchStep, OtherDispatch, Wait, allVars

\* Without timer_lock_ they can, and then for ever: who sets the timer never gets its
\* slot, and the completion or its callback never gets mutex_.
THEOREM CircleForEver == TimerSpec => [][RingCircle => RingCircle']_allVars
<1>1. ASSUME TimerTypeOK, QueueInv, DispatcherCalls, TimerNext, RingCircle
      PROVE  RingCircle'
  <2> USE <1>1, TimerQueueAssumption DEF TimerTypeOK, RingCircle, WantsMutex
  <2>1. mutex_ \in Threads /\ dpc = "callback" /\ claiming[mutex_] # None
    BY DEF DispatcherCalls, Threads
  <2>2. ~DispatchStep
    BY <2>1 DEF DispatchStep, ClaimItem, RoutineSignal, RoutineRead, RoutineReturn, OtherDispatch,
                Claim, TestShutdown, Consume, NoneDue, Reload, Rearm, Retire, Pop
  <2>3. ~Wait
    BY <2>1 DEF Wait
  <2>4. ASSUME NEW t \in Threads, NEW o \in {"set", "cancel"}, Begin(t, o)
        PROVE  RingCircle'
    <3>1. /\ UNCHANGED <<mutex_, routine, claiming, place, kick>>
          /\ pc[Dispatcher] = "lock" => pc'[Dispatcher] = "lock"
      BY <2>4 DEF Begin, vars, timerVars, Goto, Threads
    <3>2. QED
      BY <3>1 DEF HasSlot
  <2>5. ASSUME NEW t \in Threads, Cancel(t) \/ DisarmReturn(t)
        PROVE  RingCircle'
    <3>1. /\ UNCHANGED <<mutex_, routine, claiming, place, kick>>
          /\ pc[Dispatcher] = "lock" => pc'[Dispatcher] = "lock"
      BY <2>5 DEF Goto, Return, Cancelled, Threads, Cancel, DisarmReturn, SelfDisarm, BeginDisarm,
                  EndDisarm, vars, timerVars
    <3>2. QED
      BY <3>1 DEF HasSlot
  <2>6. ASSUME NEW t \in Threads, NEW i \in Items, ArmLock(t, i)
        PROVE  FALSE
    BY <2>1, <2>6 DEF ArmLock
  <2>7. ASSUME NEW t \in Threads, ArmPublish(t)
        PROVE  FALSE
    BY <2>7 DEF ArmPublish, Publish
  <2>8. ASSUME NEW t \in Threads, ArmQueue(t)
        PROVE  RingCircle'
    <3>1. claiming' = [claiming EXCEPT ![t] = arming[t]] /\ arming[t] # None
      BY <2>8 DEF ArmQueue, QueueTimer
    <3>2. UNCHANGED <<mutex_, routine, place, kick, pc>>
      BY <2>8, <3>1 DEF ArmQueue, QueueTimer, QueueInv, TypeOK, timerVars, callVars
    <3>3. QED
      BY <2>1, <3>1, <3>2 DEF QueueInv, TypeOK, HasSlot
  <2>9. QED
    BY <2>2, <2>3, <2>4, <2>5, <2>6, <2>7, <2>8 DEF TimerNext, Proceed
<1>2. TimerInit => DispatcherCalls
  BY DEF TimerInit, DispatcherCalls, Threads
<1>3. TimerTypeOK /\ DispatcherCalls /\ [TimerNext]_allVars => DispatcherCalls'
  BY DispatcherCallsStep
<1>4. QED
  BY <1>1, <1>2, <1>3, TimerTypes, PTL DEF TimerSpec

\* The items of a timer keep the promise of the header, under its calls.
THEOREM TimerItemsAreWaitItems == ASSUME NEW i \in Items PROVE TimerSpec => Item(i)!Spec
BY UsesQueue, ImplementsWaitItem, PTL
=============================================================================
