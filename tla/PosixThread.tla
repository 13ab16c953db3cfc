----------------------------- MODULE PosixThread -----------------------------
(***************************************************************************)
(* One xe::threading::Thread of base/threading_posix.cc: its start routine,*)
(* Suspend, Resume, Terminate, Exit, and Wait on the thread object, called *)
(* by any number of other threads.                                         *)
(*                                                                         *)
(* Other threads suspend the thread by a signal whose handler blocks in    *)
(* sem_wait, so a suspension is asynchronous: it is counted under          *)
(* state_mutex_, sent after the unlock, and takes effect when the signal   *)
(* is delivered, wherever the thread is then.  Callers are anonymous:      *)
(* killing, terminating and cancelling count the calls that have left      *)
(* state_mutex_ and have their second half still to do.                    *)
(***************************************************************************)
EXTENDS Integers

CONSTANTS
    MaxSuspend,        \* bound on suspend_count_, a uint32_t in the code
    MaxInFlight        \* bound on signals under way, on posts left in the semaphore, and
                       \* on Terminate() calls under way

ASSUME PosixThreadAssumption == /\ MaxSuspend \in Nat \ {0}
                                /\ MaxInFlight \in Nat \ {0}

VARIABLES
    create_suspended,          \* CreationParameters::create_suspended
    state_, suspend_count_,    \* protected by state_mutex_
    suspend_sem_,              \* the value of the semaphore
    signaled_,                 \* protected by mutex_
    place,                     \* where the thread's own code stands
    locked,                    \* the thread's own code holds state_mutex_
    handlers,                  \* frames of the suspend handler on its stack: the signal is
                               \* masked inside, so 0 or 1
    pending,                   \* suspend signals queued for delivery
    killing,                   \* Suspend() calls between the unlock and pthread_kill
    terminating, cancelling,   \* Terminate() calls before the signal and before pthread_cancel
    cancelled,                 \* pthread_cancel was called
    joining,                   \* a waiter is in post_execution's pthread_join, holding mutex_
    ended,                     \* history: kFinished has been stored at least once
    promised                   \* history: the suspend count of threading.h

stateVars  == <<state_, suspend_count_, suspend_sem_, signaled_>>
ownVars    == <<place, locked, handlers, pending>>
callerVars == <<killing, terminating, cancelling, cancelled, joining>>
history    == <<ended, promised>>
threadVars == <<create_suspended, stateVars, ownVars, callerVars, history>>

States == {"kUninitialized", "kRunning", "kSuspended", "kFinished"}

\* created: before the start routine stores the state.  gap: created suspended,
\* between its two critical sections.  startWait: waiting on state_signal_.
\* routine: in start_routine.  selfWait: in Suspend() on itself.  finishing:
\* holding state_mutex_ at the end.  finished, exiting: before and after it
\* signals the object.  stuck: Exit() after somebody else's Terminate(), with the lock.
Places == {"created", "gap", "startWait", "routine", "selfWait", "finishing", "finished",
           "exiting", "stuck", "dead"}

Executing  == handlers = 0 /\ place # "dead"           \* the thread's own code can step
Guest      == Executing /\ place = "routine"       \* it runs start_routine
Parked     == handlers > 0 \/ place = "selfWait"        \* it is in sem_wait
Started    == state_ # "kUninitialized"
Lockable   == ~locked                              \* a caller can take state_mutex_
InFlight   == pending + killing

-----------------------------------------------------------------------------

ThreadInit == /\ state_ = "kUninitialized" /\ suspend_count_ = 0 /\ suspend_sem_ = 0
              /\ signaled_ = FALSE
              /\ place = "created" /\ locked = FALSE /\ handlers = 0 /\ pending = 0
              /\ killing = 0 /\ terminating = 0 /\ cancelling = 0
              /\ cancelled = FALSE /\ joining = FALSE
              /\ ended = FALSE
              /\ create_suspended \in BOOLEAN
              /\ promised = IF create_suspended THEN 1 ELSE 0

(* The thread's own code. *)

\* ThreadStartRoutine, first critical section.
Start == /\ place = "created" /\ Executing
         /\ state_' = IF create_suspended THEN "kSuspended" ELSE "kRunning"
         /\ place' = IF create_suspended THEN "gap" ELSE "routine"
         /\ UNCHANGED <<create_suspended, suspend_count_, suspend_sem_, signaled_, locked,
                        handlers, pending,
                        callerVars, history>>

\* Second critical section: the count is set to 1 and the thread waits for 0.
StartSuspended == /\ place = "gap" /\ Executing
                  /\ suspend_count_' = 1
                  /\ place' = "startWait"
                  /\ UNCHANGED <<create_suspended, state_, suspend_sem_, signaled_, locked,
                                 handlers, pending,
                                 callerVars, history>>

StartResumed == /\ place = "startWait" /\ Executing
                /\ suspend_count_ = 0
                /\ place' = "routine"
                /\ UNCHANGED <<create_suspended, stateVars, locked, handlers, pending,
                               callerVars, history>>

\* Suspend() by the thread itself: no signal, straight into WaitSuspended().
SuspendSelf == /\ Guest
               /\ suspend_count_ < MaxSuspend /\ promised < MaxSuspend
               /\ state_' = "kSuspended"
               /\ suspend_count_' = suspend_count_ + 1
               /\ promised' = promised + 1
               /\ place' = IF state_ = "kSuspended" THEN place ELSE "selfWait"
               /\ UNCHANGED <<create_suspended, suspend_sem_, signaled_, locked, handlers,
                              pending, callerVars, ended>>

\* sem_wait returns in the self-suspended thread.
SelfResumed == /\ place = "selfWait" /\ Executing
               /\ suspend_sem_ > 0
               /\ suspend_sem_' = suspend_sem_ - 1
               /\ place' = "routine"
               /\ UNCHANGED <<create_suspended, state_, suspend_count_, signaled_, locked,
                              handlers, pending,
                              callerVars, history>>

\* start_routine returns: the end of ThreadStartRoutine takes state_mutex_ ...
FinishLock == /\ Guest
              /\ locked' = TRUE
              /\ place' = "finishing"
              /\ UNCHANGED <<create_suspended, stateVars, handlers, pending, callerVars,
                             history>>

\* ... stores kFinished and unlocks ...
FinishStore == /\ place = "finishing" /\ Executing
               /\ state_' = "kFinished"
               /\ ended' = TRUE
               /\ locked' = FALSE
               /\ place' = "finished"
               /\ UNCHANGED <<create_suspended, suspend_count_, suspend_sem_, signaled_,
                              handlers, pending,
                              callerVars, promised>>

\* ... signals the object under mutex_, which a joining waiter holds ...
FinishSignal == /\ place = "finished" /\ Executing
                /\ ~joining
                /\ signaled_' = TRUE
                /\ place' = "exiting"
                /\ UNCHANGED <<create_suspended, state_, suspend_count_, suspend_sem_, locked,
                               handlers, pending,
                               callerVars, history>>

\* ... and returns, with current_thread_ cleared.
Return == /\ place = "exiting" /\ Executing
          /\ place' = "dead"
          /\ UNCHANGED <<create_suspended, stateVars, locked, handlers, pending, callerVars,
                         history>>

\* Thread::Exit, that is Terminate() on itself: after somebody else's
\* Terminate() it waits for the cancellation, with state_mutex_ held, else it finishes
\* as above.
Exit == /\ Guest /\ Lockable
        /\ state_' = "kFinished"
        /\ ended' = TRUE
        /\ IF state_ = "kFinished" THEN place' = "stuck" /\ locked' = TRUE
                                   ELSE place' = "finished" /\ UNCHANGED locked
        /\ UNCHANGED <<create_suspended, suspend_count_, suspend_sem_, signaled_,
                       handlers, pending,
                       callerVars, promised>>

-----------------------------------------------------------------------------
(* Signals and cancellation. *)

\* The handler returns at once while current_thread_ is null: before the start
\* routine has set it and after it has cleared it.
Deliver == /\ pending > 0 /\ Executing
           /\ pending' = pending - 1
           /\ handlers' = 1 \/ (place \in {"created", "exiting"} /\ handlers' = 0)
           /\ UNCHANGED <<create_suspended, stateVars, place, locked, callerVars, history>>

\* sem_wait returns in the handler.
HandlerReturn == /\ handlers > 0
                 /\ suspend_sem_ > 0
                 /\ suspend_sem_' = suspend_sem_ - 1
                 /\ handlers' = 0
                 /\ UNCHANGED <<create_suspended, state_, suspend_count_, signaled_, place,
                                locked, pending,
                                callerVars, history>>

\* Asynchronous cancellation, wherever the thread is: unwinding from an
\* arbitrary instruction may or may not unlock what its own code had locked.
Die == /\ cancelled /\ place # "dead"
       /\ place' = "dead" /\ handlers' = 0 /\ pending' = 0
       /\ locked' = locked \/ locked' = FALSE
       /\ UNCHANGED <<create_suspended, stateVars, callerVars, history>>

-----------------------------------------------------------------------------
(* Other threads. *)

\* Mutant of Suspend: a nested suspension sends a signal of its own.
SuspendAlwaysSignals ==
    /\ Started /\ Lockable
    /\ suspend_count_ < MaxSuspend /\ promised < MaxSuspend
    /\ InFlight < MaxInFlight /\ suspend_sem_ < MaxInFlight
    /\ state_' = "kSuspended"
    /\ suspend_count_' = suspend_count_ + 1
    /\ promised' = promised + 1
    /\ killing' = killing + 1
    /\ UNCHANGED <<create_suspended, suspend_sem_, signaled_, ownVars, terminating,
                   cancelling, cancelled,
                   joining, ended>>

\* Suspend(), under state_mutex_: only the first suspension sends a signal.
Suspend == /\ Started /\ Lockable
           /\ suspend_count_ < MaxSuspend /\ promised < MaxSuspend
           /\ InFlight < MaxInFlight /\ suspend_sem_ < MaxInFlight
           /\ state_' = "kSuspended"
           /\ suspend_count_' = suspend_count_ + 1
           /\ promised' = promised + 1
           /\ killing' = IF state_ = "kSuspended" THEN killing ELSE killing + 1
           /\ UNCHANGED <<create_suspended, suspend_sem_, signaled_, ownVars, terminating,
                          cancelling,
                          cancelled, joining, ended>>

\* The pthread_kill of Suspend(), after the unlock.
Kill == /\ killing > 0
        /\ killing' = killing - 1
        /\ pending' = IF place = "dead" THEN pending ELSE pending + 1
        /\ UNCHANGED <<create_suspended, stateVars, place, locked, handlers, terminating,
                       cancelling, cancelled,
                       joining, history>>

\* Mutant of Resume: every Resume() posts, not only the last.
ResumeAlwaysPosts ==
    /\ Started /\ Lockable
    /\ promised' = IF promised = 0 THEN 0 ELSE promised - 1
    /\ suspend_count_ > 0 /\ suspend_sem_ < MaxInFlight
    /\ suspend_count_' = suspend_count_ - 1
    /\ state_' = IF suspend_count_ = 1 /\ state_ = "kSuspended" THEN "kRunning" ELSE state_
    /\ suspend_sem_' = suspend_sem_ + 1
    /\ UNCHANGED <<create_suspended, signaled_, ownVars, callerVars, ended>>

\* Resume(): false while the count is 0; the last one posts the semaphore.
Resume ==
    /\ Started /\ Lockable
    /\ promised' = IF promised = 0 THEN 0 ELSE promised - 1
    /\ \/ /\ suspend_count_ = 0
          /\ UNCHANGED stateVars
       \/ /\ suspend_count_ > 0
          /\ suspend_count_' = suspend_count_ - 1
          /\ IF suspend_count_ = 1 /\ state_ = "kSuspended"
                THEN state_' = "kRunning" /\ suspend_sem_' = suspend_sem_ + 1
                ELSE UNCHANGED <<state_, suspend_sem_>>
          /\ UNCHANGED signaled_
    /\ UNCHANGED <<create_suspended, ownVars, callerVars, ended>>

\* Mutant of Terminate: the thread is cancelled before its object is signaled.
TerminateCancelsFirst ==
    /\ Lockable
    /\ state_ # "kFinished"
    /\ terminating + cancelling < MaxInFlight
    /\ state_' = "kFinished"
    /\ ended' = TRUE
    /\ terminating' = terminating + 1
    /\ cancelled' = TRUE
    /\ UNCHANGED <<create_suspended, suspend_count_, suspend_sem_, signaled_, ownVars,
                   killing, cancelling,
                   joining, promised>>

\* Terminate(): it does not wait for the thread to have started.
Terminate == /\ Lockable
             /\ state_ # "kFinished"
             /\ terminating + cancelling < MaxInFlight
             /\ state_' = "kFinished"
             /\ ended' = TRUE
             /\ terminating' = terminating + 1
             /\ UNCHANGED <<create_suspended, suspend_count_, suspend_sem_, signaled_,
                            ownVars, killing,
                            cancelling, cancelled, joining, promised>>

\* Mutant of TerminateSignal: the call ends without pthread_cancel.
TerminateWithoutCancel == /\ terminating > 0 /\ ~joining
                          /\ signaled_' = TRUE
                          /\ terminating' = terminating - 1
                          /\ UNCHANGED <<create_suspended, state_, suspend_count_,
                                         suspend_sem_, ownVars,
                                         killing, cancelling, cancelled, joining, history>>

\* The object is signaled under mutex_, before the cancellation.
TerminateSignal == /\ terminating > 0 /\ ~joining
                   /\ signaled_' = TRUE
                   /\ terminating' = terminating - 1
                   /\ cancelling' = cancelling + 1
                   /\ UNCHANGED <<create_suspended, state_, suspend_count_, suspend_sem_,
                                  ownVars, killing,
                                  cancelled, joining, history>>

Cancel == /\ cancelling > 0
          /\ cancelling' = cancelling - 1
          /\ cancelled' = TRUE
          /\ UNCHANGED <<create_suspended, stateVars, ownVars, killing, terminating,
                         joining, history>>

\* Wait() on the signaled object: post_execution joins while holding mutex_.
Join == /\ signaled_ /\ ~joining
        /\ joining' = TRUE
        /\ UNCHANGED <<create_suspended, stateVars, ownVars, killing, terminating,
                       cancelling, cancelled, history>>

Joined == /\ joining /\ place = "dead"
          /\ joining' = FALSE
          /\ UNCHANGED <<create_suspended, stateVars, ownVars, killing, terminating,
                         cancelling, cancelled, history>>

-----------------------------------------------------------------------------

\* What goes on by itself; the other actions are calls somebody may make.
OwnStep == \/ Start \/ StartSuspended \/ StartResumed \/ SelfResumed
           \/ FinishStore \/ FinishSignal \/ Return

ThreadNext == \/ OwnStep \/ SuspendSelf \/ FinishLock \/ Exit
              \/ Deliver \/ HandlerReturn \/ Die
              \/ Suspend \/ Kill \/ Resume
              \/ Terminate \/ TerminateSignal \/ Cancel
              \/ Join \/ Joined

\* The kernel schedules threads and delivers signals and cancellations, and a
\* call that was begun is completed.  start_routine need not end, and nobody
\* has to call Resume(), Terminate() or Wait().
Fairness == /\ WF_threadVars(OwnStep) /\ WF_threadVars(Deliver)
            /\ WF_threadVars(HandlerReturn) /\ WF_threadVars(Die)
            /\ WF_threadVars(Kill) /\ WF_threadVars(TerminateSignal)
            /\ WF_threadVars(Cancel) /\ WF_threadVars(Joined)

ThreadSpec == ThreadInit /\ [][ThreadNext]_threadVars
FairSpec   == ThreadSpec /\ Fairness

-----------------------------------------------------------------------------

\* Ranges; the counters respect the bounds of the instance.
ThreadTypeOK == /\ state_ \in States
                /\ suspend_count_ \in 0 .. MaxSuspend
                /\ suspend_sem_ \in Nat
                /\ place \in Places
                /\ pending \in Nat /\ killing \in Nat /\ InFlight <= MaxInFlight
                /\ terminating \in Nat /\ cancelling \in Nat
                /\ terminating + cancelling <= MaxInFlight
                /\ promised \in 0 .. MaxSuspend
                /\ signaled_ \in BOOLEAN /\ locked \in BOOLEAN /\ handlers \in 0 .. 1
                /\ cancelled \in BOOLEAN /\ joining \in BOOLEAN /\ ended \in BOOLEAN
                /\ create_suspended \in BOOLEAN

\* The semaphore's books: until the thread ends, the sem_waits begun or on
\* their way are matched by posts, all but the one of the present suspension.
\* One post too many lets the next suspension through, one too few strands
\* the thread for ever.  For a thread created running: one that is created
\* suspended waits for its first Resume() elsewhere (see SuspendStops).
One(b) == IF b THEN 1 ELSE 0

SuspendAccounting ==
    ~create_suspended /\ ~ended =>
        pending + killing + handlers + One(place = "selfWait")
        = suspend_sem_ + One(state_ = "kSuspended")

\* threading.h, Suspend(): "Suspends the specified thread".  With its signal
\* delivered and the count above zero, the thread is not running guest code.
SuspendStops == ~ended /\ Started /\ suspend_count_ > 0 /\ InFlight = 0 => ~Guest

\* Suspend() suspends a thread that was created running.
SuspendedIsParked == ~create_suspended => SuspendStops

\* A thread that is gone has signaled its object: nobody waits for it in vain.
DeadIsSignaled == place = "dead" => signaled_

\* threading.h: when the suspend count is decremented to zero, the execution of
\* the thread is resumed.  For a thread created running.
ResumedRuns == (~create_suspended /\ Started /\ promised = 0 /\ ~ended)
                  ~> (Guest \/ promised > 0 \/ ended)

\* A waiter that has seen the object signaled returns from pthread_join, although
\* it holds the mutex_ that the ending thread takes: only a suspension of the
\* ending thread can hold it up.
JoinEnds == joining ~> (~joining \/ Parked)
=============================================================================
