--------------------------- MODULE ThreadingProofs ---------------------------
(***************************************************************************)
(* Safety of base/threading_posix.cc: of its waits, for every set of       *)
(* threads, of objects and of handle lists, and of its threads, for every  *)
(* bound on the suspend count and on the signals under way.                *)
(*                                                                         *)
(* That no wakeup is missed becomes inductive without its condition that   *)
(* the object is not locked (SleepInv).  The exclusion of mutants does     *)
(* not: between count_++ and the store of owner_ the count runs ahead of   *)
(* the callers' acquisitions and owner_ is that of an earlier holder, and  *)
(* only mutex_, which is held meanwhile, keeps others from reading the     *)
(* two (LockInv, MutantInv).                                               *)
(*                                                                         *)
(* SuspendAccounting of a thread is not inductive by itself.  It needs to  *)
(* know that, until the thread ends, the state is kSuspended exactly while *)
(* the count is above zero (or a Resume() would post without a waiter),    *)
(* that nothing is under way before the thread has started, and that it    *)
(* cannot be gone, so that no signal is dropped.  That a thread that is    *)
(* gone has signaled its object is proved of every thread.                 *)
(***************************************************************************)
EXTENDS PosixWait, PosixThread, WellFoundedInduction, TLAPS

Calls == [objs : Seq(Objects), all : BOOLEAN, timed : BOOLEAN, locked : Nat, got : SUBSET Objects]

TypeOK == /\ value \in [Objects -> Nat]
          /\ owner \in [Mutants -> Threads \cup {NoThread}]
          /\ lock \in [Objects -> Threads \cup {NoThread}]
          /\ pc \in [Threads -> Labels]
          /\ call \in [Threads -> Calls]
          /\ held \in [Threads -> [Mutants -> Nat]]

\* How often t has acquired m: what it has not released, and the count of a wait that
\* has not stored the owner yet.
Mine(t, m) == held[t][m] + (IF pc[t] = "owning" /\ m \in call[t].got THEN 1 ELSE 0)

\* Who keeps an object locked between two steps: a thread that collects locks, those
\* it has collected, and one that is about to store the owner of what it got.
LockInv ==
    /\ \A o \in Objects : lock[o] # NoThread => pc[lock[o]] \in {"trying", "owning"}
    /\ \A t \in Threads : pc[t] = "owning" => \A o \in call[t].got : lock[o] = t
    /\ \A t \in Threads : pc[t] = "trying" =>
          /\ call[t].locked <= Len(call[t].objs)
          /\ \A i \in 1 .. call[t].locked : lock[call[t].objs[i]] = t
    /\ \A t \in Threads : pc[t] = "polling" => call[t].locked = 0

\* The call is a Release() by t of a mutant it has acquired, the head of the list.
OwnRelease(t, c) == c.objs # <<>> /\ Head(c.objs) \in Mutants /\ held[t][Head(c.objs)] > 0

\* A mutant is one thread's at a time, its count is that thread's acquisitions, and
\* owner_ is the thread whenever the thread knows that it has it.
MutantInv ==
    /\ \A m \in Mutants, t, u \in Threads : Mine(t, m) > 0 /\ Mine(u, m) > 0 => t = u
    /\ \A m \in Mutants, t \in Threads : Mine(t, m) > 0 => value[m] = Mine(t, m)
    /\ \A m \in Mutants : value[m] > 0 => \E t \in Threads : Mine(t, m) > 0
    /\ \A m \in Mutants, t \in Threads : held[t][m] > 0 => owner[m] = t
    /\ \A t \in Threads : pc[t] = "releasing" => OwnRelease(t, call[t])

\* A sleeper would not be satisfied, whether its object is locked or not.
SleepInv == \A t \in Threads, o \in Objects : pc[t] = "asleep" /\ On(t, o) => ~Signaled(t, o)

WaitInv == TypeOK /\ LockInv /\ MutantInv /\ SleepInv

-----------------------------------------------------------------------------

\* What a call record is made of.
LEMMA CallFields ==
    ASSUME NEW objs \in Seq(Objects), NEW all \in BOOLEAN, NEW timed \in BOOLEAN
    PROVE  /\ Call(objs, all, timed) \in Calls
           /\ Call(objs, all, timed).objs = objs
           /\ Call(objs, all, timed).locked = 0
           /\ Call(objs, all, timed).got = {}
BY DEF Call, Calls

LEMMA NoCallFields ==
    NoCall \in Calls /\ NoCall.objs = <<>> /\ NoCall.locked = 0 /\ NoCall.got = {}
<1>1. <<>> \in Seq(Objects)
  OBVIOUS
<1>2. QED
  BY <1>1, CallFields DEF NoCall

\* What the three updates of a record leave of it.
LEMMA CallUpdates ==
    ASSUME NEW c \in Calls, NEW O \in SUBSET Objects, NEW n \in Nat
    PROVE  /\ [c EXCEPT !.got = O] \in Calls
           /\ [c EXCEPT !.got = O].got = O
           /\ [c EXCEPT !.got = O].objs = c.objs
           /\ [c EXCEPT !.locked = n] \in Calls
           /\ [c EXCEPT !.locked = n].locked = n
           /\ [c EXCEPT !.locked = n].objs = c.objs
           /\ [c EXCEPT !.locked = n].got = c.got
BY DEF Calls

LEMMA HeadOfList ==
    ASSUME NEW o \in Objects, NEW rest \in Seq(Objects)
    PROVE  <<o>> \o rest \in Seq(Objects) /\ <<o>> \o rest # <<>> /\ Head(<<o>> \o rest) = o
OBVIOUS

LEMMA SingletonList ==
    ASSUME NEW o \in Objects
    PROVE  <<o>> \in Seq(Objects) /\ Len(<<o>>) = 1 /\ Head(<<o>>) = o
OBVIOUS

LEMMA RangeOfSeq ==
    ASSUME NEW s \in Seq(Objects)
    PROVE  /\ Range(s) \subseteq Objects
           /\ \A o \in Range(s) : \E i \in 1 .. Len(s) : s[i] = o
BY DEF Range

\* A nonempty set of naturals has a least element.
LEMMA LeastNatural ==
    ASSUME NEW S \in SUBSET Nat, S # {}
    PROVE  \E n \in S : \A k \in S : n <= k
<1> DEFINE R == OpToRel(<, Nat)
<1>1. IsWellFoundedOn(R, Nat)
  BY NatLessThanWellFounded
<1>2. \A a, b \in Nat : <<a, b>> \in R <=> a < b
  BY DEF OpToRel
<1> HIDE DEF R
<1>3. PICK n \in S : \A k \in S : ~ (<<k, n>> \in R)
  BY <1>1, WFMin
<1>4. \A k \in S : ~ (k < n)
  BY <1>2, <1>3
<1>5. QED
  BY <1>4

\* The first handle that is ready is one that is ready.
LEMMA FirstIsReady ==
    ASSUME TypeOK, NEW t \in Threads, Ready(t) # {}
    PROVE  FirstReady(t) \in Ready(t)
<1> DEFINE objs == call[t].objs
           S == {i \in 1 .. Len(objs) : objs[i] \in Ready(t)}
<1>1. objs \in Seq(Objects)
  BY DEF TypeOK, Calls
<1>2. S # {} /\ S \in SUBSET Nat
  BY <1>1, RangeOfSeq DEF Ready, Handles
<1>3. PICK n \in S : \A k \in S : n <= k
  <2> HIDE DEF S
  <2>1. QED
    BY <1>2, LeastNatural
<1>4. n \in 1 .. Len(objs) /\ objs[n] \in Ready(t) /\ \A j \in 1 .. n - 1 : objs[j] \notin Ready(t)
  <2>1. n \in Nat /\ Len(objs) \in Nat /\ n <= Len(objs)
    BY <1>1
  <2>2. \A j \in 1 .. n - 1 : j \in 1 .. Len(objs) /\ ~ (n <= j)
    BY <2>1
  <2>3. QED
    BY <1>3, <2>2
<1>5. QED
  BY <1>4 DEF FirstReady

-----------------------------------------------------------------------------

\* What notify_all leaves alone, and what it does to the sleepers it reaches.
LEMMA Notified ==
    ASSUME TypeOK, NEW t \in Threads, NEW label \in Labels, NEW O, GotoNotify(t, label, O)
    PROVE  /\ pc' \in [Threads -> Labels]
           /\ pc'[t] = label
           /\ \A u \in Threads \ {t} : pc[u] # "asleep" => pc'[u] = pc[u]
           /\ \A u \in Threads \ {t} : pc[u] = "asleep" => pc'[u] \in {"asleep", "woken"}
           /\ \A u \in Threads \ {t} : pc'[u] = "asleep" =>
                 pc[u] = "asleep" /\ \A o \in O : ~On(u, o)
BY DEF GotoNotify, SleepersOn, TypeOK, Labels

-----------------------------------------------------------------------------

\* A step of t leaves the others where they stand, except that it may wake sleepers.
Others(t) == \A u \in Threads \ {t} : /\ call'[u] = call[u]
                                      /\ pc[u] # "asleep" => pc'[u] = pc[u]
                                      /\ pc[u] = "asleep" => pc'[u] \in {"asleep", "woken"}

LEMMA GoneTo ==
    ASSUME TypeOK, NEW t \in Threads, NEW label \in Labels, NEW c \in Calls,
           Goto(t, label), call' = [call EXCEPT ![t] = c]
    PROVE  /\ Others(t)
           /\ pc' \in [Threads -> Labels] /\ pc'[t] = label
           /\ call' \in [Threads -> Calls] /\ call'[t] = c
           /\ \A u \in Threads \ {t} : pc'[u] = pc[u]
BY DEF Goto, Others, TypeOK

LEMMA GoneNotifying ==
    ASSUME TypeOK, NEW t \in Threads, NEW label \in Labels, NEW c \in Calls, NEW O,
           GotoNotify(t, label, O), call' = [call EXCEPT ![t] = c]
    PROVE  /\ Others(t)
           /\ pc' \in [Threads -> Labels] /\ pc'[t] = label
           /\ call' \in [Threads -> Calls] /\ call'[t] = c
           /\ \A u \in Threads \ {t} : pc'[u] = "asleep" =>
                 pc[u] = "asleep" /\ \A o \in O : ~On(u, o)
<1>1. call' \in [Threads -> Calls] /\ call'[t] = c /\ \A u \in Threads \ {t} : call'[u] = call[u]
  BY DEF TypeOK
<1>2. QED
  BY <1>1, Notified DEF Others

\* A step that takes and gives back no lock, of a thread that keeps none before or after.
LEMMA LocksStay ==
    ASSUME TypeOK, LockInv, NEW t \in Threads, Others(t), lock' = lock,
           pc[t] \notin {"trying", "owning"},
           pc'[t] # "owning", pc'[t] \in {"trying", "polling"} => call'[t].locked = 0,
           call' \in [Threads -> Calls]
    PROVE  LockInv'
<1>1. \A o \in Objects : lock[o] # NoThread => lock[o] \in Threads \ {t}
  BY DEF LockInv, TypeOK
<1>2. \A o \in Objects : lock'[o] # NoThread => pc'[lock'[o]] \in {"trying", "owning"}
  BY <1>1 DEF LockInv, Others
<1>3. ASSUME NEW u \in Threads, pc'[u] = "owning"
      PROVE  \A o \in call'[u].got : lock'[o] = u
  BY <1>3 DEF LockInv, Others
<1>4. ASSUME NEW u \in Threads, pc'[u] = "trying"
      PROVE  /\ call'[u].locked <= Len(call'[u].objs)
             /\ \A i \in 1 .. call'[u].locked : lock'[call'[u].objs[i]] = u
  <2>1. CASE u = t
    <3>1. call'[u].objs \in Seq(Objects) /\ call'[u].locked = 0
      BY <2>1, <1>4 DEF Calls
    <3>2. QED
      BY <3>1
  <2>2. CASE u # t
    BY <2>2, <1>4 DEF LockInv, Others
  <2>3. QED
    BY <2>1, <2>2
<1>5. \A u \in Threads : pc'[u] = "polling" => call'[u].locked = 0
  BY DEF LockInv, Others
<1>6. QED
  BY <1>2, <1>3, <1>4, <1>5 DEF LockInv

\* A step that gives back every lock of t.
LEMMA LocksGivenBack ==
    ASSUME TypeOK, LockInv, NEW t \in Threads, Others(t), UnlockAll(t),
           pc'[t] # "owning", pc'[t] \in {"trying", "polling"} => call'[t].locked = 0,
           call' \in [Threads -> Calls]
    PROVE  LockInv'
<1>1. \A o \in Objects : lock'[o] = IF lock[o] = t THEN NoThread ELSE lock[o]
  BY DEF UnlockAll
<1>2. ASSUME NEW o \in Objects, lock'[o] # NoThread
      PROVE  pc'[lock'[o]] \in {"trying", "owning"}
  <2>1. lock[o] \in Threads \ {t} /\ lock'[o] = lock[o] /\ lock[o] # NoThread
    BY <1>1, <1>2 DEF TypeOK
  <2>2. pc[lock[o]] \in {"trying", "owning"}
    BY <2>1 DEF LockInv
  <2>3. QED
    BY <2>1, <2>2 DEF Others
<1>3. ASSUME NEW u \in Threads, pc'[u] = "owning"
      PROVE  \A o \in call'[u].got : lock'[o] = u
  <2>1. u # t /\ pc[u] = "owning" /\ call'[u].got = call[u].got /\ call[u].got \subseteq Objects
    BY <1>3 DEF Others, TypeOK, Calls
  <2>2. QED
    BY <1>1, <2>1 DEF LockInv
<1>4. ASSUME NEW u \in Threads, pc'[u] = "trying"
      PROVE  /\ call'[u].locked <= Len(call'[u].objs)
             /\ \A i \in 1 .. call'[u].locked : lock'[call'[u].objs[i]] = u
  <2>1. CASE u = t
    <3>1. call'[u].objs \in Seq(Objects) /\ call'[u].locked = 0
      BY <2>1, <1>4 DEF Calls
    <3>2. QED
      BY <3>1
  <2>2. CASE u # t
    <3>1. pc[u] = "trying" /\ call'[u] = call[u]
      BY <2>2, <1>4 DEF Others
    <3>2. call[u].objs \in Seq(Objects) /\ call[u].locked \in Nat
      BY DEF TypeOK, Calls
    <3>3. /\ call[u].locked <= Len(call[u].objs)
          /\ \A i \in 1 .. call[u].locked : lock[call[u].objs[i]] = u
      BY <3>1 DEF LockInv
    <3>4. \A i \in 1 .. call[u].locked : call[u].objs[i] \in Objects
      BY <3>2, <3>3
    <3>5. QED
      BY <1>1, <2>2, <3>1, <3>3, <3>4
  <2>3. QED
    BY <2>1, <2>2
<1>5. \A u \in Threads : pc'[u] = "polling" => call'[u].locked = 0
  BY DEF LockInv, Others
<1>6. QED
  BY <1>2, <1>3, <1>4, <1>5 DEF LockInv

\* A step that acquires, releases and hands over no mutant.
LEMMA MutantsStay ==
    ASSUME TypeOK, MutantInv, NEW t \in Threads, Others(t), held' = held, owner' = owner,
           \A m \in Mutants : value'[m] = value[m],
           pc[t] # "owning", pc'[t] # "owning",
           pc'[t] = "releasing" => OwnRelease(t, call'[t])
    PROVE  MutantInv'
<1>1. \A u \in Threads, m \in Mutants : Mine(u, m)' = Mine(u, m)
  BY DEF Mine, Others
<1>2. /\ \A m \in Mutants, u, v \in Threads : Mine(u, m)' > 0 /\ Mine(v, m)' > 0 => u = v
      /\ \A m \in Mutants, u \in Threads : Mine(u, m)' > 0 => value'[m] = Mine(u, m)'
      /\ \A m \in Mutants : value'[m] > 0 => \E u \in Threads : Mine(u, m)' > 0
  BY <1>1 DEF MutantInv
<1>3. \A m \in Mutants, u \in Threads : held'[u][m] > 0 => owner'[m] = u
  BY DEF MutantInv
<1>4. ASSUME NEW u \in Threads, pc'[u] = "releasing"
      PROVE  OwnRelease(u, call[u])'
  BY <1>4 DEF MutantInv, Others, OwnRelease
<1>5. QED
  BY <1>2, <1>3, <1>4 DEF MutantInv

\* The sleepers other than t stay unsatisfied if the step does not signal what they wait on.
LEMMA SleepersStay ==
    ASSUME SleepInv, NEW t \in Threads, Others(t), pc'[t] # "asleep",
           \A u \in Threads \ {t}, o \in Objects :
               pc'[u] = "asleep" /\ On(u, o) /\ ~Signaled(u, o) => ~Signaled(u, o)'
    PROVE  SleepInv'
<1>1. ASSUME NEW u \in Threads, NEW o \in Objects, pc'[u] = "asleep", call'[u].objs = <<o>>
      PROVE  ~Signaled(u, o)'
  <2>1. u # t /\ pc[u] = "asleep" /\ On(u, o)
    BY <1>1 DEF Others, On
  <2>2. QED
    BY <1>1, <2>1 DEF SleepInv
<1>2. QED
  BY <1>1 DEF SleepInv, On

-----------------------------------------------------------------------------

\* post_execution raises the counts of the mutants and lowers the rest.
LEMMA Consumed ==
    ASSUME TypeOK, NEW O \in SUBSET Objects, \A o \in O : o \notin Mutants => value[o] > 0,
           Consume(O)
    PROVE  /\ value' \in [Objects -> Nat]
           /\ \A m \in Mutants : value'[m] = IF m \in O THEN value[m] + 1 ELSE value[m]
           /\ \A o \in Objects : o \notin Mutants => value'[o] <= value[o]
<1>1. \A o \in Objects : value[o] \in Nat
  BY DEF TypeOK
<1>2. \A o \in Objects : value'[o] = IF o \in O \cap AutoEvents THEN 0
                                     ELSE IF o \in O \cap Semaphores THEN value[o] - 1
                                     ELSE IF o \in O \cap Mutants THEN value[o] + 1
                                     ELSE value[o]
  BY DEF Consume
<1>3. \A o \in Objects : o \in O \cap Semaphores => value[o] > 0
  BY PosixWaitAssumption
<1>4. \A o \in Objects : value'[o] \in Nat
  BY <1>1, <1>2, <1>3
<1>5. value' = [o \in Objects |-> value'[o]]
  BY DEF Consume
<1>6. \A m \in Mutants : value'[m] = IF m \in O THEN value[m] + 1 ELSE value[m]
  BY <1>2, PosixWaitAssumption DEF Objects, Events
<1>7. \A o \in Objects : o \notin Mutants => value'[o] <= value[o]
  BY <1>1, <1>2
<1>8. value' \in [Objects -> Nat]
  BY <1>4, <1>5
<1>9. QED
  BY <1>6, <1>7, <1>8

\* Whoever may take a mutant, its lock free or its own, is the one that has it if anyone has.
LEMMA NobodyElseHasIt ==
    ASSUME TypeOK, LockInv, MutantInv, NEW t \in Threads, NEW m \in Mutants, Signaled(t, m),
           lock[m] \in {NoThread, t}, pc[t] # "owning"
    PROVE  /\ value[m] = Mine(t, m)
           /\ \A u \in Threads \ {t} : Mine(u, m) = 0
<1>1. \A u \in Threads : Mine(u, m) \in Nat
  BY DEF Mine, TypeOK
<1>2. value[m] \in Nat
  BY DEF TypeOK, Objects
<1>3. CASE value[m] = 0
  <2>1. \A u \in Threads : ~ (Mine(u, m) > 0)
    BY <1>3 DEF MutantInv
  <2>2. QED
    BY <1>1, <1>3, <2>1
<1>4. CASE value[m] > 0
  <2>1. owner[m] = t
    BY <1>4 DEF Signaled
  <2>2. PICK u \in Threads : Mine(u, m) > 0
    BY <1>4 DEF MutantInv
  <2>3. u = t
    <3>1. CASE held[u][m] > 0
      BY <2>1, <3>1 DEF MutantInv
    <3>2. CASE ~ (held[u][m] > 0)
      <4>1. pc[u] = "owning" /\ m \in call[u].got
        BY <2>2, <3>2 DEF Mine, TypeOK
      <4>2. lock[m] = u
        BY <4>1 DEF LockInv
      <4>3. QED
        BY <4>2, PosixWaitAssumption
    <3>3. QED
      BY <3>1, <3>2
  <2>4. value[m] = Mine(t, m)
    BY <2>2, <2>3 DEF MutantInv
  <2>5. \A v \in Threads \ {t} : ~ (Mine(v, m) > 0)
    BY <2>2, <2>3 DEF MutantInv
  <2>6. QED
    BY <1>1, <2>4, <2>5
<1>5. QED
  BY <1>2, <1>3, <1>4

\* A wait that is satisfied, by objects whose locks are free or the thread's own.
LEMMA Satisfied ==
    ASSUME WaitInv, NEW t \in Threads, NEW O \in SUBSET Objects,
           pc[t] \notin {"owning"},
           \A o \in O : Signaled(t, o) /\ lock[o] \in {NoThread, t},
           Satisfy(t, O)
    PROVE  WaitInv'
<1> USE DEF WaitInv
<1>1. /\ value' \in [Objects -> Nat]
      /\ \A m \in Mutants : value'[m] = IF m \in O THEN value[m] + 1 ELSE value[m]
      /\ \A o \in Objects : o \notin Mutants => value'[o] <= value[o]
  <2>1. Consume(O) /\ \A o \in O : o \notin Mutants => value[o] > 0
    BY DEF Satisfy, Signaled
  <2>2. QED
    BY <2>1, Consumed
<1>2. owner' = owner /\ held' = held
  BY DEF Satisfy
<1>3. \A u \in Threads, o \in Objects : ~Signaled(u, o) => ~Signaled(u, o)'
  <2>1. \A o \in Objects : value[o] \in Nat /\ value'[o] \in Nat
    BY <1>1 DEF TypeOK
  <2>2. \A o \in Objects, u \in Threads : o \in Mutants /\ ~Signaled(u, o) => ~Signaled(u, o)'
    BY <1>1, <1>2, <2>1 DEF Signaled
  <2>3. \A o \in Objects, u \in Threads : o \notin Mutants /\ ~Signaled(u, o) => ~Signaled(u, o)'
    BY <1>1, <2>1 DEF Signaled
  <2>4. QED
    BY <2>2, <2>3
<1>4. CASE O \cap Mutants = {}
  <2>1. /\ GotoNotify(t, "idle", O \cap Semaphores)
        /\ call' = [call EXCEPT ![t] = NoCall]
        /\ UnlockAll(t)
    BY <1>4 DEF Satisfy
  <2>2. /\ Others(t)
        /\ pc' \in [Threads -> Labels] /\ pc'[t] = "idle"
        /\ call' \in [Threads -> Calls] /\ call'[t] = NoCall
    BY <2>1, NoCallFields, GoneNotifying DEF Labels
  <2>3. TypeOK'
    BY <1>1, <1>2, <2>1, <2>2 DEF TypeOK, UnlockAll
  <2>4. LockInv'
    BY <2>1, <2>2, LocksGivenBack
  <2>5. MutantInv'
    BY <1>1, <1>2, <1>4, <2>2, MutantsStay
  <2>6. SleepInv'
    BY <1>3, <2>2, SleepersStay
  <2>7. QED
    BY <2>3, <2>4, <2>5, <2>6
<1>5. CASE O \cap Mutants # {}
  <2>1. /\ GotoNotify(t, "owning", O \cap Semaphores)
        /\ call' = [call EXCEPT ![t].got = O]
        /\ lock' = [o \in Objects |-> IF o \in O THEN t ELSE lock[o]]
    BY <1>5 DEF Satisfy
  <2> DEFINE c == [call[t] EXCEPT !.got = O]
  <2>2. call[t] \in Calls /\ call' = [call EXCEPT ![t] = c]
    BY <2>1 DEF TypeOK
  <2>3. c \in Calls /\ c.got = O
    BY <2>2, CallUpdates
  <2> HIDE DEF c
  <2>4. /\ Others(t)
        /\ pc' \in [Threads -> Labels] /\ pc'[t] = "owning"
        /\ call' \in [Threads -> Calls] /\ call'[t] = c
    BY <2>1, <2>2, <2>3, GoneNotifying DEF Labels
  <2>5. TypeOK'
    BY <1>1, <1>2, <2>1, <2>4 DEF TypeOK
  <2>6. LockInv'
    <3>1. \A o \in Objects, u \in Threads \ {t} : lock[o] = u => lock'[o] = u
      BY <2>1, PosixWaitAssumption
    <3>2. ASSUME NEW o \in Objects, lock'[o] # NoThread
          PROVE  pc'[lock'[o]] \in {"trying", "owning"}
      <4>1. CASE lock'[o] = t
        BY <2>4, <4>1
      <4>2. CASE lock'[o] # t
        <5>1. lock'[o] = lock[o] /\ lock[o] \in Threads \ {t}
          BY <2>1, <3>2, <4>2 DEF TypeOK
        <5>2. pc[lock[o]] \in {"trying", "owning"}
          BY <3>2, <5>1 DEF LockInv
        <5>3. QED
          BY <2>4, <5>1, <5>2 DEF Others
      <4>3. QED
        BY <4>1, <4>2
    <3>3. ASSUME NEW u \in Threads, pc'[u] = "owning"
          PROVE  \A o \in call'[u].got : lock'[o] = u
      <4>1. CASE u = t
        BY <2>1, <2>3, <2>4, <4>1
      <4>2. CASE u # t
        <5>1. pc[u] = "owning" /\ call'[u].got = call[u].got /\ call[u].got \subseteq Objects
          BY <2>4, <3>3, <4>2 DEF Others, TypeOK, Calls
        <5>2. QED
          BY <3>1, <4>2, <5>1 DEF LockInv
      <4>3. QED
        BY <4>1, <4>2
    <3>4. ASSUME NEW u \in Threads, pc'[u] = "trying"
          PROVE  /\ call'[u].locked <= Len(call'[u].objs)
                 /\ \A i \in 1 .. call'[u].locked : lock'[call'[u].objs[i]] = u
      <4>1. u # t /\ pc[u] = "trying" /\ call'[u] = call[u]
        BY <2>4, <3>4 DEF Others
      <4>2. /\ call[u].locked <= Len(call[u].objs)
            /\ \A i \in 1 .. call[u].locked : lock[call[u].objs[i]] = u
        BY <4>1 DEF LockInv
      <4>3. call[u].objs \in Seq(Objects) /\ call[u].locked \in Nat
        BY DEF TypeOK, Calls
      <4>4. \A i \in 1 .. call[u].locked : call[u].objs[i] \in Objects
        BY <4>2, <4>3
      <4>5. QED
        BY <3>1, <4>1, <4>2, <4>4
    <3>5. \A u \in Threads : pc'[u] = "polling" => call'[u].locked = 0
      BY <2>4 DEF LockInv, Others
    <3>6. QED
      BY <3>2, <3>3, <3>4, <3>5 DEF LockInv
  <2>7. MutantInv'
    <3>1. \A u \in Threads \ {t}, m \in Mutants : Mine(u, m)' = Mine(u, m)
      BY <1>2, <2>4 DEF Mine, Others
    <3>2. \A m \in Mutants : Mine(t, m) = held[t][m] /\ held[t][m] \in Nat
      BY DEF Mine, TypeOK
    <3>3. \A m \in Mutants : Mine(t, m)' = Mine(t, m) + IF m \in O THEN 1 ELSE 0
      BY <1>2, <2>3, <2>4, <3>2 DEF Mine
    <3>4. \A m \in Mutants : m \in O => /\ value[m] = Mine(t, m)
                                         /\ \A u \in Threads \ {t} : Mine(u, m) = 0
      BY NobodyElseHasIt
    <3>5. ASSUME NEW m \in Mutants
          PROVE  /\ \A u, v \in Threads : Mine(u, m)' > 0 /\ Mine(v, m)' > 0 => u = v
                 /\ \A u \in Threads : Mine(u, m)' > 0 => value'[m] = Mine(u, m)'
                 /\ value'[m] > 0 => \E u \in Threads : Mine(u, m)' > 0
      <4>1. CASE m \in O
        <5>1. value'[m] = Mine(t, m)' /\ \A u \in Threads \ {t} : Mine(u, m)' = 0
          BY <1>1, <3>1, <3>3, <3>4, <4>1
        <5>2. QED
          BY <5>1
      <4>2. CASE m \notin O
        <5>1. value'[m] = value[m] /\ \A u \in Threads : Mine(u, m)' = Mine(u, m)
          BY <1>1, <3>1, <3>2, <3>3, <4>2
        <5>2. QED
          BY <5>1 DEF MutantInv
      <4>3. QED
        BY <4>1, <4>2
    <3>6. \A m \in Mutants, u \in Threads : held'[u][m] > 0 => owner'[m] = u
      BY <1>2 DEF MutantInv
    <3>7. ASSUME NEW u \in Threads, pc'[u] = "releasing"
          PROVE  OwnRelease(u, call[u])'
      BY <1>2, <2>4, <3>7 DEF MutantInv, Others, OwnRelease
    <3>8. QED
      BY <3>5, <3>6, <3>7 DEF MutantInv
  <2>8. SleepInv'
    BY <1>3, <2>4, SleepersStay
  <2>9. QED
    BY <2>5, <2>6, <2>7, <2>8
<1>6. QED
  BY <1>4, <1>5

-----------------------------------------------------------------------------

\* A thread whose predicate is false falls asleep on the object.
LEMMA AsleepUnsatisfied ==
    ASSUME WaitInv, NEW t \in Threads, NEW o \in Objects, NEW c \in Calls, c.objs = <<o>>,
           pc[t] \notin {"trying", "owning"}, ~Signaled(t, o), FallAsleep(t, c)
    PROVE  WaitInv'
<1> USE DEF WaitInv
<1>1. UNCHANGED <<value, owner, lock, held>>
  BY DEF FallAsleep
<1>2. /\ Others(t)
      /\ pc' \in [Threads -> Labels] /\ pc'[t] = "asleep"
      /\ call' \in [Threads -> Calls] /\ call'[t] = c
      /\ \A u \in Threads \ {t} : pc'[u] = pc[u]
  BY GoneTo DEF FallAsleep, Labels
<1>3. TypeOK'
  BY <1>1, <1>2 DEF TypeOK
<1>4. LockInv'
  BY <1>1, <1>2, LocksStay
<1>5. MutantInv'
  BY <1>1, <1>2, MutantsStay
<1>6. SleepInv'
  <2>1. ASSUME NEW u \in Threads, NEW p \in Objects, pc'[u] = "asleep", call'[u].objs = <<p>>
        PROVE  ~Signaled(u, p)'
    <3>1. CASE u = t
      BY <1>1, <1>2, <2>1, <3>1 DEF Signaled
    <3>2. CASE u # t
      BY <1>1, <1>2, <2>1, <3>2 DEF Signaled, SleepInv, Others, On
    <3>3. QED
      BY <3>1, <3>2
  <2>2. QED
    BY <2>1 DEF SleepInv, On
<1>7. QED
  BY <1>3, <1>4, <1>5, <1>6

\* A step that changes only where a thread without locks stands, and its call.
LEMMA MovesOn ==
    ASSUME WaitInv, NEW t \in Threads, NEW label \in Labels, NEW c \in Calls,
           Goto(t, label), call' = [call EXCEPT ![t] = c],
           UNCHANGED <<value, owner, lock, held>>,
           pc[t] \notin {"trying", "owning"}, label \notin {"owning", "asleep"},
           label \in {"trying", "polling"} => c.locked = 0,
           label = "releasing" => OwnRelease(t, c)
    PROVE  WaitInv'
<1> USE DEF WaitInv
<1>1. /\ Others(t)
      /\ pc' \in [Threads -> Labels] /\ pc'[t] = label
      /\ call' \in [Threads -> Calls] /\ call'[t] = c
      /\ \A u \in Threads \ {t} : pc'[u] = pc[u]
  BY GoneTo
<1>2. TypeOK'
  BY <1>1 DEF TypeOK
<1>3. LockInv'
  BY <1>1, LocksStay
<1>4. MutantInv'
  BY <1>1, MutantsStay
<1>5. SleepInv'
  BY <1>1, SleepersStay DEF Signaled
<1>6. QED
  BY <1>2, <1>3, <1>4, <1>5

-----------------------------------------------------------------------------

\* The waits on one object.

LEMMA WaitStep ==
    ASSUME WaitInv, NEW t \in Threads, NEW o \in Objects, NEW timed \in BOOLEAN, Wait(t, o, timed)
    PROVE  WaitInv'
<1>1. pc[t] = "idle" /\ lock[o] = NoThread
  BY DEF Wait, Free
<1>2. CASE Signaled(t, o) /\ Satisfy(t, {o})
  BY <1>1, <1>2, Satisfied
<1>3. CASE ~Signaled(t, o) /\ FallAsleep(t, Call(<<o>>, FALSE, timed))
  <2>1. Call(<<o>>, FALSE, timed) \in Calls /\ Call(<<o>>, FALSE, timed).objs = <<o>>
    BY SingletonList, CallFields
  <2>2. QED
    BY <1>1, <1>3, <2>1, AsleepUnsatisfied
<1>4. QED
  BY <1>2, <1>3 DEF Wait

LEMMA RecheckStep ==
    ASSUME WaitInv, NEW t \in Threads, NEW o \in Objects, Recheck(t, o) \/ AndWait(t, o)
    PROVE  WaitInv'
<1>1. pc[t] \in {"woken", "andWait"} /\ lock[o] = NoThread /\ call[t].objs = <<o>>
  BY DEF Recheck, AndWait, Free, On
<1>2. CASE Signaled(t, o) /\ Satisfy(t, {o})
  BY <1>1, <1>2, Satisfied
<1>3. CASE ~Signaled(t, o) /\ FallAsleep(t, call[t])
  <2>1. call[t] \in Calls
    BY DEF WaitInv, TypeOK
  <2>2. QED
    BY <1>1, <1>3, <2>1, AsleepUnsatisfied
<1>4. ASSUME NEW timed \in BOOLEAN, ~Signaled(t, o),
             FallAsleep(t, [call[t] EXCEPT !.timed = timed])
      PROVE  WaitInv'
  <2> DEFINE c == [call[t] EXCEPT !.timed = timed]
  <2>1. c \in Calls /\ c.objs = <<o>>
    BY <1>1 DEF WaitInv, TypeOK, Calls
  <2>2. QED
    BY <1>1, <1>4, <2>1, AsleepUnsatisfied
<1>5. QED
  BY <1>2, <1>3, <1>4 DEF Recheck, AndWait

LEMMA TimeOutStep ==
    ASSUME WaitInv, NEW t \in Threads, NEW o \in Objects, TimeOut(t, o)
    PROVE  WaitInv'
<1>1. pc[t] \in {"asleep", "woken"} /\ lock[o] = NoThread
  BY DEF TimeOut, Free
<1>2. CASE Signaled(t, o) /\ Satisfy(t, {o})
  BY <1>1, <1>2, Satisfied
<1>3. CASE /\ Goto(t, "idle")
           /\ call' = [call EXCEPT ![t] = NoCall]
           /\ UNCHANGED <<value, owner, lock, held>>
  BY <1>1, <1>3, NoCallFields, MovesOn DEF Labels
<1>4. QED
  BY <1>2, <1>3 DEF TimeOut

-----------------------------------------------------------------------------

\* WaitMultiple.

LEMMA WaitMultipleStep ==
    ASSUME WaitInv, NEW t \in Threads, NEW objs \in HandleLists, NEW all \in BOOLEAN,
           NEW timed \in BOOLEAN, WaitMultiple(t, objs, all, timed)
    PROVE  WaitInv'
<1>1. objs \in Seq(Objects)
  BY PosixWaitAssumption
<1>2. Call(objs, all, timed) \in Calls /\ Call(objs, all, timed).locked = 0
  BY <1>1, CallFields
<1>3. QED
  BY <1>2, MovesOn DEF WaitMultiple, Labels

LEMMA PollAgainStep ==
    ASSUME WaitInv, NEW t \in Threads, PollAgain(t)
    PROVE  WaitInv'
<1>1. call[t] \in Calls /\ call = [call EXCEPT ![t] = call[t]]
  BY DEF WaitInv, TypeOK
<1>2. call[t].locked = 0
  BY DEF WaitInv, LockInv, PollAgain
<1>3. QED
  BY <1>1, <1>2, MovesOn DEF PollAgain, Labels

\* Giving all locks back, to start over, to sleep, or to return.
LEMMA UnlockStep ==
    ASSUME WaitInv, NEW t \in Threads, NEW label \in {"trying", "polling", "idle"},
           pc[t] = "trying", Unlock(t, label)
    PROVE  WaitInv'
<1> USE DEF WaitInv
<1> DEFINE c == IF label = "idle" THEN NoCall ELSE [call[t] EXCEPT !.locked = 0]
<1>1. call[t] \in Calls /\ call' = [call EXCEPT ![t] = c]
  BY DEF Unlock, TypeOK
<1>2. c \in Calls /\ c.locked = 0
  <2>1. [call[t] EXCEPT !.locked = 0] \in Calls /\ [call[t] EXCEPT !.locked = 0].locked = 0
    BY <1>1, CallUpdates
  <2>2. QED
    BY <2>1, NoCallFields
<1> HIDE DEF c
<1>3. Goto(t, label) /\ UnlockAll(t) /\ UNCHANGED <<value, owner, held>> /\ label \in Labels
  BY DEF Unlock, Labels
<1>4. /\ Others(t)
      /\ pc' \in [Threads -> Labels] /\ pc'[t] = label
      /\ call' \in [Threads -> Calls] /\ call'[t] = c
  BY <1>1, <1>2, <1>3, GoneTo
<1>5. TypeOK'
  BY <1>3, <1>4 DEF TypeOK, UnlockAll
<1>6. LockInv'
  BY <1>2, <1>3, <1>4, LocksGivenBack
<1>7. MutantInv'
  BY <1>3, <1>4, MutantsStay
<1>8. SleepInv'
  BY <1>3, <1>4, SleepersStay DEF Signaled
<1>9. QED
  BY <1>5, <1>6, <1>7, <1>8

\* One more lock.
LEMMA CollectStep ==
    ASSUME WaitInv, NEW t \in Threads, pc[t] = "trying", call[t].locked < Len(call[t].objs),
           Collect(t, NextHandle(t))
    PROVE  WaitInv'
<1> USE DEF WaitInv
<1> DEFINE c == [call[t] EXCEPT !.locked = call[t].locked + 1]
           o == NextHandle(t)
<1>1. /\ call[t] \in Calls /\ call[t].objs \in Seq(Objects) /\ call[t].locked \in Nat
      /\ Len(call[t].objs) \in Nat
  BY DEF TypeOK, Calls
<1>2. call' = [call EXCEPT ![t] = c] /\ UNCHANGED <<value, owner, pc, held>>
  BY DEF Collect
<1>3. c \in Calls /\ c.locked = call[t].locked + 1 /\ c.objs = call[t].objs /\ c.got = call[t].got
  <2> DEFINE n == call[t].locked + 1
  <2>1. n \in Nat /\ c = [call[t] EXCEPT !.locked = n]
    BY <1>1
  <2> HIDE DEF n, c
  <2>2. c \in Calls /\ c.locked = n /\ c.objs = call[t].objs /\ c.got = call[t].got
    BY <1>1, <2>1, CallUpdates
  <2>3. QED
    BY <2>2 DEF n
<1>4. o \in Objects /\ o = call[t].objs[call[t].locked + 1]
  BY <1>1 DEF NextHandle
<1>5. lock[o] = NoThread /\ lock' = [lock EXCEPT ![o] = t]
  BY DEF Collect, Free
<1> HIDE DEF c, o
<1>6. /\ Others(t) /\ pc'[t] = "trying"
      /\ call' \in [Threads -> Calls] /\ call'[t] = c
  BY <1>2, <1>3 DEF Others, TypeOK
<1>7. TypeOK'
  BY <1>2, <1>4, <1>5, <1>6 DEF TypeOK
<1>8. LockInv'
  <2>1. \A p \in Objects : lock'[p] = IF p = o THEN t ELSE lock[p]
    BY <1>4, <1>5 DEF TypeOK
  <2>2. \A p \in Objects, u \in Threads : lock[p] = u => lock'[p] = u
    BY <1>5, <2>1, PosixWaitAssumption
  <2>3. \A p \in Objects : lock'[p] # NoThread => pc'[lock'[p]] \in {"trying", "owning"}
    BY <1>2, <2>1 DEF LockInv
  <2>4. ASSUME NEW u \in Threads, pc'[u] = "owning"
        PROVE  \A p \in call'[u].got : lock'[p] = u
    <3>1. pc[u] = "owning" /\ call'[u].got = call[u].got /\ call[u].got \subseteq Objects
      BY <1>2, <1>3, <1>6, <2>4 DEF Others, TypeOK, Calls
    <3>2. QED
      BY <2>2, <3>1 DEF LockInv
  <2>5. ASSUME NEW u \in Threads, pc'[u] = "trying"
        PROVE  /\ call'[u].locked <= Len(call'[u].objs)
               /\ \A i \in 1 .. call'[u].locked : lock'[call'[u].objs[i]] = u
    <3>1. call[u].objs \in Seq(Objects) /\ call[u].locked \in Nat
      BY DEF TypeOK, Calls
    <3>2. /\ call[u].locked <= Len(call[u].objs)
          /\ \A i \in 1 .. call[u].locked : lock[call[u].objs[i]] = u
      BY <1>2, <2>5 DEF LockInv
    <3>3. \A i \in 1 .. call[u].locked : lock'[call[u].objs[i]] = u
      BY <2>2, <3>1, <3>2
    <3>4. CASE u # t
      BY <1>6, <3>2, <3>3, <3>4 DEF Others
    <3>5. CASE u = t
      <4>1. call'[u].locked = call[u].locked + 1 /\ call'[u].objs = call[u].objs
        BY <1>3, <1>6, <3>5
      <4>2. lock'[call[u].objs[call[u].locked + 1]] = u
        BY <1>4, <2>1, <3>5
      <4>3. \A i \in 1 .. call[u].locked + 1 : i \in 1 .. call[u].locked \/ i = call[u].locked + 1
        BY <3>1
      <4>4. call[u].locked + 1 <= Len(call[u].objs)
        BY <1>1, <3>5
      <4>5. QED
        BY <3>3, <4>1, <4>2, <4>3, <4>4
    <3>6. QED
      BY <3>4, <3>5
  <2>6. \A u \in Threads : pc'[u] = "polling" => call'[u].locked = 0
    BY <1>6 DEF LockInv, Others
  <2>7. QED
    BY <2>3, <2>4, <2>5, <2>6 DEF LockInv
<1>9. MutantInv'
  BY <1>2, <1>6, MutantsStay
<1>10. SleepInv'
  BY <1>2, <1>6, SleepersStay DEF Signaled
<1>11. QED
  BY <1>7, <1>8, <1>9, <1>10

LEMMA TryLockStep ==
    ASSUME WaitInv, NEW t \in Threads, TryLock(t)
    PROVE  WaitInv'
BY CollectStep, UnlockStep DEF TryLock

\* With all locks held the objects that satisfy the wait are t's own to consume.
LEMMA EvaluateStep ==
    ASSUME WaitInv, NEW t \in Threads, Evaluate(t)
    PROVE  WaitInv'
<1>1. pc[t] = "trying" /\ call[t].locked = Len(call[t].objs)
  BY DEF Evaluate
<1>2. Handles(t) \subseteq Objects /\ \A o \in Handles(t) : lock[o] = t
  <2>1. call[t].objs \in Seq(Objects)
    BY DEF WaitInv, TypeOK, Calls
  <2>2. \A i \in 1 .. Len(call[t].objs) : lock[call[t].objs[i]] = t
    BY <1>1 DEF WaitInv, LockInv
  <2>3. QED
    BY <2>1, <2>2, RangeOfSeq DEF Handles
<1>3. CASE ConditionMet(t) /\ Satisfy(t, IF call[t].all THEN Handles(t) ELSE {FirstReady(t)})
  <2> DEFINE O == IF call[t].all THEN Handles(t) ELSE {FirstReady(t)}
  <2>1. O \subseteq Ready(t)
    <3>1. CASE call[t].all
      BY <1>3, <3>1 DEF ConditionMet
    <3>2. CASE ~call[t].all
      BY <1>3, <3>2, FirstIsReady DEF ConditionMet, WaitInv
    <3>3. QED
      BY <3>1, <3>2
  <2>2. O \in SUBSET Objects /\ \A o \in O : Signaled(t, o) /\ lock[o] \in {NoThread, t}
    BY <1>2, <2>1 DEF Ready
  <2>3. Satisfy(t, O)
    BY <1>3
  <2> HIDE DEF O
  <2>4. QED
    BY <1>1, <2>2, <2>3, Satisfied
<1>4. CASE Unlock(t, "polling") \/ Unlock(t, "idle")
  BY <1>1, <1>4, UnlockStep
<1>5. QED
  BY <1>3, <1>4 DEF Evaluate

-----------------------------------------------------------------------------

\* Signalling.

LEMMA ThensAreLists == ASSUME NEW t \in Threads, NEW then \in Thens(t) PROVE then \in Seq(Objects)
<1>1. <<>> \in Seq(Objects)
  OBVIOUS
<1>2. QED
  BY <1>1, SingletonList DEF Thens, Waitable

\* An event or a semaphore gets a new count, and those asleep on it are notified.
LEMMA Signalled ==
    ASSUME WaitInv, NEW t \in Threads, NEW o \in Objects, o \notin Mutants, NEW n \in Nat,
           NEW label \in {"idle", "andWait", "pulsing"}, NEW c \in Calls,
           pc[t] = "idle", value' = [value EXCEPT ![o] = n],
           GotoNotify(t, label, {o}), call' = [call EXCEPT ![t] = c],
           UNCHANGED <<owner, lock, held>>
    PROVE  WaitInv'
<1> USE DEF WaitInv
<1>1. /\ Others(t)
      /\ pc' \in [Threads -> Labels] /\ pc'[t] = label
      /\ call' \in [Threads -> Calls] /\ call'[t] = c
      /\ \A u \in Threads \ {t} : pc'[u] = "asleep" => ~On(u, o)
  <2>1. label \in Labels
    BY DEF Labels
  <2>2. QED
    BY <2>1, GoneNotifying
<1>2. value' \in [Objects -> Nat] /\ \A p \in Objects : p # o => value'[p] = value[p]
  BY DEF TypeOK
<1>3. TypeOK'
  BY <1>1, <1>2 DEF TypeOK
<1>4. LockInv'
  BY <1>1, LocksStay
<1>5. MutantInv'
  <2>1. \A m \in Mutants : value'[m] = value[m]
    BY <1>2 DEF Objects
  <2>2. QED
    BY <1>1, <2>1, MutantsStay
<1>6. SleepInv'
  <2>1. \A u \in Threads \ {t}, p \in Objects :
            pc'[u] = "asleep" /\ On(u, p) /\ ~Signaled(u, p) => ~Signaled(u, p)'
    BY <1>1, <1>2 DEF Signaled
  <2>2. QED
    BY <1>1, <2>1, SleepersStay
<1>7. QED
  BY <1>3, <1>4, <1>5, <1>6

\* An event is no longer signaled.
LEMMA Unsignalled ==
    ASSUME WaitInv, NEW t \in Threads, NEW e \in Events, NEW c \in Calls,
           pc[t] \in {"idle", "pulsing"}, value' = [value EXCEPT ![e] = 0],
           Goto(t, "idle"), call' = [call EXCEPT ![t] = c],
           UNCHANGED <<owner, lock, held>>
    PROVE  WaitInv'
<1> USE DEF WaitInv
<1>1. /\ Others(t)
      /\ pc' \in [Threads -> Labels] /\ pc'[t] = "idle"
      /\ call' \in [Threads -> Calls] /\ call'[t] = c
  BY GoneTo DEF Labels
<1>2. value' \in [Objects -> Nat] /\ \A p \in Objects : value'[p] = IF p = e THEN 0 ELSE value[p]
  BY DEF TypeOK, Objects, Events
<1>3. e \notin Mutants
  BY PosixWaitAssumption
<1>4. TypeOK'
  BY <1>1, <1>2 DEF TypeOK
<1>5. LockInv'
  BY <1>1, LocksStay
<1>6. MutantInv'
  <2>1. \A m \in Mutants : value'[m] = value[m]
    BY <1>2, <1>3 DEF Objects
  <2>2. QED
    BY <1>1, <2>1, MutantsStay
<1>7. SleepInv'
  <2>1. \A u \in Threads, p \in Objects : ~Signaled(u, p) => ~Signaled(u, p)'
    BY <1>2, <1>3 DEF Signaled
  <2>2. QED
    BY <1>1, <2>1, SleepersStay
<1>8. QED
  BY <1>4, <1>5, <1>6, <1>7

LEMMA EventsAreObjects == \A e \in Events : e \in Objects /\ e \notin Mutants
BY PosixWaitAssumption DEF Objects, Events

LEMMA SetStep ==
    ASSUME WaitInv, NEW t \in Threads, NEW e \in Events, NEW then \in Thens(t), Set(t, e, then)
    PROVE  WaitInv'
<1>1. Call(then, FALSE, FALSE) \in Calls
  BY ThensAreLists, CallFields
<1>2. QED
  BY <1>1, EventsAreObjects, Signalled DEF Set, ThenWait

LEMMA PulseStep ==
    ASSUME WaitInv, NEW t \in Threads, NEW e \in Events, Pulse(t, e)
    PROVE  WaitInv'
<1>1. Call(<<e>>, FALSE, FALSE) \in Calls
  BY EventsAreObjects, SingletonList, CallFields
<1>2. QED
  BY <1>1, EventsAreObjects, Signalled DEF Pulse

LEMMA ReleaseSemaphoreStep ==
    ASSUME WaitInv, NEW t \in Threads, NEW s \in Semaphores, NEW n \in Nat, NEW then \in Thens(t),
           ReleaseSemaphore(t, s, n, then)
    PROVE  WaitInv'
<1>1. Call(then, FALSE, FALSE) \in Calls
  BY ThensAreLists, CallFields
<1>2. s \in Objects /\ s \notin Mutants
  BY PosixWaitAssumption DEF Objects
<1>3. value[s] + n \in Nat /\ value' = [value EXCEPT ![s] = value[s] + n]
  BY <1>2 DEF ReleaseSemaphore, WaitInv, TypeOK
<1>4. QED
  BY <1>1, <1>2, <1>3, Signalled DEF ReleaseSemaphore, ThenWait

LEMMA ResetStep ==
    ASSUME WaitInv, NEW t \in Threads, NEW e \in Events, Reset(t, e) \/ PulseReset(t, e)
    PROVE  WaitInv'
<1>1. CASE Reset(t, e)
  <2>1. call[t] \in Calls /\ call' = [call EXCEPT ![t] = call[t]]
    BY <1>1 DEF Reset, WaitInv, TypeOK
  <2>2. Goto(t, "idle")
    BY <1>1 DEF Reset, Goto, WaitInv, TypeOK
  <2>3. QED
    BY <1>1, <2>1, <2>2, Unsignalled DEF Reset
<1>2. CASE PulseReset(t, e)
  BY <1>2, NoCallFields, Unsignalled DEF PulseReset
<1>3. QED
  BY <1>1, <1>2

-----------------------------------------------------------------------------

\* Release() of a mutant, by a thread that has acquired it ...
LEMMA CheckReleaseStep ==
    ASSUME ~StrayRelease, WaitInv, NEW t \in Threads, NEW m \in Mutants, NEW then \in Thens(t),
           CheckRelease(t, m, then)
    PROVE  WaitInv'
<1> DEFINE c == Call(<<m>> \o then, FALSE, FALSE)
<1>1. m \in Objects
  BY DEF Objects
<1>2. <<m>> \o then \in Seq(Objects) /\ <<m>> \o then # <<>> /\ Head(<<m>> \o then) = m
  BY <1>1, ThensAreLists, HeadOfList
<1>3. c \in Calls /\ c.objs = <<m>> \o then
  BY <1>2, CallFields
<1>4. OwnRelease(t, c)
  BY <1>2, <1>3 DEF OwnRelease, CheckRelease
<1>5. call' = [call EXCEPT ![t] = c]
  BY DEF CheckRelease
<1> HIDE DEF c
<1>6. QED
  BY <1>3, <1>4, <1>5, MovesOn DEF CheckRelease, Labels

\* ... which is still the only one that has it when it takes the lock.
LEMMA ReleaseMutantStep ==
    ASSUME WaitInv, NEW t \in Threads, NEW m \in Mutants, ReleaseMutant(t, m)
    PROVE  WaitInv'
<1> USE DEF WaitInv
<1> DEFINE then  == Tail(call[t].objs)
           label == IF then = <<>> THEN "idle" ELSE "andWait"
           O     == IF value[m] = 1 THEN {m} ELSE {}
           c     == Call(then, FALSE, FALSE)
<1>1. pc[t] = "releasing" /\ Head(call[t].objs) = m
  BY DEF ReleaseMutant
<1>2. call[t].objs # <<>> /\ held[t][m] > 0
  BY <1>1 DEF MutantInv, OwnRelease
<1>3. then \in Seq(Objects)
  BY <1>2 DEF TypeOK, Calls
<1>4. c \in Calls
  BY <1>3, CallFields
<1>5. GotoNotify(t, label, O) /\ call' = [call EXCEPT ![t] = c] /\ label \in Labels
  BY DEF ReleaseMutant, ThenWait, Labels
<1>6. label # "asleep" /\ label # "owning" /\ label # "releasing" /\ label # "trying"
      /\ label # "polling"
  OBVIOUS
<1> HIDE DEF c, then, label
<1>7. /\ Others(t)
      /\ pc' \in [Threads -> Labels] /\ pc'[t] = label
      /\ call' \in [Threads -> Calls] /\ call'[t] = c
      /\ \A u \in Threads \ {t} : pc'[u] = "asleep" => \A o \in O : ~On(u, o)
  BY <1>4, <1>5, GoneNotifying
<1>8. /\ m \in Objects /\ owner' = owner /\ lock' = lock
      /\ value[m] \in Nat /\ held[t][m] \in Nat /\ value \in [Objects -> Nat]
      /\ held \in [Threads -> [Mutants -> Nat]]
  BY DEF Objects, ReleaseMutant, TypeOK
<1>9. Mine(t, m) = held[t][m] /\ value[m] = held[t][m]
  <2>1. Mine(t, m) = held[t][m]
    BY <1>1, <1>8 DEF Mine
  <2>2. QED
    BY <1>2, <2>1 DEF MutantInv
<1>10. /\ value' = [value EXCEPT ![m] = value[m] - 1]
       /\ held' = [held EXCEPT ![t][m] = held[t][m] - 1]
  BY <1>2, <1>8 DEF ReleaseMutant
<1>11. /\ value' \in [Objects -> Nat] /\ held' \in [Threads -> [Mutants -> Nat]]
       /\ \A o \in Objects : value'[o] = IF o = m THEN value[m] - 1 ELSE value[o]
       /\ \A u \in Threads, p \in Mutants :
             held'[u][p] = IF u = t /\ p = m THEN held[t][m] - 1 ELSE held[u][p]
  BY <1>2, <1>8, <1>9, <1>10
<1>12. TypeOK'
  BY <1>7, <1>8, <1>11 DEF TypeOK
<1>13. LockInv'
  BY <1>1, <1>6, <1>7, <1>8, LocksStay
<1>14. MutantInv'
  <2>1. \A u \in Threads, p \in Mutants :
            Mine(u, p)' = IF u = t /\ p = m THEN held[t][m] - 1 ELSE Mine(u, p)
    <3>1. \A u \in Threads : pc'[u] = "owning" => pc[u] = "owning" /\ call'[u] = call[u]
      BY <1>6, <1>7 DEF Others
    <3>2. \A u \in Threads : pc[u] = "owning" => pc'[u] = "owning" /\ call'[u] = call[u]
      BY <1>1, <1>7 DEF Others
    <3>3. pc[t] # "owning" /\ pc'[t] # "owning"
      BY <1>1, <1>6, <1>7
    <3>4. \A p \in Mutants : Mine(t, p)' = held'[t][p] + 0 /\ Mine(t, p) = held[t][p] + 0
      BY <3>3 DEF Mine
    <3>5. \A p \in Mutants : Mine(t, p)' = IF p = m THEN held[t][m] - 1 ELSE Mine(t, p)
      BY <1>8, <1>11, <3>4
    <3>6. \A u \in Threads \ {t}, p \in Mutants : Mine(u, p)' = Mine(u, p)
      BY <1>11, <3>1, <3>2 DEF Mine
    <3>7. QED
      BY <3>5, <3>6
  <2>2. \A u \in Threads, p \in Mutants : Mine(u, p) \in Nat
    BY DEF Mine, TypeOK
  <2>3. \A u \in Threads : u # t => Mine(u, m) = 0
    BY <1>2, <1>9, <2>2 DEF MutantInv
  <2>4. ASSUME NEW p \in Mutants
        PROVE  /\ \A u, v \in Threads : Mine(u, p)' > 0 /\ Mine(v, p)' > 0 => u = v
               /\ \A u \in Threads : Mine(u, p)' > 0 => value'[p] = Mine(u, p)'
               /\ value'[p] > 0 => \E u \in Threads : Mine(u, p)' > 0
    <3>1. CASE p = m
      <4>1. value'[m] = held[t][m] - 1 /\ Mine(t, m)' = held[t][m] - 1
        BY <1>8, <1>9, <1>11, <2>1
      <4>2. \A u \in Threads : u # t => Mine(u, m)' = 0
        BY <2>1, <2>3
      <4>3. QED
        BY <3>1, <4>1, <4>2
    <3>2. CASE p # m
      <4>1. value'[p] = value[p] /\ \A u \in Threads : Mine(u, p)' = Mine(u, p)
        BY <1>11, <2>1, <3>2 DEF Objects
      <4>2. QED
        BY <4>1 DEF MutantInv
    <3>3. QED
      BY <3>1, <3>2
  <2>5. \A p \in Mutants, u \in Threads : held'[u][p] > 0 => owner'[p] = u
    <3>1. \A p \in Mutants, u \in Threads : held'[u][p] > 0 => held[u][p] > 0
      BY <1>2, <1>11
    <3>2. QED
      BY <1>8, <3>1 DEF MutantInv
  <2>6. ASSUME NEW u \in Threads, pc'[u] = "releasing"
        PROVE  OwnRelease(u, call[u])'
    <3>1. u # t /\ pc[u] = "releasing" /\ call'[u] = call[u]
      BY <1>6, <1>7, <2>6 DEF Others
    <3>2. OwnRelease(u, call[u])
      BY <3>1 DEF MutantInv
    <3>3. QED
      BY <1>11, <3>1, <3>2 DEF OwnRelease
  <2>7. QED
    BY <2>4, <2>5, <2>6 DEF MutantInv
<1>15. SleepInv'
  <2>1. ASSUME NEW u \in Threads \ {t}, NEW o \in Objects,
               pc'[u] = "asleep", On(u, o), ~Signaled(u, o)
        PROVE  ~Signaled(u, o)'
    <3>1. CASE o = m
      <4>1. value[m] # 1
        BY <1>7, <2>1, <3>1
      <4>2. value'[m] # 0 /\ owner[m] # u
        BY <1>2, <1>8, <1>9, <1>11, <2>1, <3>1, <4>1 DEF Signaled
      <4>3. QED
        BY <1>8, <3>1, <4>2 DEF Signaled
    <3>2. CASE o # m
      BY <1>8, <1>11, <2>1, <3>2 DEF Signaled
    <3>3. QED
      BY <3>1, <3>2
  <2>2. QED
    BY <1>6, <1>7, <2>1, SleepersStay
<1>16. QED
  BY <1>12, <1>13, <1>14, <1>15

\* owner_ is stored, and what the wait got is the caller's.
LEMMA StoreOwnerStep ==
    ASSUME WaitInv, NEW t \in Threads, StoreOwner(t)
    PROVE  WaitInv'
<1> USE DEF WaitInv
<1> DEFINE O == call[t].got
<1>1. pc[t] = "owning" /\ value' = value /\ UnlockAll(t)
  BY DEF StoreOwner
<1>2. O \subseteq Objects /\ \A o \in O : lock[o] = t
  BY <1>1 DEF TypeOK, Calls, LockInv
<1>3. /\ Others(t)
      /\ pc' \in [Threads -> Labels] /\ pc'[t] = "idle"
      /\ call' \in [Threads -> Calls] /\ call'[t] = NoCall
      /\ \A u \in Threads \ {t} : pc'[u] = pc[u]
  BY NoCallFields, GoneTo DEF StoreOwner, Labels
<1>4. \A m \in Mutants : owner'[m] = IF m \in O THEN t ELSE owner[m]
  BY DEF StoreOwner
<1>5. owner' \in [Mutants -> Threads \cup {NoThread}]
  BY DEF StoreOwner, TypeOK
<1>6. /\ held \in [Threads -> [Mutants -> Nat]]
      /\ held' = [held EXCEPT ![t] = [m \in Mutants |-> held[t][m] + IF m \in O THEN 1 ELSE 0]]
  BY DEF StoreOwner, TypeOK
<1>7. held' \in [Threads -> [Mutants -> Nat]]
  BY <1>6
<1>8. \A u \in Threads, m \in Mutants :
          held'[u][m] = IF u = t /\ m \in O THEN held[u][m] + 1 ELSE held[u][m]
  BY <1>6
<1>9. \A u \in Threads, m \in Mutants : Mine(u, m)' = Mine(u, m)
  <2>1. \A m \in Mutants : Mine(t, m)' = Mine(t, m)
    BY <1>1, <1>3, <1>6, <1>8 DEF Mine
  <2>2. \A u \in Threads \ {t}, m \in Mutants : Mine(u, m)' = Mine(u, m)
    BY <1>3, <1>8 DEF Mine, Others
  <2>3. QED
    BY <2>1, <2>2
<1>10. \A m \in Mutants, u \in Threads : m \in O /\ u # t => Mine(u, m) = 0 /\ held[u][m] = 0
  <2>1. \A m \in Mutants, u \in Threads : Mine(u, m) \in Nat /\ held[u][m] \in Nat
    BY DEF Mine, TypeOK
  <2>2. \A m \in Mutants : m \in O => Mine(t, m) > 0
    BY <1>1, <1>6 DEF Mine
  <2>3. \A m \in Mutants, u \in Threads : Mine(u, m) = 0 => held[u][m] = 0
    BY <1>6 DEF Mine
  <2>4. QED
    BY <2>1, <2>2, <2>3 DEF MutantInv
<1>11. TypeOK'
  BY <1>1, <1>3, <1>5, <1>7 DEF TypeOK, UnlockAll
<1>12. LockInv'
  BY <1>1, <1>3, LocksGivenBack
<1>13. MutantInv'
  <2>1. /\ \A m \in Mutants, u, v \in Threads : Mine(u, m)' > 0 /\ Mine(v, m)' > 0 => u = v
        /\ \A m \in Mutants, u \in Threads : Mine(u, m)' > 0 => value'[m] = Mine(u, m)'
        /\ \A m \in Mutants : value'[m] > 0 => \E u \in Threads : Mine(u, m)' > 0
    BY <1>1, <1>9 DEF MutantInv
  <2>2. \A m \in Mutants, u \in Threads : held'[u][m] > 0 => owner'[m] = u
    BY <1>4, <1>8, <1>10 DEF MutantInv
  <2>3. ASSUME NEW u \in Threads, pc'[u] = "releasing"
        PROVE  OwnRelease(u, call[u])'
    <3>1. u # t /\ pc[u] = "releasing" /\ call'[u] = call[u]
      BY <1>3, <2>3 DEF Others
    <3>2. OwnRelease(u, call[u])
      BY <3>1 DEF MutantInv
    <3>3. QED
      BY <1>8, <3>1, <3>2 DEF OwnRelease
  <2>4. QED
    BY <2>1, <2>2, <2>3 DEF MutantInv
<1>14. SleepInv'
  <2>1. \A u \in Threads \ {t}, o \in Objects : ~Signaled(u, o) => ~Signaled(u, o)'
    BY <1>1, <1>4 DEF Signaled
  <2>2. QED
    BY <1>3, <2>1, SleepersStay
<1>15. QED
  BY <1>11, <1>12, <1>13, <1>14
-----------------------------------------------------------------------------

LEMMA WaitInit == Init => WaitInv
<1> SUFFICES ASSUME Init PROVE WaitInv
  OBVIOUS
<1>1. TypeOK
  <2>1. value \in [Objects -> Nat]
    BY PosixWaitAssumption DEF Init
  <2>2. call \in [Threads -> Calls]
    BY NoCallFields DEF Init
  <2>3. held \in [Threads -> [Mutants -> Nat]]
    BY DEF Init
  <2>4. pc \in [Threads -> Labels]
    BY DEF Init, Labels
  <2>5. QED
    BY <2>1, <2>2, <2>3, <2>4 DEF Init, TypeOK
<1>2. \A t \in Threads : pc[t] = "idle"
  BY DEF Init
<1>3. LockInv
  BY <1>2 DEF Init, LockInv
<1>4. MutantInv
  <2>1. \A t \in Threads, m \in Mutants : held[t][m] = IF owner[m] = t THEN 1 ELSE 0
    BY DEF Init
  <2>2. \A t \in Threads, m \in Mutants : Mine(t, m) = IF owner[m] = t THEN 1 ELSE 0
    BY <1>2, <2>1 DEF Mine
  <2>3. \A m \in Mutants : value[m] = IF owner[m] = NoThread THEN 0 ELSE 1
    BY DEF Init
  <2>4. \A m \in Mutants, t, u \in Threads : Mine(t, m) > 0 /\ Mine(u, m) > 0 => t = u
    BY <2>2
  <2>5. \A m \in Mutants, t \in Threads : Mine(t, m) > 0 => value[m] = Mine(t, m)
    BY <2>2, <2>3, PosixWaitAssumption
  <2>6. \A m \in Mutants : value[m] > 0 => \E t \in Threads : Mine(t, m) > 0
    <3>1. \A m \in Mutants : value[m] > 0 => owner[m] \in Threads
      BY <1>1, <2>3 DEF TypeOK
    <3>2. QED
      BY <2>2, <3>1
  <2>7. \A m \in Mutants, t \in Threads : held[t][m] > 0 => owner[m] = t
    BY <2>1
  <2>8. QED
    BY <1>2, <2>4, <2>5, <2>6, <2>7 DEF MutantInv
<1>5. SleepInv
  BY <1>2 DEF SleepInv
<1>6. QED
  BY <1>1, <1>3, <1>4, <1>5 DEF WaitInv

LEMMA WaitStutter == ASSUME WaitInv, UNCHANGED vars PROVE WaitInv'
<1>1. UNCHANGED <<value, owner, lock, pc, call, held>>
  BY DEF vars
<1>2. TypeOK'
  BY <1>1 DEF WaitInv, TypeOK
<1>3. LockInv'
  BY <1>1 DEF WaitInv, LockInv
<1>4. MutantInv'
  BY <1>1 DEF WaitInv, MutantInv, Mine, OwnRelease
<1>5. SleepInv'
  BY <1>1 DEF WaitInv, SleepInv, On, Signaled
<1>6. QED
  BY <1>2, <1>3, <1>4, <1>5 DEF WaitInv

LEMMA WaitNext == ASSUME ~StrayRelease, WaitInv, Next PROVE WaitInv'
<1>1. PICK t \in Threads : Begin(t) \/ Continue(t) \/ \E o \in Objects : TimeOut(t, o)
  BY DEF Next
<1>2. ASSUME Begin(t) PROVE WaitInv'
  <2>1. ASSUME NEW o \in Waitable(t), NEW timed \in BOOLEAN, Wait(t, o, timed) PROVE WaitInv'
    <3>1. o \in Objects
      BY DEF Waitable
    <3>2. QED
      BY <2>1, <3>1, WaitStep
  <2>2. ASSUME NEW objs \in WaitLists(t), NEW all \in BOOLEAN, NEW timed \in BOOLEAN,
               WaitMultiple(t, objs, all, timed)
        PROVE  WaitInv'
    <3>1. objs \in HandleLists
      BY DEF WaitLists
    <3>2. QED
      BY <2>2, <3>1, WaitMultipleStep
  <2>3. ASSUME NEW e \in Events, Reset(t, e) \/ Pulse(t, e) PROVE WaitInv'
    BY <2>3, ResetStep, PulseStep
  <2>4. ASSUME NEW e \in Events, NEW then \in Thens(t), Set(t, e, then) PROVE WaitInv'
    BY <2>4, SetStep
  <2>5. ASSUME NEW s \in Semaphores, NEW then \in Thens(t),
               ReleaseSemaphore(t, s, 1, then) \/ ReleaseSemaphore(t, s, 2, <<>>)
        PROVE  WaitInv'
    <3>1. <<>> \in Thens(t)
      BY DEF Thens
    <3>2. QED
      BY <2>5, <3>1, ReleaseSemaphoreStep
  <2>6. ASSUME NEW m \in Mutants, NEW then \in Thens(t), CheckRelease(t, m, then) PROVE WaitInv'
    BY <2>6, CheckReleaseStep
  <2>7. QED
    BY <1>2, <2>1, <2>2, <2>3, <2>4, <2>5, <2>6 DEF Begin
<1>3. ASSUME Continue(t) PROVE WaitInv'
  BY <1>3, RecheckStep, StoreOwnerStep, TryLockStep, EvaluateStep, PollAgainStep, ResetStep,
     ReleaseMutantStep DEF Continue
<1>4. ASSUME NEW o \in Objects, TimeOut(t, o) PROVE WaitInv'
  BY <1>4, TimeOutStep
<1>5. QED
  BY <1>1, <1>2, <1>3, <1>4

\* As long as nobody releases a mutant it has not acquired, the waits keep their
\* invariant, whatever the threads, the objects and the lists they wait on.
THEOREM WaitInvariance == ASSUME ~StrayRelease PROVE Spec => []WaitInv
<1>1. WaitInv /\ [Next]_vars => WaitInv'
  BY WaitNext, WaitStutter
<1>2. QED
  BY <1>1, WaitInit, PTL DEF Spec

\* A thread asleep on an object has not missed the change that would satisfy it: Set(),
\* Release() and Pulse() notify under mutex_ every sleeper they could satisfy.
THEOREM NoMissedWakeupHolds == ASSUME ~StrayRelease PROVE Spec => []NoMissedWakeup
<1>1. WaitInv => NoMissedWakeup
  BY DEF WaitInv, SleepInv, NoMissedWakeup
<1>2. QED
  BY <1>1, WaitInvariance, PTL

\* A mutant is held by one thread at a time, as often as its count says, although
\* count_ and owner_ are stored one after the other and Release() reads them unlocked.
THEOREM MutantExclusionHolds == ASSUME ~StrayRelease PROVE Spec => []MutantExclusion
<1>1. ASSUME WaitInv PROVE MutantExclusion
  <2> USE <1>1 DEF WaitInv
  <2>1. \A t \in Threads, m \in Mutants : held[t][m] \in Nat /\ Mine(t, m) \in Nat
    BY DEF TypeOK, Mine
  <2>2. \A t \in Threads, m \in Mutants : held[t][m] > 0 => Mine(t, m) > 0
    BY <2>1 DEF Mine
  <2>3. ASSUME NEW m \in Mutants, NEW t \in Threads, held[t][m] > 0
        PROVE  \A u \in Threads \ {t} : held[u][m] = 0
    BY <2>1, <2>2, <2>3 DEF MutantInv
  <2>4. ASSUME NEW m \in Mutants, NEW t \in Threads, held[t][m] > 0, Free(m)
        PROVE  value[m] = held[t][m] /\ owner[m] = t
    <3>1. ~ (pc[t] = "owning" /\ m \in call[t].got)
      BY <2>4, PosixWaitAssumption DEF LockInv, Free
    <3>2. Mine(t, m) = held[t][m]
      BY <2>1, <3>1 DEF Mine
    <3>3. QED
      BY <2>4, <3>2 DEF MutantInv
  <2>5. QED
    BY <2>3, <2>4 DEF MutantExclusion
<1>2. QED
  BY <1>1, WaitInvariance, PTL

\* Who keeps an object locked is about to store the owner, or collects locks and has not
\* more than its list asks for: TryLock and Evaluate then have a disjunct for whatever
\* the next lock and the objects are.  It is never asleep, polling or out of the wait.
HolderIsInPassing ==
    \A o \in Objects : ~Free(o) =>
        \/ pc[lock[o]] = "owning"
        \/ pc[lock[o]] = "trying" /\ call[lock[o]].locked <= Len(call[lock[o]].objs)

THEOREM HolderIsInPassingHolds == ASSUME ~StrayRelease PROVE Spec => []HolderIsInPassing
<1>1. WaitInv => HolderIsInPassing
  BY DEF WaitInv, TypeOK, LockInv, HolderIsInPassing, Free
<1>2. QED
  BY <1>1, WaitInvariance, PTL

-----------------------------------------------------------------------------

\* The critical region that a mutant is: depth is what the callers have acquired of it.
Acquired(m) == [t \in Threads |-> held[t][m]]
Region(m)   == INSTANCE CriticalRegion WITH depth <- Acquired(m)

\* Only the store of the owner and the decrement of Release() change what is acquired.
LEMMA AcquiredElsewhere ==
    ASSUME NEW t \in Threads, Begin(t) \/ Continue(t) \/ \E o \in Objects : TimeOut(t, o),
           ~StoreOwner(t), \A m \in Mutants : ~ReleaseMutant(t, m)
    PROVE  UNCHANGED held
<1>1. CASE Begin(t)
  BY <1>1 DEF Begin, Wait, WaitMultiple, Reset, Pulse, Set, ReleaseSemaphore, CheckRelease,
              Satisfy, FallAsleep
<1>2. CASE Continue(t)
  BY <1>2 DEF Continue, Recheck, AndWait, TryLock, Collect, Unlock, Evaluate, PollAgain,
              PulseReset, Satisfy, FallAsleep
<1>3. CASE \E o \in Objects : TimeOut(t, o)
  BY <1>3 DEF TimeOut, Satisfy
<1>4. QED
  BY <1>1, <1>2, <1>3

\* A mutant is a recursive critical region like the two mutexes and the guest's critical
\* section, from whatever it is created with: a thread enters it when nobody else is
\* inside, as often as it likes, and leaves it as often.
THEOREM MutantIsRegion ==
    ASSUME ~StrayRelease, NEW m \in Mutants
    PROVE  Spec => [][Region(m)!Next]_(Acquired(m))
<1>1. ASSUME WaitInv, [Next]_vars
      PROVE  [Region(m)!Next]_(Acquired(m))
  <2> USE <1>1 DEF WaitInv
  <2>1. held \in [Threads -> [Mutants -> Nat]]
    BY DEF TypeOK
  <2>2. \A u, v \in Threads : Mine(u, m) > 0 /\ Mine(v, m) > 0 => u = v
    BY DEF MutantInv
  <2>3. ASSUME NEW t \in Threads, StoreOwner(t)
        PROVE  [Region(m)!Next]_(Acquired(m))
    <3>1. held' = [held EXCEPT ![t] = [n \in Mutants |->
                       held[t][n] + IF n \in call[t].got THEN 1 ELSE 0]]
      BY <2>3 DEF StoreOwner
    <3>2. CASE m \in call[t].got
      <4>1. Mine(t, m) > 0
        BY <2>1, <2>3, <3>2 DEF Mine, StoreOwner
      <4>2. \A u \in Threads \ {t} : Acquired(m)[u] = 0
        BY <2>1, <2>2, <4>1 DEF Acquired, Mine
      <4>3. Acquired(m)' = [Acquired(m) EXCEPT ![t] = @ + 1]
        BY <2>1, <3>1, <3>2 DEF Acquired
      <4>4. QED
        BY <4>2, <4>3 DEF Region!Next, Region!Enter
    <3>3. CASE m \notin call[t].got
      BY <2>1, <3>1, <3>3 DEF Acquired
    <3>4. QED
      BY <3>2, <3>3
  <2>4. ASSUME NEW t \in Threads, NEW n \in Mutants, ReleaseMutant(t, n)
        PROVE  [Region(m)!Next]_(Acquired(m))
    <3>1. held[t][n] > 0
      BY <2>4 DEF ReleaseMutant, MutantInv, OwnRelease
    <3>2. held' = [held EXCEPT ![t][n] = held[t][n] - 1]
      BY <2>1, <2>4, <3>1 DEF ReleaseMutant
    <3>3. CASE n = m
      <4>1. Acquired(m)' = [Acquired(m) EXCEPT ![t] = @ - 1] /\ Acquired(m)[t] > 0
        BY <2>1, <3>1, <3>2, <3>3 DEF Acquired
      <4>2. QED
        BY <4>1 DEF Region!Next, Region!Leave
    <3>4. CASE n # m
      BY <2>1, <3>2, <3>4 DEF Acquired
    <3>5. QED
      BY <3>3, <3>4
  <2>5. ASSUME UNCHANGED held
        PROVE  [Region(m)!Next]_(Acquired(m))
    BY <2>5 DEF Acquired
  <2>6. CASE Next
    BY <2>3, <2>4, <2>5, <2>6, AcquiredElsewhere DEF Next
  <2>7. CASE UNCHANGED vars
    BY <2>5, <2>7 DEF vars
  <2>8. QED
    BY <2>6, <2>7
<1>2. QED
  BY <1>1, WaitInvariance, PTL DEF Spec

-----------------------------------------------------------------------------

(* A thread. *)

Endings == {"finished", "exiting", "stuck", "dead"}

\* Where the thread can be, before it has started and once it has ended.
ThreadShape ==
    /\ place \in Endings => ended
    /\ ~create_suspended => place \notin {"gap", "startWait"}
    /\ ~ended => state_ # "kFinished"
    /\ ~ended => (place = "created" <=> ~Started)
    /\ ~ended /\ ~Started => /\ InFlight = 0 /\ handlers = 0
                             /\ suspend_sem_ = 0 /\ suspend_count_ = 0
    /\ ~create_suspended /\ ~ended /\ Started =>
          (state_ = "kSuspended" <=> suspend_count_ > 0)

\* What a Terminate() has done when it has come so far.
Termination == /\ terminating + cancelling > 0 \/ cancelled => ended
               /\ cancelling > 0 \/ cancelled => signaled_
               /\ place = "exiting" => signaled_

\* The books of a thread that was created suspended: its first Resume() posts the
\* semaphore although the thread waits on state_signal_, so there is always one post
\* more than the waits begun or on their way call for.
SparePost ==
    create_suspended /\ ~ended /\ Started =>
        pending + killing + handlers + One(place = "selfWait") + 1
        = suspend_sem_ + One(state_ = "kSuspended")

ThreadInv == /\ ThreadTypeOK /\ ThreadShape /\ Termination
             /\ SuspendAccounting /\ SparePost /\ DeadIsSignaled

\* One step of the thread or of a caller keeps ThreadInv.
LEMMA ThreadStep ==
    ASSUME ThreadInv, [ThreadNext]_threadVars
    PROVE  ThreadInv'
<1> USE PosixThreadAssumption
    DEF ThreadInv, ThreadTypeOK, ThreadShape, Termination, SuspendAccounting, SparePost,
        DeadIsSignaled, Endings, States, Places, Executing, Guest, Started, Lockable,
        InFlight, One, stateVars, ownVars, callerVars, history
<1>1. CASE Start
  BY <1>1 DEF Start
<1>2. CASE StartSuspended
  BY <1>2 DEF StartSuspended
<1>3. CASE StartResumed
  BY <1>3 DEF StartResumed
<1>4. CASE SelfResumed
  BY <1>4 DEF SelfResumed
<1>5. CASE FinishStore
  BY <1>5 DEF FinishStore
<1>6. CASE FinishSignal
  BY <1>6 DEF FinishSignal
<1>7. CASE Return
  BY <1>7 DEF Return
<1>8. CASE SuspendSelf
  BY <1>8 DEF SuspendSelf
<1>9. CASE FinishLock
  BY <1>9 DEF FinishLock
<1>10. CASE Exit
  BY <1>10 DEF Exit
<1>11. CASE Deliver
  BY <1>11 DEF Deliver
<1>12. CASE HandlerReturn
  BY <1>12 DEF HandlerReturn
<1>13. CASE Die
  <2>1. locked' \in BOOLEAN
    BY <1>13 DEF Die
  <2>2. ended /\ signaled_
    BY <1>13 DEF Die
  <2>3. QED BY <1>13, <2>1, <2>2 DEF Die
<1>14. CASE Suspend
  BY <1>14 DEF Suspend
<1>15. CASE Kill
  BY <1>15 DEF Kill
<1>16. CASE Resume
  BY <1>16 DEF Resume
<1>17. CASE Terminate
  BY <1>17 DEF Terminate
<1>18. CASE TerminateSignal
  BY <1>18 DEF TerminateSignal
<1>19. CASE Cancel
  BY <1>19 DEF Cancel
<1>20. CASE Join
  BY <1>20 DEF Join
<1>21. CASE Joined
  BY <1>21 DEF Joined
<1>22. CASE UNCHANGED threadVars
  BY <1>22 DEF threadVars
<1>23. QED
  BY <1>1, <1>2, <1>3, <1>4, <1>5, <1>6, <1>7, <1>8, <1>9, <1>10, <1>11, <1>12, <1>13, <1>14,
     <1>15, <1>16, <1>17, <1>18, <1>19, <1>20, <1>21, <1>22 DEF ThreadNext, OwnStep

\* ThreadInv in every reachable state.
THEOREM ThreadInvariance == ThreadSpec => []ThreadInv
<1>1. ASSUME ThreadInit PROVE ThreadInv
  <2> USE <1>1, PosixThreadAssumption DEF ThreadInit, Started, InFlight
  <2>1. ThreadTypeOK
    <3>1. promised = 0 \/ promised = 1
      OBVIOUS
    <3>2. /\ signaled_ \in BOOLEAN /\ locked \in BOOLEAN
          /\ cancelled \in BOOLEAN /\ joining \in BOOLEAN /\ ended \in BOOLEAN
          /\ create_suspended \in BOOLEAN
      OBVIOUS
    <3>3. /\ suspend_count_ \in 0 .. MaxSuspend /\ promised \in 0 .. MaxSuspend
          /\ suspend_sem_ \in Nat /\ handlers \in 0 .. 1
          /\ pending \in Nat /\ killing \in Nat /\ InFlight <= MaxInFlight
          /\ terminating \in Nat /\ cancelling \in Nat /\ terminating + cancelling <= MaxInFlight
      BY <3>1
    <3>4. QED BY <3>2, <3>3 DEF ThreadTypeOK, States, Places
  <2>2. ThreadShape
    BY DEF ThreadShape, Endings
  <2>3. Termination /\ DeadIsSignaled
    BY DEF Termination, DeadIsSignaled
  <2>4. SuspendAccounting /\ SparePost
    BY DEF SuspendAccounting, SparePost, One
  <2>5. QED BY <2>1, <2>2, <2>3, <2>4 DEF ThreadInv
<1>2. ThreadInv /\ [ThreadNext]_threadVars => ThreadInv'
  BY ThreadStep
<1>3. QED BY <1>1, <1>2, PTL DEF ThreadSpec

\* The semaphore is exact: every suspension takes effect once and is undone once.
THEOREM SuspendAccountingHolds == ThreadSpec => []SuspendAccounting
BY ThreadInvariance, PTL DEF ThreadInv

\* Type correctness of the thread model.
THEOREM ThreadTypes == ThreadSpec => []ThreadTypeOK
BY ThreadInvariance, PTL DEF ThreadInv

\* A thread created running that is suspended, and whose signal has been delivered,
\* does not run guest code.
THEOREM SuspendedIsParkedHolds == ThreadSpec => []SuspendedIsParked
<1>1. ASSUME ThreadInv PROVE SuspendedIsParked
  <2> SUFFICES ASSUME ~create_suspended, ~ended, Started, suspend_count_ > 0,
                      InFlight = 0, Guest
               PROVE  FALSE
    BY DEF SuspendedIsParked, SuspendStops
  <2>1. state_ = "kSuspended"
    BY <1>1 DEF ThreadInv, ThreadShape
  <2>2. handlers = 0 /\ place # "selfWait"
    BY DEF Guest, Executing
  <2>3. pending + killing = 0 /\ suspend_sem_ \in Nat
    BY <1>1 DEF InFlight, ThreadInv, ThreadTypeOK
  <2>4. QED
    BY <1>1, <2>1, <2>2, <2>3 DEF ThreadInv, SuspendAccounting, One
<1>2. QED BY <1>1, ThreadInvariance, PTL

\* A thread that was created suspended, as all guest threads are, is never held by a
\* suspension: wherever Suspend() or its signal has parked it, the semaphore it waits on
\* has a post, whether or not anybody has called Resume() since.
PassesThrough == create_suspended /\ ~ended /\ Parked => suspend_sem_ > 0

THEOREM PassesThroughHolds == ThreadSpec => []PassesThrough
<1>1. ASSUME ThreadInv, create_suspended, ~ended, Parked PROVE suspend_sem_ > 0
  <2>1. Started
    BY <1>1 DEF ThreadInv, ThreadTypeOK, ThreadShape, Parked
  <2>2. pending \in Nat /\ killing \in Nat /\ suspend_sem_ \in Nat /\ handlers \in 0 .. 1
    BY <1>1 DEF ThreadInv, ThreadTypeOK
  <2>3. handlers + One(place = "selfWait") > 0
    BY <1>1, <2>2 DEF Parked, One
  <2>4. QED
    BY <1>1, <2>1, <2>2, <2>3 DEF ThreadInv, SparePost, One
<1>2. QED BY <1>1, ThreadInvariance, PTL DEF PassesThrough

\* No Resume() is lost: a thread that is parked while its suspend count is 0 finds the
\* post of the Resume() that made it 0, also when that came before the signal was
\* delivered or the wait was begun.
NotStranded == ~ended /\ Parked /\ suspend_count_ = 0 => suspend_sem_ > 0

THEOREM NotStrandedHolds == ThreadSpec => []NotStranded
<1>1. ASSUME ThreadInv, PassesThrough PROVE NotStranded
  <2> SUFFICES ASSUME ~create_suspended, ~ended, Parked, suspend_count_ = 0
               PROVE  suspend_sem_ > 0
    BY <1>1 DEF NotStranded, PassesThrough
  <2>1. Started
    BY <1>1 DEF ThreadInv, ThreadTypeOK, ThreadShape, Parked
  <2>2. state_ # "kSuspended"
    BY <1>1, <2>1 DEF ThreadInv, ThreadShape
  <2>3. pending \in Nat /\ killing \in Nat /\ suspend_sem_ \in Nat /\ handlers \in 0 .. 1
    BY <1>1 DEF ThreadInv, ThreadTypeOK
  <2>4. handlers + One(place = "selfWait") > 0
    BY <2>3 DEF Parked, One
  <2>5. QED
    BY <1>1, <2>2, <2>3, <2>4 DEF ThreadInv, SuspendAccounting, One
<1>2. QED BY <1>1, ThreadInvariance, PassesThroughHolds, PTL

\* Every thread that is gone has signaled its object.
THEOREM DeadIsSignaledHolds == ThreadSpec => []DeadIsSignaled
BY ThreadInvariance, PTL DEF ThreadInv
=============================================================================
