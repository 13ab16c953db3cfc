----------------------------- MODULE MutexProofs -----------------------------
(***************************************************************************)
(* Safety of xe_fast_mutex and of xe_global_mutex, for every set of        *)
(* threads and every spin count.                                           *)
(*                                                                         *)
(* The futex protocol comes first; the instance Futex of GlobalMutex is    *)
(* FastMutex itself.  Its mutual exclusion alone is not inductive: a CAS   *)
(* succeeds on a word that is 0, so the word must be known to be nonzero   *)
(* whenever the lock is held (HeldIffMarked); and the type of `spins'      *)
(* needs that a spinning thread has an iteration left (SpinBudget).        *)
(*                                                                         *)
(* Every step of the recursive lock is a step of the futex protocol or     *)
(* leaves it alone, so these facts hold of its word too.  OwnerInv adds    *)
(* what the owner's plain fields say in each phase, and the refinement of  *)
(* CriticalRegion follows from both.                                       *)
(***************************************************************************)
EXTENDS GlobalMutex, TLAPS

(* xe_fast_mutex. *)

SpinBudget == \A t \in Futex!At("spin") : spins[t] # 0

FutexInv == Futex!TypeOK /\ SpinBudget /\ Futex!MutualExclusion /\ Futex!HeldIffMarked

\* Every step keeps the variables in their ranges and the spin budget positive.
LEMMA FutexTypeStep ==
    ASSUME Futex!TypeOK, SpinBudget, [Futex!Next]_Futex!vars
    PROVE  Futex!TypeOK' /\ SpinBudget'
<1> USE SpinCountAssumption
    DEF Futex!TypeOK, SpinBudget, Futex!At, Futex!Labels, Futex!InLockSlow, Futex!Goto
<1>1. ASSUME NEW t \in Threads, Futex!Lock(t) PROVE Futex!TypeOK' /\ SpinBudget'
  BY <1>1 DEF Futex!Lock, Futex!CompareExchange
<1>2. ASSUME NEW t \in Threads, Futex!TryLock(t) PROVE Futex!TypeOK' /\ SpinBudget'
  BY <1>2 DEF Futex!TryLock, Futex!CompareExchange
<1>3. ASSUME NEW t \in Threads, Futex!Spin(t) PROVE Futex!TypeOK' /\ SpinBudget'
  BY <1>3 DEF Futex!Spin, Futex!CompareExchange
<1>4. ASSUME NEW t \in Threads, Futex!MarkContended(t) PROVE Futex!TypeOK' /\ SpinBudget'
  BY <1>4 DEF Futex!MarkContended
<1>5. ASSUME NEW t \in Threads, Futex!FutexWait(t) PROVE Futex!TypeOK' /\ SpinBudget'
  BY <1>5 DEF Futex!FutexWait
<1>6. ASSUME NEW t \in Threads, Futex!SpuriousWake(t) PROVE Futex!TypeOK' /\ SpinBudget'
  BY <1>6 DEF Futex!SpuriousWake
<1>7. ASSUME NEW t \in Threads, Futex!Retry(t) PROVE Futex!TypeOK' /\ SpinBudget'
  BY <1>7 DEF Futex!Retry, Futex!CompareExchange
<1>8. ASSUME NEW t \in Threads, Futex!Unlock(t) PROVE Futex!TypeOK' /\ SpinBudget'
  BY <1>8 DEF Futex!Unlock
<1>9. ASSUME NEW t \in Threads, Futex!FutexWake(t) PROVE Futex!TypeOK' /\ SpinBudget'
  BY <1>9 DEF Futex!FutexWake, Futex!Asleep
<1>10. CASE UNCHANGED Futex!vars
  BY <1>10 DEF Futex!vars
<1>11. QED
  BY <1>1, <1>2, <1>3, <1>4, <1>5, <1>6, <1>7, <1>8, <1>9, <1>10 DEF Futex!Next, Futex!Continue

\* What the lock protocol does to holders: only a CAS or an exchange on a word
\* that is 0 adds one, and only unlock() removes one, clearing the word.
LEMMA FutexExclusionStep ==
    ASSUME FutexInv, [Futex!Next]_Futex!vars
    PROVE  Futex!MutualExclusion' /\ Futex!HeldIffMarked'
<1> DEFINE Goal == Futex!MutualExclusion' /\ Futex!HeldIffMarked'
<1> USE DEF FutexInv, Futex!TypeOK, Futex!MutualExclusion, Futex!HeldIffMarked, Futex!At,
            Futex!Goto
<1>1. ASSUME NEW t \in Threads, Futex!Lock(t) PROVE Goal
  BY <1>1 DEF Futex!Lock, Futex!CompareExchange
<1>2. ASSUME NEW t \in Threads, Futex!TryLock(t) PROVE Goal
  BY <1>2 DEF Futex!TryLock, Futex!CompareExchange
<1>3. ASSUME NEW t \in Threads, Futex!Spin(t) PROVE Goal
  BY <1>3 DEF Futex!Spin, Futex!CompareExchange
<1>4. ASSUME NEW t \in Threads, Futex!MarkContended(t) PROVE Goal
  BY <1>4 DEF Futex!MarkContended
<1>5. ASSUME NEW t \in Threads, Futex!FutexWait(t) PROVE Goal
  BY <1>5 DEF Futex!FutexWait
<1>6. ASSUME NEW t \in Threads, Futex!SpuriousWake(t) PROVE Goal
  BY <1>6 DEF Futex!SpuriousWake
<1>7. ASSUME NEW t \in Threads, Futex!Retry(t) PROVE Goal
  BY <1>7 DEF Futex!Retry, Futex!CompareExchange
<1>8. ASSUME NEW t \in Threads, Futex!Unlock(t) PROVE Goal
  BY <1>8 DEF Futex!Unlock
<1>9. ASSUME NEW t \in Threads, Futex!FutexWake(t) PROVE Goal
  BY <1>9 DEF Futex!FutexWake, Futex!Asleep
<1>10. CASE UNCHANGED Futex!vars
  BY <1>10 DEF Futex!vars
<1>11. QED
  BY <1>1, <1>2, <1>3, <1>4, <1>5, <1>6, <1>7, <1>8, <1>9, <1>10 DEF Futex!Next, Futex!Continue

\* FutexInv holds in every reachable state of the lock.
THEOREM FutexInvariance == Futex!Spec => []FutexInv
<1>1. Futex!Init => FutexInv
  BY SpinCountAssumption DEF Futex!Init, FutexInv, Futex!TypeOK, SpinBudget,
     Futex!MutualExclusion, Futex!HeldIffMarked,
                             Futex!At, Futex!Labels
<1>2. FutexInv /\ [Futex!Next]_Futex!vars => FutexInv'
  BY FutexTypeStep, FutexExclusionStep DEF FutexInv
<1>3. QED BY <1>1, <1>2, PTL DEF Futex!Spec

\* Type correctness: word, program counters and spin budgets stay in range.
THEOREM FutexTypes == Futex!Spec => []Futex!TypeOK
BY FutexInvariance, PTL DEF FutexInv

\* Mutual exclusion: no two threads are between lock() and unlock() at once.
THEOREM FutexExclusion == Futex!Spec => []Futex!MutualExclusion
BY FutexInvariance, PTL DEF FutexInv

\* The word is 0 exactly when nobody holds the lock.
THEOREM FutexWordTellsHolder == Futex!Spec => []Futex!HeldIffMarked
BY FutexInvariance, PTL DEF FutexInv

\* No wakeup is lost.  NoLostWakeup is inductive given the types: the only
\* steps that clear the mark are unlock() on a marked word, which leaves its
\* thread at the wake, and a wake leaves the sleeper it picked at the retry.
THEOREM FutexNoLostWakeup == Futex!Spec => []Futex!NoLostWakeup
<1>1. Futex!Init => Futex!NoLostWakeup
  BY DEF Futex!Init, Futex!NoLostWakeup, Futex!Asleep, Futex!At
<1>2. Futex!TypeOK /\ Futex!NoLostWakeup /\ [Futex!Next]_Futex!vars => Futex!NoLostWakeup'
  <2> SUFFICES ASSUME Futex!TypeOK, Futex!NoLostWakeup, [Futex!Next]_Futex!vars
               PROVE  Futex!NoLostWakeup'
    OBVIOUS
  <2> USE DEF Futex!TypeOK, Futex!NoLostWakeup, Futex!Asleep, Futex!At, Futex!Goto
  <2>1. ASSUME NEW t \in Threads, Futex!Lock(t) PROVE Futex!NoLostWakeup'
    BY <2>1 DEF Futex!Lock, Futex!CompareExchange
  <2>2. ASSUME NEW t \in Threads, Futex!TryLock(t) PROVE Futex!NoLostWakeup'
    BY <2>2 DEF Futex!TryLock, Futex!CompareExchange
  <2>3. ASSUME NEW t \in Threads, Futex!Spin(t) PROVE Futex!NoLostWakeup'
    BY <2>3 DEF Futex!Spin, Futex!CompareExchange
  <2>4. ASSUME NEW t \in Threads, Futex!MarkContended(t) PROVE Futex!NoLostWakeup'
    BY <2>4 DEF Futex!MarkContended
  <2>5. ASSUME NEW t \in Threads, Futex!FutexWait(t) PROVE Futex!NoLostWakeup'
    BY <2>5 DEF Futex!FutexWait
  <2>6. ASSUME NEW t \in Threads, Futex!SpuriousWake(t) PROVE Futex!NoLostWakeup'
    BY <2>6 DEF Futex!SpuriousWake
  <2>7. ASSUME NEW t \in Threads, Futex!Retry(t) PROVE Futex!NoLostWakeup'
    BY <2>7 DEF Futex!Retry, Futex!CompareExchange
  <2>8. ASSUME NEW t \in Threads, Futex!Unlock(t) PROVE Futex!NoLostWakeup'
    BY <2>8 DEF Futex!Unlock
  <2>9. ASSUME NEW t \in Threads, Futex!FutexWake(t) PROVE Futex!NoLostWakeup'
    BY <2>9 DEF Futex!FutexWake
  <2>10. CASE UNCHANGED Futex!vars
    BY <2>10 DEF Futex!vars
  <2>11. QED
    BY <2>1, <2>2, <2>3, <2>4, <2>5, <2>6, <2>7, <2>8, <2>9, <2>10 DEF Futex!Next, Futex!Continue
<1>3. QED BY <1>1, <1>2, FutexTypes, PTL DEF Futex!Spec
-----------------------------------------------------------------------------

(* xe_global_mutex. *)

\* The lock protocol of xe_global_mutex is the one of xe_fast_mutex.
THEOREM FollowsFutexProtocol == Spec => Futex!Spec
<1>1. Init => Futex!Init
  BY DEF Init
<1>2. [Next]_vars => [Futex!Next]_Futex!vars
  <2> SUFFICES ASSUME [Next]_vars PROVE [Futex!Next]_Futex!vars
    OBVIOUS
  <2> USE DEF futexVars, Futex!vars, Futex!Next, Futex!Continue
  <2>1. ASSUME NEW t \in Threads, LockRecursive(t) PROVE [Futex!Next]_Futex!vars
    BY <2>1 DEF LockRecursive
  <2>2. ASSUME NEW t \in Threads, Lock(t) PROVE Futex!Lock(t)
    BY <2>2 DEF Lock
  <2>3. ASSUME NEW t \in Threads, TryLock(t) PROVE Futex!TryLock(t)
    BY <2>3 DEF TryLock
  <2>4. ASSUME NEW t \in Threads, LockSlow(t) PROVE Futex!Continue(t)
    BY <2>4 DEF LockSlow
  <2>5. ASSUME NEW t \in Threads, TakeOwnership(t) \/ ClearOwner(t) \/ Unlock(t)
        PROVE  [Futex!Next]_Futex!vars
    BY <2>5 DEF TakeOwnership, ClearOwner, Unlock
  <2>6. ASSUME NEW t \in Threads, Release(t) PROVE Futex!Unlock(t)
    BY <2>6 DEF Release
  <2>7. ASSUME NEW t \in Threads, FutexWake(t) PROVE Futex!FutexWake(t)
    BY <2>7 DEF FutexWake
  <2>8. ASSUME NEW t \in Threads, SpuriousWake(t) PROVE Futex!SpuriousWake(t)
    BY <2>8 DEF SpuriousWake
  <2>9. CASE UNCHANGED vars
    BY <2>9 DEF vars
  <2>10. QED
    BY <2>1, <2>2, <2>3, <2>4, <2>5, <2>6, <2>7, <2>8, <2>9 DEF Next, Continue
<1>3. QED BY <1>1, <1>2, PTL DEF Spec, Futex!Spec

\* Where a thread stands in the futex protocol in each phase of a call.
PhaseMatchesWord ==
    \A t \in Threads :
        /\ phase[t] = "out" => pc[t] \in {"idle", "wake"}
        /\ phase[t] = "enter" => pc[t] \in Futex!InLockSlow \cup {"held"}
        /\ phase[t] \in {"in", "disown", "leave"} => pc[t] = "held"

\* The plain fields: who is in owner_, and what the count counts.
OwnerFields ==
    \A t \in Threads :
        /\ owner_ = t <=> phase[t] \in {"in", "disown"}
        /\ depth[t] = IF phase[t] = "in" THEN recursion_count_ ELSE 0
        /\ phase[t] = "in" => recursion_count_ > 0

FieldTypes == /\ owner_ \in Threads \cup {NoThread}
              /\ recursion_count_ \in 0 .. MaxRecursion
              /\ phase \in [Threads -> Phases]
              /\ depth \in [Threads -> 0 .. MaxRecursion]

OwnerInv == FieldTypes /\ PhaseMatchesWord /\ OwnerFields

\* One step of the recursive lock keeps OwnerInv, given what LockInv of the
\* futex protocol says of the word before the step.
LEMMA OwnerStep == FutexInv /\ OwnerInv /\ [Next]_vars => OwnerInv'
<1> SUFFICES ASSUME FutexInv, OwnerInv, [Next]_vars PROVE OwnerInv'
  OBVIOUS
<1> USE GlobalMutexAssumption
    DEF OwnerInv, FieldTypes, PhaseMatchesWord, OwnerFields, Phases, AtCall, GoPhase,
        futexVars, ownerVars, Futex!InLockSlow, Futex!Goto
<1>1. pc \in [Threads -> Futex!Labels]
  BY DEF FutexInv, Futex!TypeOK
<1>2. \A t, u \in Threads : pc[t] = "held" /\ pc[u] = "held" => t = u
  BY DEF FutexInv, Futex!MutualExclusion, Futex!At
<1>3. ASSUME NEW t \in Threads, LockRecursive(t) PROVE OwnerInv'
  BY <1>1, <1>2, <1>3 DEF LockRecursive
<1>4. ASSUME NEW t \in Threads, Lock(t) PROVE OwnerInv'
  BY <1>1, <1>4 DEF Lock, Futex!Lock, Futex!CompareExchange
<1>5. ASSUME NEW t \in Threads, TryLock(t) PROVE OwnerInv'
  BY <1>1, <1>5 DEF TryLock, Futex!TryLock, Futex!CompareExchange
<1>6. ASSUME NEW t \in Threads, LockSlow(t) PROVE OwnerInv'
  BY <1>1, <1>6 DEF LockSlow, Futex!Spin, Futex!MarkContended, Futex!FutexWait,
                    Futex!Retry, Futex!CompareExchange
<1>7. ASSUME NEW t \in Threads, TakeOwnership(t) PROVE OwnerInv'
  BY <1>1, <1>2, <1>7 DEF TakeOwnership
<1>8. ASSUME NEW t \in Threads, Unlock(t) PROVE OwnerInv'
  BY <1>1, <1>2, <1>8 DEF Unlock
<1>9. ASSUME NEW t \in Threads, ClearOwner(t) PROVE OwnerInv'
  BY <1>1, <1>2, <1>9 DEF ClearOwner
<1>10. ASSUME NEW t \in Threads, Release(t) PROVE OwnerInv'
  BY <1>1, <1>10 DEF Release, Futex!Unlock
<1>11. ASSUME NEW t \in Threads, FutexWake(t) PROVE OwnerInv'
  BY <1>1, <1>11 DEF FutexWake, Futex!FutexWake, Futex!Asleep, Futex!At
<1>12. ASSUME NEW t \in Threads, SpuriousWake(t) PROVE OwnerInv'
  BY <1>1, <1>12 DEF SpuriousWake, Futex!SpuriousWake
<1>13. CASE UNCHANGED vars
  BY <1>13 DEF vars
<1>14. QED
  BY <1>3, <1>4, <1>5, <1>6, <1>7, <1>8, <1>9, <1>10, <1>11, <1>12, <1>13
     DEF Next, Continue

\* OwnerInv, together with the invariant of the word, in every reachable state.
THEOREM OwnerInvariance == Spec => [](FutexInv /\ OwnerInv)
<1>1. Init => OwnerInv
  BY GlobalMutexAssumption DEF Init, Futex!Init, OwnerInv, FieldTypes, PhaseMatchesWord,
                               OwnerFields, Phases
<1>2. QED BY <1>1, OwnerStep, FutexInvariance, FollowsFutexProtocol, PTL DEF Spec

\* Type correctness of the recursive lock.
THEOREM TypeCorrectness == Spec => []TypeOK
<1>1. FutexInv /\ OwnerInv => TypeOK
  BY DEF FutexInv, OwnerInv, FieldTypes, TypeOK
<1>2. QED BY <1>1, OwnerInvariance, PTL

\* Two threads are never inside the recursive lock at once.
THEOREM MutualExclusionHolds == Spec => []MutualExclusion
BY FutexExclusion, FollowsFutexProtocol, PTL DEF MutualExclusion

\* No thread sleeps on the recursive lock without a mark or a waker.
THEOREM NoLostWakeupHolds == Spec => []NoLostWakeup
BY FutexNoLostWakeup, FollowsFutexProtocol, PTL DEF NoLostWakeup

\* A thread that finds its id in owner_ holds the region as often as counted.
THEOREM OwnerIsHolderHolds == Spec => []OwnerIsHolder
<1>1. OwnerInv => OwnerIsHolder
  BY DEF OwnerInv, OwnerFields, FieldTypes, Phases, OwnerIsHolder
<1>2. QED BY <1>1, OwnerInvariance, PTL

\* A thread inside the region finds its id in owner_: nesting never blocks.
THEOREM HolderIsOwnerHolds == Spec => []HolderIsOwner
<1>1. OwnerInv => HolderIsOwner
  BY DEF OwnerInv, OwnerFields, PhaseMatchesWord, FieldTypes, HolderIsOwner
<1>2. QED BY <1>1, OwnerInvariance, PTL

\* xe_global_mutex implements the critical region that mutex.h describes:
\* it is entered only while every other thread is outside.
THEOREM RegionRefinement == Spec => ImplementsRegion
<1>1. Init => Region!Init
  BY DEF Init, Region!Init
<1>2. FutexInv /\ OwnerInv /\ [Next]_vars => [Region!Next]_depth
  <2> SUFFICES ASSUME FutexInv, OwnerInv, [Next]_vars PROVE [Region!Next]_depth
    OBVIOUS
  <2>1. \A t, u \in Threads : pc[t] = "held" /\ pc[u] = "held" => t = u
    BY DEF FutexInv, Futex!MutualExclusion, Futex!At
  <2>2. ASSUME NEW t \in Threads, pc[t] = "held"
        PROVE  \A u \in Threads \ {t} : depth[u] = 0
    BY <2>1, <2>2 DEF OwnerInv, OwnerFields, PhaseMatchesWord
  <2>3. ASSUME NEW t \in Threads, LockRecursive(t) PROVE Region!Enter(t)
    BY <2>2, <2>3 DEF LockRecursive, Region!Enter, OwnerInv, OwnerFields, PhaseMatchesWord
  <2>4. ASSUME NEW t \in Threads, TakeOwnership(t) PROVE Region!Enter(t)
    BY <2>2, <2>4 DEF TakeOwnership, Region!Enter
  <2>5. ASSUME NEW t \in Threads, Unlock(t) PROVE Region!Leave(t)
    BY <2>5 DEF Unlock, Region!Leave
  <2>6. ASSUME NEW t \in Threads,
               Lock(t) \/ TryLock(t) \/ LockSlow(t) \/ ClearOwner(t) \/ Release(t)
                  \/ FutexWake(t) \/ SpuriousWake(t)
        PROVE  UNCHANGED depth
    BY <2>6 DEF Lock, TryLock, LockSlow, ClearOwner, Release, FutexWake, SpuriousWake, ownerVars
  <2>7. CASE UNCHANGED vars
    BY <2>7 DEF vars, ownerVars
  <2>8. QED
    BY <2>3, <2>4, <2>5, <2>6, <2>7 DEF Next, Continue, Region!Next
<1>3. QED BY <1>1, <1>2, OwnerInvariance, PTL DEF Spec, Region!Spec, ImplementsRegion
=============================================================================
