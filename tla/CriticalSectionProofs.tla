------------------------- MODULE CriticalSectionProofs -------------------------
(***************************************************************************)
(* Safety of the guest's critical sections for every finite set of         *)
(* threads.  The invariant says what lock_count counts (everybody who is   *)
(* inside or waits, and the nested entries), that the plain fields belong  *)
(* to the one thread that is inside, and that a section somebody uses has  *)
(* exactly one claim in circulation: a holder, a thread about to set the   *)
(* event, or the event.                                                    *)
(***************************************************************************)
EXTENDS CriticalSection, FiniteSetTheorems, TLAPS

Region == INSTANCE CriticalRegion

\* Those whom lock_count counts, and those who have a claim on the section.
Busy      == {t \in Threads : pc[t] \in {"wait", "claimed", "in", "leaving"}}
Claimants == {t \in Threads : pc[t] \in {"claimed", "in", "leaving", "signal"}}

Types == /\ lock_count \in Int
         /\ recursion_count \in 0 .. MaxRecursion
         /\ owning_thread \in Threads \cup {NoThread}
         /\ signaled \in BOOLEAN
         /\ pc \in [Threads -> Places]
         /\ spins \in [Threads -> 0 .. SpinCount]
         /\ depth \in [Threads -> 0 .. MaxRecursion]

CountInv == lock_count = Cardinality(Busy) - 1 +
                         (IF recursion_count = 0 THEN 0 ELSE recursion_count - 1)

FieldInv == /\ \A t \in Threads : owning_thread = t <=> pc[t] = "in"
            /\ recursion_count = 0 <=> owning_thread = NoThread
            /\ \A t \in Threads : depth[t] = IF pc[t] = "in" THEN recursion_count ELSE 0

ClaimInv == /\ \A t, u \in Claimants : t = u
            /\ signaled => Claimants = {}
            /\ signaled \/ Setters # {} => Waiting # {}
            /\ Waiting # {} => Claimants # {} \/ signaled

IInv == Types /\ CountInv /\ FieldInv /\ ClaimInv

\* What a thread learns from the count it sees or leaves behind.
LEMMA CountTells ==
    ASSUME IInv
    PROVE  /\ IsFiniteSet(Busy)
           /\ Cardinality(Busy) \in Nat
           /\ lock_count = -1 <=> Busy = {}
           /\ \A t \in Threads : pc[t] = "leaving" =>
                 recursion_count = 0 /\ (lock_count = 0 <=> Busy = {t})
<1> USE CriticalSectionAssumption DEF IInv, Types
<1>1. IsFiniteSet(Busy)
  BY FS_Subset DEF Busy
<1>2. Cardinality(Busy) \in Nat /\ (Cardinality(Busy) = 0 <=> Busy = {})
  BY <1>1, FS_CardinalityType, FS_EmptySet
<1>3. recursion_count # 0 => Busy # {}
  <2>1. recursion_count # 0 => \E t \in Threads : pc[t] = "in"
    BY DEF FieldInv
  <2>2. QED BY <2>1 DEF Busy
<1>4. lock_count = -1 <=> Busy = {}
  BY <1>2, <1>3 DEF CountInv
<1>5. ASSUME NEW t \in Threads, pc[t] = "leaving"
      PROVE  recursion_count = 0 /\ (lock_count = 0 <=> Busy = {t})
  <2>1. \A u \in Threads : pc[u] # "in"
    BY <1>5 DEF ClaimInv, Claimants
  <2>2. recursion_count = 0
    BY <2>1 DEF FieldInv
  <2>3. t \in Busy
    BY <1>5 DEF Busy
  <2>4. Cardinality(Busy \ {t}) = Cardinality(Busy) - 1 /\ IsFiniteSet(Busy \ {t})
    BY <1>1, <2>3, FS_RemoveElement
  <2>5. Cardinality(Busy \ {t}) = 0 <=> Busy \ {t} = {}
    BY <2>4, FS_EmptySet
  <2>6. lock_count = 0 <=> Busy \ {t} = {}
    BY <2>2, <2>4, <2>5, <1>2 DEF CountInv
  <2>7. QED BY <2>2, <2>3, <2>6
<1>6. QED BY <1>1, <1>2, <1>4, <1>5

LEMMA InitInv == Init => IInv
<1> SUFFICES ASSUME Init PROVE IInv
  OBVIOUS
<1> USE CriticalSectionAssumption
<1>1. Types
  <2>1. signaled \in BOOLEAN
    BY DEF Init
  <2>2. /\ lock_count = -1 /\ recursion_count = 0 /\ owning_thread = NoThread
        /\ pc = [t \in Threads |-> "out"]
        /\ spins = [t \in Threads |-> 0] /\ depth = [t \in Threads |-> 0]
    BY DEF Init
  <2>3. /\ lock_count \in Int /\ recursion_count \in 0 .. MaxRecursion
        /\ owning_thread \in Threads \cup {NoThread}
        /\ pc \in [Threads -> Places]
        /\ spins \in [Threads -> 0 .. SpinCount] /\ depth \in [Threads -> 0 .. MaxRecursion]
    BY <2>2 DEF Places
  <2>4. QED BY <2>1, <2>3 DEF Types
<1>2. Busy = {}
  BY DEF Init, Busy
<1>3. CountInv
  BY <1>2, FS_EmptySet DEF Init, CountInv
<1>4. FieldInv
  BY DEF Init, FieldInv
<1>5. ClaimInv
  BY DEF Init, ClaimInv, Claimants, Setters, Waiting
<1>6. QED BY <1>1, <1>3, <1>4, <1>5 DEF IInv

LEMMA TypesStep == IInv /\ [Next]_vars => Types'
<1> SUFFICES ASSUME IInv, [Next]_vars PROVE Types'
  OBVIOUS
<1> USE CriticalSectionAssumption DEF IInv, Types, Places, Go
<1>1. ASSUME NEW t \in Threads, EnterOwned(t) PROVE Types'
  BY <1>1 DEF EnterOwned, FieldInv
<1>2. ASSUME NEW t \in Threads, Enter(t) PROVE Types'
  BY <1>2 DEF Enter
<1>3. ASSUME NEW t \in Threads, TryEnter(t) PROVE Types'
  BY <1>3 DEF TryEnter
<1>4. ASSUME NEW t \in Threads, LeaveNested(t) PROVE Types'
  BY <1>4 DEF LeaveNested, FieldInv
<1>5. ASSUME NEW t \in Threads, Disown(t) PROVE Types'
  BY <1>5 DEF Disown, FieldInv
<1>6. ASSUME NEW t \in Threads, Spin(t) PROVE Types'
  BY <1>6 DEF Spin
<1>7. ASSUME NEW t \in Threads, Register(t) PROVE Types'
  BY <1>7 DEF Register
<1>8. ASSUME NEW t \in Threads, WaitEvent(t) PROVE Types'
  BY <1>8 DEF WaitEvent
<1>9. ASSUME NEW t \in Threads, TakeOwnership(t) PROVE Types'
  BY <1>9 DEF TakeOwnership, FieldInv
<1>10. ASSUME NEW t \in Threads, Release(t) PROVE Types'
  BY <1>10 DEF Release
<1>11. ASSUME NEW t \in Threads, SetEvent(t) PROVE Types'
  BY <1>11 DEF SetEvent
<1>12. CASE UNCHANGED vars
  BY <1>12 DEF vars
<1>13. QED
  BY <1>1, <1>2, <1>3, <1>4, <1>5, <1>6, <1>7, <1>8, <1>9, <1>10, <1>11, <1>12
  DEF Next, Leave, Continue

\* The count follows the set of those it counts, one step at a time.
LEMMA CountStep == IInv /\ [Next]_vars => CountInv'
<1> SUFFICES ASSUME IInv, [Next]_vars PROVE CountInv'
  OBVIOUS
<1>1. /\ IsFiniteSet(Busy)
      /\ Cardinality(Busy) \in Nat
      /\ lock_count = -1 <=> Busy = {}
      /\ \A t \in Threads : pc[t] = "leaving" => recursion_count = 0
  BY CountTells
<1>2. /\ lock_count \in Int
      /\ recursion_count \in Nat
      /\ pc \in [Threads -> Places]
  BY CriticalSectionAssumption DEF IInv, Types
<1>3. Busy = {} => recursion_count = 0
  BY DEF IInv, FieldInv, Types, Busy
<1> USE <1>1, <1>2 DEF Go
<1>4. ASSUME Busy' = Busy, UNCHANGED <<lock_count, recursion_count>> PROVE CountInv'
  BY <1>4 DEF CountInv, IInv
<1>5. ASSUME NEW t \in Threads, Busy = {}, pc' = [pc EXCEPT ![t] = "claimed"],
             lock_count' = 0, recursion_count' = recursion_count
      PROVE  CountInv'
  <2>1. Busy' = {t}
    BY <1>5 DEF Busy
  <2>2. Cardinality(Busy') = 1
    BY <2>1, FS_Singleton
  <2>3. recursion_count' = 0
    BY <1>3, <1>5
  <2>4. QED BY <2>2, <2>3, <1>5 DEF CountInv
<1>6. ASSUME NEW t \in Threads, EnterOwned(t) PROVE CountInv'
  <2>1. pc[t] = "in" /\ recursion_count > 0
    BY <1>6, CriticalSectionAssumption DEF EnterOwned, IInv, FieldInv
  <2>2. Busy' = Busy
    BY <1>6, <2>1 DEF EnterOwned, Busy
  <2>3. QED BY <1>6, <2>1, <2>2 DEF EnterOwned, CountInv, IInv
<1>7. ASSUME NEW t \in Threads, Enter(t) PROVE CountInv'
  <2>1. pc[t] = "out"
    BY <1>7 DEF Enter, AtCall, IInv, FieldInv
  <2>2. Busy' = Busy
    BY <1>7, <2>1 DEF Enter, Busy
  <2>3. QED BY <1>4, <1>7, <2>2 DEF Enter
<1>8. ASSUME NEW t \in Threads, TryEnter(t) PROVE CountInv'
  <2>1. CASE lock_count = -1
    BY <1>5, <1>8, <2>1 DEF TryEnter
  <2>2. CASE lock_count # -1
    BY <1>4, <1>8, <2>2 DEF TryEnter, Busy
  <2>3. QED BY <2>1, <2>2
<1>9. ASSUME NEW t \in Threads, LeaveNested(t) PROVE CountInv'
  <2>1. Busy' = Busy
    BY <1>9 DEF LeaveNested, Busy
  <2>2. QED BY <1>9, <2>1 DEF LeaveNested, CountInv, IInv
<1>10. ASSUME NEW t \in Threads, Disown(t) PROVE CountInv'
  <2>1. Busy' = Busy
    BY <1>10 DEF Disown, Busy
  <2>2. QED BY <1>10, <2>1 DEF Disown, CountInv, IInv
<1>11. ASSUME NEW t \in Threads, Spin(t) PROVE CountInv'
  <2>1. CASE lock_count = -1
    BY <1>5, <1>11, <2>1 DEF Spin
  <2>2. CASE lock_count # -1
    BY <1>4, <1>11, <2>2 DEF Spin, Busy
  <2>3. QED BY <2>1, <2>2
<1>12. ASSUME NEW t \in Threads, Register(t) PROVE CountInv'
  <2>1. Busy' = Busy \cup {t} /\ t \notin Busy
    BY <1>12 DEF Register, Busy
  <2>2. Cardinality(Busy') = Cardinality(Busy) + 1
    BY <2>1, FS_AddElement
  <2>3. QED BY <1>12, <2>2 DEF Register, CountInv, IInv
<1>13. ASSUME NEW t \in Threads, WaitEvent(t) PROVE CountInv'
  <2>1. Busy' = Busy
    BY <1>13 DEF WaitEvent, Busy
  <2>2. QED BY <1>4, <1>13, <2>1 DEF WaitEvent
<1>14. ASSUME NEW t \in Threads, TakeOwnership(t) PROVE CountInv'
  <2>1. Busy' = Busy
    BY <1>14 DEF TakeOwnership, Busy
  <2>2. recursion_count = 0
    BY <1>14 DEF TakeOwnership, IInv, FieldInv, ClaimInv, Claimants, Types
  <2>3. QED BY <1>14, <2>1, <2>2 DEF TakeOwnership, CountInv, IInv
<1>15. ASSUME NEW t \in Threads, Release(t) PROVE CountInv'
  <2>1. Busy' = Busy \ {t} /\ t \in Busy
    BY <1>15 DEF Release, Busy
  <2>2. Cardinality(Busy') = Cardinality(Busy) - 1
    BY <2>1, FS_RemoveElement
  <2>3. QED BY <1>15, <2>2 DEF Release, CountInv, IInv
<1>16. ASSUME NEW t \in Threads, SetEvent(t) PROVE CountInv'
  <2>1. Busy' = Busy
    BY <1>16 DEF SetEvent, Busy
  <2>2. QED BY <1>4, <1>16, <2>1 DEF SetEvent
<1>17. CASE UNCHANGED vars
  BY <1>4, <1>17 DEF vars, Busy
<1>18. QED
  BY <1>6, <1>7, <1>8, <1>9, <1>10, <1>11, <1>12, <1>13, <1>14, <1>15, <1>16, <1>17
  DEF Next, Leave, Continue

\* The plain fields change hands only between threads that may write them.
LEMMA FieldStep == IInv /\ [Next]_vars => FieldInv'
<1> SUFFICES ASSUME IInv, [Next]_vars PROVE FieldInv'
  OBVIOUS
<1>1. /\ pc \in [Threads -> Places] /\ depth \in [Threads -> 0 .. MaxRecursion]
      /\ recursion_count \in Nat
      /\ owning_thread \in Threads \cup {NoThread}
  BY CriticalSectionAssumption DEF IInv, Types
<1>2. FieldInv
  BY DEF IInv
<1>3. \A t, u \in Threads : t \in Claimants /\ u \in Claimants => t = u
  BY DEF IInv, ClaimInv
<1> USE <1>1, <1>2, CriticalSectionAssumption DEF FieldInv, Go
<1>4. ASSUME NEW t \in Threads, EnterOwned(t) PROVE FieldInv'
  BY <1>4 DEF EnterOwned
<1>5. ASSUME NEW t \in Threads, Enter(t) PROVE FieldInv'
  BY <1>5 DEF Enter
<1>6. ASSUME NEW t \in Threads, TryEnter(t) PROVE FieldInv'
  <2>1. CASE lock_count = -1
    <3>1. pc[t] # "in"
      BY <2>1, CountTells DEF Busy
    <3>2. QED BY <1>6, <2>1, <3>1 DEF TryEnter
  <2>2. CASE lock_count # -1
    BY <1>6, <2>2 DEF TryEnter
  <2>3. QED BY <2>1, <2>2
<1>7. ASSUME NEW t \in Threads, LeaveNested(t) PROVE FieldInv'
  BY <1>7 DEF LeaveNested
<1>8. ASSUME NEW t \in Threads, Disown(t) PROVE FieldInv'
  BY <1>8 DEF Disown
<1>9. ASSUME NEW t \in Threads, Spin(t) \/ Register(t) \/ WaitEvent(t) \/ Release(t) \/ SetEvent(t)
      PROVE  FieldInv'
  BY <1>9 DEF Spin, Register, WaitEvent, Release, SetEvent
<1>10. ASSUME NEW t \in Threads, TakeOwnership(t) PROVE FieldInv'
  <2>1. \A u \in Threads : pc[u] # "in"
    BY <1>3, <1>10 DEF TakeOwnership, Claimants
  <2>2. QED BY <1>10, <2>1 DEF TakeOwnership
<1>11. CASE UNCHANGED vars
  BY <1>11 DEF vars
<1>12. QED
  BY <1>4, <1>5, <1>6, <1>7, <1>8, <1>9, <1>10, <1>11 DEF Next, Leave, Continue

\* The one claim passes from thread to event to thread, and ends with the last one.
LEMMA ClaimStep == IInv /\ [Next]_vars => ClaimInv'
<1> SUFFICES ASSUME IInv, [Next]_vars PROVE ClaimInv'
  OBVIOUS
<1>1. /\ lock_count = -1 <=> Busy = {}
      /\ \A t \in Threads : pc[t] = "leaving" => (lock_count = 0 <=> Busy = {t})
  BY CountTells
<1>2. pc \in [Threads -> Places]
  BY DEF IInv, Types
<1>3. ClaimInv /\ FieldInv
  BY DEF IInv
<1> USE <1>2, <1>3 DEF ClaimInv, Claimants, Waiting, Setters, Go
<1>4. ASSUME NEW t \in Threads, Busy = {}, pc' = [pc EXCEPT ![t] = "claimed"],
             UNCHANGED signaled
      PROVE  ClaimInv'
  BY <1>4 DEF Busy
<1>5. ASSUME NEW t \in Threads, EnterOwned(t) \/ LeaveNested(t) PROVE ClaimInv'
  BY <1>5 DEF EnterOwned, LeaveNested, FieldInv
<1>6. ASSUME NEW t \in Threads, Enter(t) PROVE ClaimInv'
  BY <1>6 DEF Enter, AtCall, FieldInv
<1>7. ASSUME NEW t \in Threads, TryEnter(t) PROVE ClaimInv'
  <2>1. CASE lock_count = -1
    BY <1>1, <1>4, <1>7, <2>1 DEF TryEnter
  <2>2. CASE lock_count # -1
    BY <1>7, <2>2 DEF TryEnter
  <2>3. QED BY <2>1, <2>2
<1>8. ASSUME NEW t \in Threads, Disown(t) \/ TakeOwnership(t) PROVE ClaimInv'
  BY <1>8 DEF Disown, TakeOwnership
<1>9. ASSUME NEW t \in Threads, Spin(t) PROVE ClaimInv'
  <2>1. CASE lock_count = -1
    BY <1>1, <1>4, <1>9, <2>1 DEF Spin
  <2>2. CASE lock_count # -1
    BY <1>9, <2>2 DEF Spin
  <2>3. QED BY <2>1, <2>2
<1>10. ASSUME NEW t \in Threads, Register(t) PROVE ClaimInv'
  <2>1. CASE lock_count = -1
    BY <1>1, <1>4, <1>10, <2>1 DEF Register
  <2>2. CASE lock_count # -1
    <3>1. Busy # {}
      BY <1>1, <2>2
    <3>2. Claimants # {} \/ signaled
      BY <3>1 DEF Busy
    <3>3. pc' = [pc EXCEPT ![t] = "wait"] /\ pc[t] = "spin" /\ UNCHANGED signaled
      BY <1>10, <2>2 DEF Register
    <3>4. QED BY <3>2, <3>3
  <2>3. QED BY <2>1, <2>2
<1>11. ASSUME NEW t \in Threads, WaitEvent(t) PROVE ClaimInv'
  BY <1>11 DEF WaitEvent
<1>12. ASSUME NEW t \in Threads, Release(t) PROVE ClaimInv'
  <2>1. pc[t] = "leaving" /\ UNCHANGED signaled
    BY <1>12 DEF Release
  <2>2. CASE lock_count = 0
    <3>1. Busy = {t}
      BY <1>1, <2>1, <2>2
    <3>2. pc' = [pc EXCEPT ![t] = "out"]
      BY <1>12, <2>2 DEF Release
    <3>3. QED BY <2>1, <3>1, <3>2 DEF Busy
  <2>3. CASE lock_count # 0
    <3>1. Busy # {t}
      BY <1>1, <2>1, <2>3
    <3>2. Waiting # {}
      BY <2>1, <3>1 DEF Busy
    <3>3. pc' = [pc EXCEPT ![t] = "signal"]
      BY <1>12, <2>3 DEF Release
    <3>4. QED BY <2>1, <3>2, <3>3
  <2>4. QED BY <2>2, <2>3
<1>13. ASSUME NEW t \in Threads, SetEvent(t) PROVE ClaimInv'
  BY <1>13 DEF SetEvent
<1>14. CASE UNCHANGED vars
  BY <1>14 DEF vars
<1>15. QED
  BY <1>5, <1>6, <1>7, <1>8, <1>9, <1>10, <1>11, <1>12, <1>13, <1>14
  DEF Next, Leave, Continue

\* The invariant, for every finite set of threads.
THEOREM Invariant == Spec => []IInv
<1>1. IInv /\ [Next]_vars => IInv'
  BY TypesStep, CountStep, FieldStep, ClaimStep DEF IInv
<1>2. QED BY <1>1, InitInv, PTL DEF Spec

-----------------------------------------------------------------------------

\* lock_count, which nothing in the code limits, stays within the threads and
\* the nesting; so do the fields next to it.
THEOREM TypeCorrectness == Spec => []TypeOK
<1>1. IInv => TypeOK
  <2> SUFFICES ASSUME IInv PROVE TypeOK
    OBVIOUS
  <2>1. /\ recursion_count \in 0 .. MaxRecursion
        /\ owning_thread \in Threads \cup {NoThread}
        /\ signaled \in BOOLEAN
        /\ pc \in [Threads -> Places]
        /\ spins \in [Threads -> 0 .. SpinCount]
        /\ depth \in [Threads -> 0 .. MaxRecursion]
    BY DEF IInv, Types
  <2>2. /\ Cardinality(Busy) \in Nat
        /\ Cardinality(Threads) \in Nat
        /\ Cardinality(Busy) <= Cardinality(Threads)
    <3>1. Busy \in SUBSET Threads
      BY DEF Busy
    <3>2. QED BY <3>1, CountTells, FS_CardinalityType, FS_Subset, CriticalSectionAssumption
  <2>3. lock_count = Cardinality(Busy) - 1 +
                     (IF recursion_count = 0 THEN 0 ELSE recursion_count - 1)
    BY DEF IInv, CountInv
  <2>4. recursion_count \in 0 .. MaxRecursion
    BY <2>1
  <2>5. lock_count \in -1 .. Cardinality(Threads) + MaxRecursion
    BY <2>2, <2>3, <2>4, CriticalSectionAssumption
  <2>6. QED BY <2>1, <2>5 DEF TypeOK
<1>2. QED BY <1>1, Invariant, PTL

\* Two threads never have the section at once, the thread that claims it finds
\* it unowned, and only the thread inside is taken for its owner.
THEOREM OneOwnerHolds == Spec => []OneOwner
<1>1. IInv => OneOwner
  <2> SUFFICES ASSUME IInv PROVE OneOwner
    OBVIOUS
  <2>1. \A t, u \in Holders : t = u
    BY DEF IInv, ClaimInv, Claimants, Holders
  <2>2. \A t \in Holders : owning_thread = IF pc[t] = "in" THEN t ELSE NoThread
    BY <2>1 DEF IInv, FieldInv, Types, Holders
  <2>3. \A t \in Threads : depth[t] = IF owning_thread = t THEN recursion_count ELSE 0
    BY DEF IInv, FieldInv
  <2>4. QED BY <2>1, <2>2, <2>3 DEF OneOwner
<1>2. QED BY <1>1, Invariant, PTL

\* While anybody waits there is exactly one claim: no wake-up is lost or doubled.
THEOREM OneClaimHolds == Spec => []OneClaim
<1>1. IInv => OneClaim
  BY DEF IInv, ClaimInv, OneClaim, Claimants, Holders, Setters, Waiting
<1>2. QED BY <1>1, Invariant, PTL

\* A critical section implements the recursive region of CriticalRegion: it is
\* entered by one thread at a time and left as often as it was entered.
THEOREM ImplementsRegion == Spec => Region!Spec
<1>1. Init => Region!Init
  BY DEF Init, Region!Init
<1>2. IInv /\ [Next]_vars => [Region!Next]_depth
  <2> SUFFICES ASSUME IInv, [Next]_vars PROVE [Region!Next]_depth
    OBVIOUS
  <2>1. /\ \A t, u \in Claimants : t = u
        /\ \A t \in Threads : owning_thread = t <=> pc[t] = "in"
        /\ \A t \in Threads : depth[t] = IF pc[t] = "in" THEN recursion_count ELSE 0
        /\ recursion_count \in Nat
    BY CriticalSectionAssumption DEF IInv, ClaimInv, FieldInv, Types
  <2> USE DEF Region!Next
  <2>2. ASSUME NEW t \in Threads, EnterOwned(t) PROVE Region!Enter(t)
    <3>1. \A u \in Threads \ {t} : pc[u] # "in"
      BY <2>1, <2>2 DEF EnterOwned, Claimants
    <3>2. QED BY <2>1, <2>2, <3>1 DEF EnterOwned, Region!Enter
  <2>3. ASSUME NEW t \in Threads, TakeOwnership(t) PROVE Region!Enter(t)
    <3>1. \A u \in Threads \ {t} : pc[u] # "in"
      BY <2>1, <2>3 DEF TakeOwnership, Claimants
    <3>2. QED BY <2>1, <2>3, <3>1 DEF TakeOwnership, Region!Enter
  <2>4. ASSUME NEW t \in Threads, LeaveNested(t) \/ Disown(t) PROVE Region!Leave(t)
    BY <2>1, <2>4 DEF LeaveNested, Disown, Region!Leave
  <2>5. ASSUME NEW t \in Threads, \/ Enter(t) \/ TryEnter(t) \/ Spin(t) \/ Register(t)
                                  \/ WaitEvent(t) \/ Release(t) \/ SetEvent(t)
        PROVE  depth' = depth
    BY <2>5 DEF Enter, TryEnter, Spin, Register, WaitEvent, Release, SetEvent
  <2>6. CASE UNCHANGED vars
    BY <2>6 DEF vars
  <2>7. QED
    BY <2>2, <2>3, <2>4, <2>5, <2>6 DEF Next, Leave, Continue
<1>3. QED BY <1>1, <1>2, Invariant, PTL DEF Spec, Region!Spec
=============================================================================
