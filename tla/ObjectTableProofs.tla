------------------------- MODULE ObjectTableProofs -------------------------
(***************************************************************************)
(* What holds of ObjectTable for every set of threads, objects, handles,   *)
(* variables and names: counts are the number of those they count.         *)
(***************************************************************************)
EXTENDS ObjectTable, FiniteSetTheorems, TLAPS

Holding  == {"unwanted", "unkeep", "release", "rekeep", "retain", "attributes", "answer", "drop", "add"}
Asking   == {"find", "look", "unwanted", "unkeep", "release", "rekeep", "retain", "make",
             "attributes", "answer", "duplicate", "add"}
Closing  == {"duplicate", "add", "drop", "close"}

\* What a thread has in hand at each step of a call.
Control ==
  \A t \in Threads :
    /\ pc[t] \in Holding => ref[t] # None
    /\ pc[t] \notin Holding \cup {"parked"} => ref[t] = None
    /\ pc[t] \in {"look", "release", "retain", "duplicate", "use"} => arg[t] # None
    /\ pc[t] \in {"find", "attributes"} => wantName[t] # None
    /\ pc[t] \in Asking <=> into[t] # None
    /\ into[t] # None => slot[into[t]] = None
    /\ source[t] # None => /\ pc[t] \in Closing
                           /\ arg[t] # None /\ slot[source[t]] = arg[t]
    /\ pc[t] = "close" => source[t] # None

\* A variable of the guest has one thread at most that will store to it.
OneWriter ==
  \A t, u \in Threads : t # u => /\ into[t] # None => into[t] # into[u]
                                 /\ source[t] # None => source[t] # source[u]

\* The reference count is the number of the references.
Alive(o) == /\ References(o) # {} <=> status[o] = "live"
            /\ pointer_ref_count[o] = Cardinality(References(o))

\* handles_ and the table agree.
Listed(o) == handles[o] = {h \in Handles : object[h] = o}

\* handles_[0] is one of the object's handles, or was.
Firsts == \A o \in Objects : /\ handles[o] # {} => first[o] \in handles[o]
                             /\ status[o] # "new" => first[o] # None

\* An object has no name before SetAttributes, which is its creator's alone.
Unnamed == /\ \A o \in Objects : status[o] = "new" => name[o] = None
           /\ \A t \in Threads : pc[t] = "attributes" => name[ref[t]] = None
           /\ \A t, u \in Threads : pc[t] = "attributes" /\ pc[u] = "attributes" /\ t # u
                                      => ref[t] # ref[u]

\* A handle is open as often as variables hold it and threads have it retained.
Users(h) == {v \in Vars : slot[v] = h} \cup {t \in Threads : kept[t] = h}
Opened   == \A h \in Handles : object[h] # None => handle_ref_count[h] >= Cardinality(Users(h))

\* What a thread has retained, and what it has read of handles_, is still true.
Kept ==
  \A t \in Threads :
    /\ kept[t] # None => object[kept[t]] # None
    /\ pc[t] = "look" => /\ kept[t] = arg[t]
                         /\ first[object[arg[t]]] = arg[t]
    /\ pc[t] \in {"unkeep", "release", "attributes", "answer"} => kept[t] = first[ref[t]]
    /\ pc[t] \in {"unkeep", "release", "rekeep", "retain", "attributes", "answer"} =>
         object[first[ref[t]]] = ref[t]
    /\ pc[t] \in {"release", "retain"} => arg[t] = first[ref[t]]

SlotsAreKept == \A v \in Vars : slot[v] # None => object[slot[v]] = meant[v] /\ meant[v] # None

\* A name leads to the first handle of its object.
Named == \A n \in Names \ stale : name_table[n] # None =>
           LET o == object[name_table[n]] IN o # None /\ name[o] = n /\ first[o] = name_table[n]

Living  == (\A o \in Objects : Alive(o) /\ Listed(o)) /\ Firsts /\ Unnamed
InOrder == Opened /\ Kept /\ SlotsAreKept /\ Named
Safe    == ~raced => InOrder
Inv     == TypeOK /\ Control /\ OneWriter /\ Living /\ Safe

USE DEF vars, table, objects, guest, locals, history

-----------------------------------------------------------------------------

\* RemoveHandle keeps the types of the table.
LEMMA RemovalTyped ==
  ASSUME TypeOK, NEW h \in Handles, object[h] # None, NEW shared, RemoveHandle(h, shared)
  PROVE  TableTypes'
<1>1. object[h] \in Objects
  BY DEF TypeOK, TableTypes
<1>2. /\ object' \in [Handles -> Objects \cup {None}] /\ handle_ref_count' \in [Handles -> Int]
      /\ handles' \in [Objects -> SUBSET Handles]
  BY <1>1 DEF RemoveHandle, TypeOK, TableTypes
<1>3. first' \in [Objects -> Handles \cup {None}]
  BY <1>1 DEF RemoveHandle, TypeOK, TableTypes
<1>4. name_table' \in [Names -> Handles \cup {None}]
  BY <1>1 DEF RemoveHandle, NamesWithout, TypeOK, TableTypes
<1>. QED
  BY <1>2, <1>3, <1>4 DEF TableTypes

\* Every step keeps the types of the table ...
LEMMA TableTypesStep ==
  ASSUME ObjectTableAssumption, TypeOK, Control, [Next]_vars
  PROVE  TableTypes'
<1>. USE DEF TypeOK
<1>1. ASSUME NEW t \in Threads, NEW ty \in Types, NEW n \in Names \cup {None}, NEW v \in Vars,
             BeginCreate(t, ty, n, v)
      PROVE  TableTypes'
  BY <1>1 DEF BeginCreate, TableTypes
<1>2. ASSUME NEW t \in Threads, FindNone(t) PROVE TableTypes'
  BY <1>2 DEF FindNone, TableTypes
<1>3. ASSUME NEW t \in Threads, Find(t) PROVE TableTypes'
  BY <1>3 DEF Find, GetObjectByName, RetainHandle, TableTypes
<1>4. ASSUME NEW t \in Threads, LookNone(t) PROVE TableTypes'
  BY <1>4 DEF LookNone, TableTypes
<1>5. ASSUME NEW t \in Threads, Look(t) PROVE TableTypes'
  BY <1>5 DEF Look, TableTypes
<1>6. ASSUME NEW t \in Threads, ReadFirst(t) PROVE TableTypes'
  BY <1>6 DEF ReadFirst, TableTypes
<1>7. ASSUME NEW t \in Threads, Unkeep(t) PROVE TableTypes'
  <2>1. arg[t] \in Handles
    BY <1>7 DEF Unkeep, Control, CallTypes
  <2>2. CASE object[arg[t]] # None /\ RemoveHandle(arg[t], FALSE)
    BY <2>1, <2>2, RemovalTyped
  <2>3. CASE /\ UNCHANGED <<object, name_table, handles, first>>
             /\ handle_ref_count' = [handle_ref_count EXCEPT ![arg[t]] = @ - 1]
    BY <2>1, <2>3 DEF TableTypes
  <2>. QED
    BY <1>7, <2>2, <2>3 DEF Unkeep, ReleaseHandle
<1>8. ASSUME NEW t \in Threads, Rekeep(t) PROVE TableTypes'
  BY <1>8 DEF Rekeep, RetainHandle, TableTypes, CallTypes, Control
<1>9. ASSUME NEW t \in Threads, NEW o \in Objects, NEW h \in Handles, Make(t, o, h)
      PROVE  TableTypes'
  BY <1>9 DEF Make, AddHandle, TableTypes
<1>10. ASSUME NEW t \in Threads, SetAttributes(t) PROVE TableTypes'
  BY <1>10 DEF SetAttributes, TableTypes, CallTypes, Control, Holding
<1>11. ASSUME NEW t \in Threads, Answer(t) PROVE TableTypes'
  BY <1>11 DEF Answer, TableTypes
<1>12. ASSUME NEW t \in Threads, Drop(t) PROVE TableTypes'
  BY <1>12 DEF Drop, TableTypes
<1>13. ASSUME NEW t \in Threads, NEW n \in Names, NEW v \in Vars, OpenByName(t, n, v)
       PROVE  TableTypes'
  BY <1>13 DEF OpenByName, GetObjectByName, RetainHandle, TableTypes
<1>14. ASSUME NEW t \in Threads, NEW v \in Vars, NEW w \in Vars, NEW close \in BOOLEAN,
              BeginDuplicate(t, v, w, close)
       PROVE  TableTypes'
  BY <1>14 DEF BeginDuplicate, TableTypes
<1>15. ASSUME NEW t \in Threads, DuplicateNone(t) PROVE TableTypes'
  BY <1>15 DEF DuplicateNone, TableTypes
<1>16. ASSUME NEW t \in Threads, LookUp(t) PROVE TableTypes'
  BY <1>16 DEF LookUp, TableTypes
<1>17. ASSUME NEW t \in Threads, NEW h \in Handles, Duplicate(t, h) PROVE TableTypes'
  BY <1>17 DEF Duplicate, AddHandle, TableTypes, CallTypes, Control, Holding
<1>18. ASSUME NEW t \in Threads, CloseSource(t) PROVE TableTypes'
  <2>1. arg[t] \in Handles
    BY <1>18 DEF CloseSource, Control, CallTypes
  <2>2. CASE object[arg[t]] # None
    BY <1>18, <2>1, <2>2, RemovalTyped DEF CloseSource
  <2>3. CASE object[arg[t]] = None
    BY <1>18, <2>3 DEF CloseSource, TableTypes
  <2>. QED
    BY <2>2, <2>3
<1>19. ASSUME NEW t \in Threads, NEW v \in Vars, BeginUse(t, v) PROVE TableTypes'
  BY <1>19 DEF BeginUse, TableTypes
<1>20. ASSUME NEW t \in Threads, UseNone(t) PROVE TableTypes'
  BY <1>20 DEF UseNone, TableTypes
<1>21. ASSUME NEW t \in Threads, NEW v \in Vars, Close(t, v) PROVE TableTypes'
  <2>1. slot[v] \in Handles
    BY <1>21 DEF Close, GuestTypes
  <2>2. CASE object[slot[v]] # None /\ RemoveHandle(slot[v], FALSE)
    BY <2>1, <2>2, RemovalTyped
  <2>3. CASE /\ UNCHANGED <<object, name_table, handles, first>>
             /\ handle_ref_count' = [handle_ref_count EXCEPT ![slot[v]] = @ - 1]
    BY <2>1, <2>3 DEF TableTypes
  <2>. QED
    BY <1>21, <2>2, <2>3 DEF Close, ReleaseHandle
<1>22. ASSUME Purge PROVE TableTypes'
  BY <1>22 DEF Purge, TableTypes
<1>23. CASE UNCHANGED vars
  BY <1>23 DEF TableTypes
<1>. QED
  BY <1>1, <1>2, <1>3, <1>4, <1>5, <1>6, <1>7, <1>8, <1>9, <1>10, <1>11, <1>12, <1>13, <1>14,
     <1>15, <1>16, <1>17, <1>18, <1>19, <1>20, <1>21, <1>22, <1>23 DEF Next, Creates, Opens,
     Duplicates, Uses

\* ... of the objects ...
LEMMA ObjectTypesStep ==
  ASSUME ObjectTableAssumption, TypeOK, Control, [Next]_vars
  PROVE  ObjectTypes'
<1>. USE DEF TypeOK
<1>1. ASSUME NEW t \in Threads, NEW ty \in Types, NEW n \in Names \cup {None}, NEW v \in Vars,
             BeginCreate(t, ty, n, v)
      PROVE  ObjectTypes'
  BY <1>1 DEF BeginCreate, ObjectTypes
<1>2. ASSUME NEW t \in Threads, FindNone(t) PROVE ObjectTypes'
  BY <1>2 DEF FindNone, ObjectTypes
<1>3. ASSUME NEW t \in Threads, Find(t) PROVE ObjectTypes'
  BY <1>3 DEF Find, ObjectTypes
<1>4. ASSUME NEW t \in Threads, LookNone(t) PROVE ObjectTypes'
  BY <1>4 DEF LookNone, ObjectTypes
<1>5. ASSUME NEW t \in Threads, Look(t) PROVE ObjectTypes'
  BY <1>5 DEF Look, Retain, ObjectTypes, TableTypes, CallTypes, Control
<1>6. ASSUME NEW t \in Threads, ReadFirst(t) PROVE ObjectTypes'
  BY <1>6 DEF ReadFirst, ObjectTypes
<1>7. ASSUME NEW t \in Threads, Unkeep(t) PROVE ObjectTypes'
  BY <1>7 DEF Unkeep, ReleaseHandle, RemoveHandle, Release, NamesWithout, ObjectTypes
<1>8. ASSUME NEW t \in Threads, Rekeep(t) PROVE ObjectTypes'
  BY <1>8 DEF Rekeep, ObjectTypes
<1>9. ASSUME NEW t \in Threads, NEW o \in Objects, NEW h \in Handles, Make(t, o, h)
      PROVE  ObjectTypes'
  BY <1>9 DEF Make, ObjectTypes, CallTypes
<1>10. ASSUME NEW t \in Threads, SetAttributes(t) PROVE ObjectTypes'
  BY <1>10 DEF SetAttributes, ObjectTypes, CallTypes
<1>11. ASSUME NEW t \in Threads, Answer(t) PROVE ObjectTypes'
  BY <1>11 DEF Answer, ObjectTypes
<1>12. ASSUME NEW t \in Threads, Drop(t) PROVE ObjectTypes'
  BY <1>12 DEF Drop, Release, ObjectTypes, CallTypes, Control, Holding
<1>13. ASSUME NEW t \in Threads, NEW n \in Names, NEW v \in Vars, OpenByName(t, n, v)
       PROVE  ObjectTypes'
  BY <1>13 DEF OpenByName, ObjectTypes
<1>14. ASSUME NEW t \in Threads, NEW v \in Vars, NEW w \in Vars, NEW close \in BOOLEAN,
              BeginDuplicate(t, v, w, close)
       PROVE  ObjectTypes'
  BY <1>14 DEF BeginDuplicate, ObjectTypes
<1>15. ASSUME NEW t \in Threads, DuplicateNone(t) PROVE ObjectTypes'
  BY <1>15 DEF DuplicateNone, ObjectTypes
<1>16. ASSUME NEW t \in Threads, LookUp(t) PROVE ObjectTypes'
  BY <1>16 DEF LookUp, Retain, ObjectTypes, TableTypes, CallTypes, Control
<1>17. ASSUME NEW t \in Threads, NEW h \in Handles, Duplicate(t, h) PROVE ObjectTypes'
  BY <1>17 DEF Duplicate, Retain, ObjectTypes, CallTypes, Control, Holding
<1>18. ASSUME NEW t \in Threads, CloseSource(t) PROVE ObjectTypes'
  BY <1>18 DEF CloseSource, RemoveHandle, Release, NamesWithout, ObjectTypes
<1>19. ASSUME NEW t \in Threads, NEW v \in Vars, BeginUse(t, v) PROVE ObjectTypes'
  BY <1>19 DEF BeginUse, ObjectTypes
<1>20. ASSUME NEW t \in Threads, UseNone(t) PROVE ObjectTypes'
  BY <1>20 DEF UseNone, ObjectTypes
<1>21. ASSUME NEW t \in Threads, NEW v \in Vars, Close(t, v) PROVE ObjectTypes'
  BY <1>21 DEF Close, ReleaseHandle, RemoveHandle, Release, ObjectTypes
<1>22. ASSUME Purge PROVE ObjectTypes'
  <2>1. \A o \in Objects : Cardinality(handles[o]) \in Nat
    BY FS_Subset, FS_CardinalityType DEF TableTypes
  <2>2. \A o \in Objects : pointer_ref_count'[o] \in Int
    BY <1>22, <2>1 DEF Purge, ObjectTypes
  <2>. QED
    BY <1>22, <2>1, <2>2 DEF Purge, ObjectTypes
<1>23. CASE UNCHANGED vars
  BY <1>23 DEF ObjectTypes
<1>. QED
  BY <1>1, <1>2, <1>3, <1>4, <1>5, <1>6, <1>7, <1>8, <1>9, <1>10, <1>11, <1>12, <1>13, <1>14,
     <1>15, <1>16, <1>17, <1>18, <1>19, <1>20, <1>21, <1>22, <1>23 DEF Next, Creates, Opens,
     Duplicates, Uses

\* ... of the threads in their calls ...
LEMMA CallTypesStep ==
  ASSUME ObjectTableAssumption, TypeOK, Control, [Next]_vars
  PROVE  CallTypes'
<1>. USE DEF TypeOK
<1>1. ASSUME NEW t \in Threads, NEW ty \in Types, NEW n \in Names \cup {None}, NEW v \in Vars,
             BeginCreate(t, ty, n, v)
      PROVE  CallTypes'
  BY <1>1 DEF BeginCreate, CallTypes, Goto
<1>2. ASSUME NEW t \in Threads, FindNone(t) PROVE CallTypes'
  BY <1>2 DEF FindNone, CallTypes, Goto
<1>3. ASSUME NEW t \in Threads, Find(t) PROVE CallTypes'
  BY <1>3 DEF Find, Retained, CallTypes, Goto, TableTypes, Control
<1>4. ASSUME NEW t \in Threads, LookNone(t) PROVE CallTypes'
  BY <1>4 DEF LookNone, CallTypes, Goto
<1>5. ASSUME NEW t \in Threads, Look(t) PROVE CallTypes'
  BY <1>5 DEF Look, Takes, CallTypes, Goto, TableTypes, Control
<1>6. ASSUME NEW t \in Threads, ReadFirst(t) PROVE CallTypes'
  BY <1>6 DEF ReadFirst, CallTypes, Goto, TableTypes, Control, Holding
<1>7. ASSUME NEW t \in Threads, Unkeep(t) PROVE CallTypes'
  BY <1>7 DEF Unkeep, CallTypes, Goto
<1>8. ASSUME NEW t \in Threads, Rekeep(t) PROVE CallTypes'
  BY <1>8 DEF Rekeep, CallTypes, Goto
<1>9. ASSUME NEW t \in Threads, NEW o \in Objects, NEW h \in Handles, Make(t, o, h)
      PROVE  CallTypes'
  BY <1>9 DEF Make, Takes, CallTypes, Goto
<1>10. ASSUME NEW t \in Threads, SetAttributes(t) PROVE CallTypes'
  BY <1>10 DEF SetAttributes, CallTypes, Goto
<1>11. ASSUME NEW t \in Threads, Answer(t) PROVE CallTypes'
  BY <1>11 DEF Answer, CallTypes, Goto
<1>12. ASSUME NEW t \in Threads, Drop(t) PROVE CallTypes'
  BY <1>12 DEF Drop, Takes, CallTypes, Goto
<1>13. ASSUME NEW t \in Threads, NEW n \in Names, NEW v \in Vars, OpenByName(t, n, v)
       PROVE  CallTypes'
  BY <1>13 DEF OpenByName, CallTypes
<1>14. ASSUME NEW t \in Threads, NEW v \in Vars, NEW w \in Vars, NEW close \in BOOLEAN,
              BeginDuplicate(t, v, w, close)
       PROVE  CallTypes'
  BY <1>14 DEF BeginDuplicate, CallTypes, Goto, GuestTypes
<1>15. ASSUME NEW t \in Threads, DuplicateNone(t) PROVE CallTypes'
  BY <1>15 DEF DuplicateNone, CallTypes, Goto
<1>16. ASSUME NEW t \in Threads, LookUp(t) PROVE CallTypes'
  BY <1>16 DEF LookUp, Takes, CallTypes, Goto, TableTypes, Control
<1>17. ASSUME NEW t \in Threads, NEW h \in Handles, Duplicate(t, h) PROVE CallTypes'
  BY <1>17 DEF Duplicate, CallTypes, Goto
<1>18. ASSUME NEW t \in Threads, CloseSource(t) PROVE CallTypes'
  BY <1>18 DEF CloseSource, CallTypes, Goto
<1>19. ASSUME NEW t \in Threads, NEW v \in Vars, BeginUse(t, v) PROVE CallTypes'
  BY <1>19 DEF BeginUse, CallTypes, Goto, GuestTypes
<1>20. ASSUME NEW t \in Threads, UseNone(t) PROVE CallTypes'
  BY <1>20 DEF UseNone, CallTypes, Goto
<1>21. ASSUME NEW t \in Threads, NEW v \in Vars, Close(t, v) PROVE CallTypes'
  BY <1>21 DEF Close, CallTypes
<1>22. ASSUME Purge PROVE CallTypes'
  BY <1>22 DEF Purge, CallTypes
<1>23. CASE UNCHANGED vars
  BY <1>23 DEF CallTypes
<1>. QED
  BY <1>1, <1>2, <1>3, <1>4, <1>5, <1>6, <1>7, <1>8, <1>9, <1>10, <1>11, <1>12, <1>13, <1>14,
     <1>15, <1>16, <1>17, <1>18, <1>19, <1>20, <1>21, <1>22, <1>23 DEF Next, Creates, Opens,
     Duplicates, Uses

\* ... and of what the guest has.
LEMMA GuestTypesStep ==
  ASSUME ObjectTableAssumption, TypeOK, Control, [Next]_vars
  PROVE  GuestTypes'
<1>. USE DEF TypeOK
<1>1. ASSUME NEW t \in Threads, NEW ty \in Types, NEW n \in Names \cup {None}, NEW v \in Vars,
             BeginCreate(t, ty, n, v)
      PROVE  GuestTypes'
  BY <1>1 DEF BeginCreate, GuestTypes
<1>2. ASSUME NEW t \in Threads, FindNone(t) PROVE GuestTypes'
  BY <1>2 DEF FindNone, GuestTypes
<1>3. ASSUME NEW t \in Threads, Find(t) PROVE GuestTypes'
  BY <1>3 DEF Find, GuestTypes
<1>4. ASSUME NEW t \in Threads, LookNone(t) PROVE GuestTypes'
  BY <1>4 DEF LookNone, GuestTypes
<1>5. ASSUME NEW t \in Threads, Look(t) PROVE GuestTypes'
  BY <1>5 DEF Look, GuestTypes
<1>6. ASSUME NEW t \in Threads, ReadFirst(t) PROVE GuestTypes'
  BY <1>6 DEF ReadFirst, GuestTypes
<1>7. ASSUME NEW t \in Threads, Unkeep(t) PROVE GuestTypes'
  BY <1>7 DEF Unkeep, ReleaseHandle, RemoveHandle, GuestTypes
<1>8. ASSUME NEW t \in Threads, Rekeep(t) PROVE GuestTypes'
  BY <1>8 DEF Rekeep, GuestTypes
<1>9. ASSUME NEW t \in Threads, NEW o \in Objects, NEW h \in Handles, Make(t, o, h)
      PROVE  GuestTypes'
  BY <1>9 DEF Make, GuestTypes
<1>10. ASSUME NEW t \in Threads, SetAttributes(t) PROVE GuestTypes'
  BY <1>10 DEF SetAttributes, GuestTypes
<1>11. ASSUME NEW t \in Threads, Answer(t) PROVE GuestTypes'
  BY <1>11 DEF Answer, GuestTypes, CallTypes, TableTypes, Control, Holding, Asking
<1>12. ASSUME NEW t \in Threads, Drop(t) PROVE GuestTypes'
  BY <1>12 DEF Drop, GuestTypes
<1>13. ASSUME NEW t \in Threads, NEW n \in Names, NEW v \in Vars, OpenByName(t, n, v)
       PROVE  GuestTypes'
  BY <1>13 DEF OpenByName, GuestTypes, TableTypes
<1>14. ASSUME NEW t \in Threads, NEW v \in Vars, NEW w \in Vars, NEW close \in BOOLEAN,
              BeginDuplicate(t, v, w, close)
       PROVE  GuestTypes'
  BY <1>14 DEF BeginDuplicate, GuestTypes
<1>15. ASSUME NEW t \in Threads, DuplicateNone(t) PROVE GuestTypes'
  BY <1>15 DEF DuplicateNone, GuestTypes
<1>16. ASSUME NEW t \in Threads, LookUp(t) PROVE GuestTypes'
  BY <1>16 DEF LookUp, GuestTypes
<1>17. ASSUME NEW t \in Threads, NEW h \in Handles, Duplicate(t, h) PROVE GuestTypes'
  BY <1>17 DEF Duplicate, GuestTypes, CallTypes
<1>18. ASSUME NEW t \in Threads, CloseSource(t) PROVE GuestTypes'
  BY <1>18 DEF CloseSource, RemoveHandle, GuestTypes
<1>19. ASSUME NEW t \in Threads, NEW v \in Vars, BeginUse(t, v) PROVE GuestTypes'
  BY <1>19 DEF BeginUse, GuestTypes
<1>20. ASSUME NEW t \in Threads, UseNone(t) PROVE GuestTypes'
  BY <1>20 DEF UseNone, GuestTypes
<1>21. ASSUME NEW t \in Threads, NEW v \in Vars, Close(t, v) PROVE GuestTypes'
  BY <1>21 DEF Close, ReleaseHandle, RemoveHandle, GuestTypes
<1>22. ASSUME Purge PROVE GuestTypes'
  BY <1>22 DEF Purge, GuestTypes
<1>23. CASE UNCHANGED vars
  BY <1>23 DEF GuestTypes
<1>. QED
  BY <1>1, <1>2, <1>3, <1>4, <1>5, <1>6, <1>7, <1>8, <1>9, <1>10, <1>11, <1>12, <1>13, <1>14,
     <1>15, <1>16, <1>17, <1>18, <1>19, <1>20, <1>21, <1>22, <1>23 DEF Next, Creates, Opens,
     Duplicates, Uses

\* Every step keeps the types.
LEMMA TypesStep == ObjectTableAssumption /\ TypeOK /\ Control /\ [Next]_vars => TypeOK'
BY TableTypesStep, ObjectTypesStep, CallTypesStep, GuestTypesStep DEF TypeOK

\* What leads to an object is finite.
LEMMA FiniteReferences ==
  ASSUME ObjectTableAssumption, NEW o \in Objects
  PROVE  IsFiniteSet(References(o)) /\ Cardinality(References(o)) \in Nat
<1>1. IsFiniteSet(Handles \cup Threads)
  BY FS_Union DEF ObjectTableAssumption
<1>2. References(o) \subseteq Handles \cup Threads
  BY DEF References
<1>. QED
  BY <1>1, <1>2, FS_Subset, FS_CardinalityType

\* One more reference.
LEMMA Gains ==
  ASSUME ObjectTableAssumption, NEW o \in Objects, NEW x, x \notin References(o), Alive(o),
         References(o)' = References(o) \cup {x},
         pointer_ref_count'[o] = pointer_ref_count[o] + 1, status'[o] = "live"
  PROVE  Alive(o)'
<1>1. Cardinality(References(o) \cup {x}) = Cardinality(References(o)) + 1
  BY FiniteReferences, FS_AddElement
<1>. QED
  BY <1>1 DEF Alive

\* One reference less; the last one deletes the object.
LEMMA Loses ==
  ASSUME ObjectTableAssumption, ObjectTypes, NEW o \in Objects, NEW x \in References(o), Alive(o),
         References(o)' = References(o) \ {x}, Release(o)
  PROVE  Alive(o)'
<1>1. /\ IsFiniteSet(References(o) \ {x})
      /\ Cardinality(References(o) \ {x}) = Cardinality(References(o)) - 1
  BY FiniteReferences, FS_RemoveElement
<1>2. References(o) \ {x} = {} <=> pointer_ref_count[o] = 1
  BY <1>1, FiniteReferences, FS_EmptySet DEF Alive
<1>3. pointer_ref_count'[o] = pointer_ref_count[o] - 1
  BY DEF Release, ObjectTypes
<1>4. status'[o] = IF pointer_ref_count[o] = 1 THEN "deleted" ELSE status[o]
  BY DEF Release, ObjectTypes
<1>. QED
  BY <1>1, <1>2, <1>3, <1>4 DEF Alive

\* What leaves the references alone leaves the counts alone.
LEMMA Unchanged ==
  ASSUME NEW o \in Objects, Alive(o), Listed(o),
         UNCHANGED <<object, handles, ref, status, pointer_ref_count>>
  PROVE  (Alive(o) /\ Listed(o))'
BY DEF Alive, Listed, References

\* Taking a handle from the table takes one reference from its object.
LEMMA HandleRemoved ==
  ASSUME ObjectTableAssumption, TypeOK, NEW h \in Handles, object[h] # None, NEW shared,
         RemoveHandle(h, shared), UNCHANGED ref,
         NEW o \in Objects, Alive(o), Listed(o)
  PROVE  (Alive(o) /\ Listed(o))'
<1>. USE DEF TypeOK, TableTypes, CallTypes, ObjectTableAssumption
<1>1. /\ object' = [object EXCEPT ![h] = None]
      /\ handles' = [handles EXCEPT ![object[h]] = @ \ {h}]
      /\ Release(object[h])
  BY DEF RemoveHandle
<1>2. Listed(o)'
  BY <1>1 DEF Listed
<1>3. CASE o = object[h]
  <2>1. h \in References(o) /\ References(o)' = References(o) \ {h}
    BY <1>1, <1>3 DEF References
  <2>. QED
    BY <2>1, <1>1, <1>2, <1>3, Loses
<1>4. CASE o # object[h]
  <2>1. References(o)' = References(o)
    BY <1>1, <1>4 DEF References
  <2>2. pointer_ref_count'[o] = pointer_ref_count[o] /\ status'[o] = status[o]
    BY <1>1, <1>4 DEF Release
  <2>. QED
    BY <2>1, <2>2, <1>2 DEF Alive
<1>. QED
  BY <1>3, <1>4

\* What a thread has looked up is counted.
LEMMA ReferenceTaken ==
  ASSUME ObjectTableAssumption, TypeOK, NEW t \in Threads, ref[t] = None, NEW p \in Objects,
         Takes(t, p), Retain(p), status[p] = "live", UNCHANGED <<object, handles>>,
         NEW o \in Objects, Alive(o), Listed(o)
  PROVE  (Alive(o) /\ Listed(o))'
<1>. USE DEF TypeOK, TableTypes, CallTypes, ObjectTypes, ObjectTableAssumption
<1>1. Listed(o)'
  BY DEF Listed
<1>2. CASE o = p
  <2>1. t \notin References(o) /\ References(o)' = References(o) \cup {t}
    BY <1>2 DEF References, Takes
  <2>2. pointer_ref_count'[o] = pointer_ref_count[o] + 1 /\ status'[o] = "live"
    BY <1>2 DEF Retain
  <2>. QED
    BY <2>1, <2>2, <1>1, Gains
<1>3. CASE o # p
  <2>1. References(o)' = References(o)
    BY <1>3 DEF References, Takes
  <2>2. pointer_ref_count'[o] = pointer_ref_count[o] /\ status'[o] = status[o]
    BY <1>3 DEF Retain
  <2>. QED
    BY <2>1, <2>2, <1>1 DEF Alive
<1>. QED
  BY <1>2, <1>3

\* When an object_ref goes out of scope, its reference goes.
LEMMA ReferenceDropped ==
  ASSUME ObjectTableAssumption, TypeOK, Control, NEW t \in Threads, Drop(t),
         NEW o \in Objects, Alive(o), Listed(o)
  PROVE  (Alive(o) /\ Listed(o))'
<1>. USE DEF TypeOK, TableTypes, CallTypes, ObjectTableAssumption
<1>1. ref[t] # None /\ Release(ref[t]) /\ Takes(t, None) /\ UNCHANGED <<object, handles>>
  BY DEF Drop, Control, Holding
<1>2. Listed(o)'
  BY <1>1 DEF Listed
<1>3. CASE o = ref[t]
  <2>1. t \in References(o) /\ References(o)' = References(o) \ {t}
    BY <1>1, <1>3 DEF References, Takes
  <2>. QED
    BY <2>1, <1>1, <1>2, <1>3, Loses
<1>4. CASE o # ref[t]
  <2>1. References(o)' = References(o)
    BY <1>1, <1>4 DEF References, Takes
  <2>2. pointer_ref_count'[o] = pointer_ref_count[o] /\ status'[o] = status[o]
    BY <1>1, <1>4 DEF Release
  <2>. QED
    BY <2>1, <2>2, <1>2 DEF Alive
<1>. QED
  BY <1>3, <1>4

\* A pair has two members.
LEMMA Two == ASSUME NEW a, NEW b, a # b PROVE Cardinality({a} \cup {b}) = 2
<1>1. IsFiniteSet({a}) /\ Cardinality({a}) = 1
  BY FS_Singleton
<1>2. Cardinality({a} \cup {b}) = IF b \in {a} THEN Cardinality({a}) ELSE Cardinality({a}) + 1
  BY <1>1, FS_AddElement
<1>. QED
  BY <1>1, <1>2

\* A new object has its creator and its handle.
LEMMA ObjectMade ==
  ASSUME ObjectTableAssumption, TypeOK, Control, NEW t \in Threads, NEW p \in Objects,
         NEW h \in Handles, Make(t, p, h), Alive(p),
         NEW o \in Objects, Alive(o), Listed(o)
  PROVE  (Alive(o) /\ Listed(o))'
<1>. USE DEF TypeOK, TableTypes, CallTypes, ObjectTypes, ObjectTableAssumption
<1>1. /\ status[p] = "new" /\ object[h] = None /\ ref[t] = None
      /\ object' = [object EXCEPT ![h] = p] /\ handles' = [handles EXCEPT ![p] = @ \cup {h}]
      /\ ref' = [ref EXCEPT ![t] = p] /\ status' = [status EXCEPT ![p] = "live"]
      /\ pointer_ref_count' = [pointer_ref_count EXCEPT ![p] = 2]
  BY DEF Make, AddHandle, Takes, Control, Holding
<1>2. Listed(o)'
  BY <1>1 DEF Listed
<1>3. CASE o = p
  <2>1. References(o) = {}
    BY <1>1, <1>3 DEF Alive
  <2>2. References(o)' = {h} \cup {t}
    BY <2>1, <1>1, <1>3 DEF References
  <2>3. h # t
    OBVIOUS
  <2>4. Cardinality({h} \cup {t}) = 2
    BY <2>3, Two
  <2>. QED
    BY <2>2, <2>4, <1>1, <1>2, <1>3 DEF Alive
<1>4. CASE o # p
  <2>1. References(o)' = References(o)
    BY <1>1, <1>4 DEF References
  <2>. QED
    BY <2>1, <1>1, <1>2, <1>4 DEF Alive
<1>. QED
  BY <1>3, <1>4

\* A duplicate is one reference more.
LEMMA ObjectDuplicated ==
  ASSUME ObjectTableAssumption, TypeOK, Control, NEW t \in Threads, NEW h \in Handles,
         Duplicate(t, h), NEW o \in Objects, Alive(o), Listed(o)
  PROVE  (Alive(o) /\ Listed(o))'
<1>. USE DEF TypeOK, TableTypes, CallTypes, ObjectTypes, ObjectTableAssumption
<1>1. /\ ref[t] \in Objects /\ object[h] = None /\ UNCHANGED <<ref, status>>
      /\ object' = [object EXCEPT ![h] = ref[t]]
      /\ handles' = [handles EXCEPT ![ref[t]] = @ \cup {h}]
      /\ pointer_ref_count' = [pointer_ref_count EXCEPT ![ref[t]] = @ + 1]
  BY DEF Duplicate, AddHandle, Retain, Control, Holding
<1>2. Listed(o)'
  BY <1>1 DEF Listed
<1>3. CASE o = ref[t]
  <2>1. h \notin References(o) /\ References(o)' = References(o) \cup {h} /\ t \in References(o)
    BY <1>1, <1>3 DEF References
  <2>2. status'[o] = "live" /\ pointer_ref_count'[o] = pointer_ref_count[o] + 1
    BY <2>1, <1>1, <1>3 DEF Alive
  <2>. QED
    BY <2>1, <2>2, <1>2, Gains
<1>4. CASE o # ref[t]
  <2>1. References(o)' = References(o)
    BY <1>1, <1>4 DEF References
  <2>. QED
    BY <2>1, <1>1, <1>2, <1>4 DEF Alive
<1>. QED
  BY <1>3, <1>4

\* The end of a title takes all handles at once.
LEMMA TablePurged ==
  ASSUME ObjectTableAssumption, TypeOK, Purge, NEW o \in Objects, Alive(o), Listed(o)
  PROVE  (Alive(o) /\ Listed(o))'
<1>. USE DEF TypeOK, TableTypes, CallTypes, ObjectTypes, ObjectTableAssumption
<1>1. /\ object' = [h \in Handles |-> None] /\ handles'[o] = {} /\ ref' = ref
      /\ pointer_ref_count'[o] = pointer_ref_count[o] - Cardinality(handles[o])
      /\ status'[o] = IF handles[o] # {} /\ pointer_ref_count'[o] = 0 THEN "deleted" ELSE status[o]
  BY DEF Purge
<1>2. Listed(o)'
  BY <1>1 DEF Listed
<1>3. References(o)' = References(o) \ handles[o] /\ References(o) \cap handles[o] = handles[o]
  BY <1>1 DEF References, Listed
<1>4. /\ Cardinality(References(o) \ handles[o]) = Cardinality(References(o)) - Cardinality(handles[o])
      /\ IsFiniteSet(References(o) \ handles[o])
  <2>1. IsFiniteSet(References(o))
    BY FiniteReferences
  <2>. QED
    BY <2>1, <1>3, FS_Difference
<1>5. References(o)' = {} <=> pointer_ref_count'[o] = 0
  <2>1. pointer_ref_count'[o] = Cardinality(References(o)')
    BY <1>1, <1>3, <1>4 DEF Alive
  <2>2. IsFiniteSet(References(o)')
    BY <1>3, <1>4
  <2>. QED
    BY <2>1, <2>2, FS_EmptySet
<1>6. handles[o] = {} => References(o)' = References(o)
  BY <1>3
<1>7. References(o)' # {} <=> status'[o] = "live"
  BY <1>1, <1>3, <1>5, <1>6 DEF Alive
<1>. QED
  BY <1>1, <1>2, <1>3, <1>4, <1>7 DEF Alive

\* Closing a handle takes a reference only when it is the last closing.
LEMMA HandleReleased ==
  ASSUME ObjectTableAssumption, TypeOK, NEW h \in Handles, ReleaseHandle(h), UNCHANGED ref,
         NEW o \in Objects, Alive(o), Listed(o)
  PROVE  (Alive(o) /\ Listed(o))'
<1>1. CASE object[h] # None /\ RemoveHandle(h, FALSE)
  BY <1>1, HandleRemoved
<1>2. CASE UNCHANGED <<object, handles, status, pointer_ref_count>>
  BY <1>2, Unchanged
<1>. QED
  BY <1>1, <1>2 DEF ReleaseHandle

\* Whatever leads to an object, it is alive.
LEMMA LeadsToLive ==
  ASSUME TypeOK, Living
  PROVE  /\ \A h \in Handles : object[h] # None => object[h] \in Objects /\ status[object[h]] = "live"
         /\ \A t \in Threads : ref[t] # None => ref[t] \in Objects /\ status[ref[t]] = "live"
<1>1. ASSUME NEW h \in Handles, object[h] # None
      PROVE  object[h] \in Objects /\ status[object[h]] = "live"
  <2>1. object[h] \in Objects
    BY <1>1 DEF TypeOK, TableTypes
  <2>2. h \in References(object[h])
    BY DEF References
  <2>. QED
    BY <2>1, <2>2 DEF Living, Alive
<1>2. ASSUME NEW t \in Threads, ref[t] # None
      PROVE  ref[t] \in Objects /\ status[ref[t]] = "live"
  <2>1. ref[t] \in Objects
    BY <1>2 DEF TypeOK, CallTypes
  <2>2. t \in References(ref[t])
    BY DEF References
  <2>. QED
    BY <2>1, <2>2 DEF Living, Alive
<1>. QED
  BY <1>1, <1>2

\* handles_[0] of an object that a thread has is a handle.
LEMMA FirstOfRef ==
  ASSUME ObjectTableAssumption, TypeOK, Living, NEW u \in Threads, ref[u] # None
  PROVE  ref[u] \in Objects /\ first[ref[u]] \in Handles
<1>1. ref[u] \in Objects /\ status[ref[u]] = "live"
  BY LeadsToLive
<1>. QED
  BY <1>1 DEF Living, Firsts, TypeOK, TableTypes

\* Every step keeps the counts true.
LEMMA AliveStep ==
  ASSUME ObjectTableAssumption, TypeOK, Control, Living, [Next]_vars
  PROVE  (\A o \in Objects : Alive(o) /\ Listed(o))'
<1>. USE DEF Living
<1>1. ASSUME NEW t \in Threads, NEW ty \in Types, NEW n \in Names \cup {None}, NEW v \in Vars,
             BeginCreate(t, ty, n, v)
      PROVE  (\A o \in Objects : Alive(o) /\ Listed(o))'
  BY <1>1, Unchanged DEF BeginCreate
<1>2. ASSUME NEW t \in Threads, FindNone(t) PROVE (\A o \in Objects : Alive(o) /\ Listed(o))'
  BY <1>2, Unchanged DEF FindNone
<1>3. ASSUME NEW t \in Threads, Find(t) PROVE (\A o \in Objects : Alive(o) /\ Listed(o))'
  BY <1>3, Unchanged DEF Find
<1>4. ASSUME NEW t \in Threads, LookNone(t) PROVE (\A o \in Objects : Alive(o) /\ Listed(o))'
  BY <1>4, Unchanged DEF LookNone
<1>5. ASSUME NEW t \in Threads, Look(t) PROVE (\A o \in Objects : Alive(o) /\ Listed(o))'
  <2>1. ref[t] = None /\ object[arg[t]] \in Objects /\ status[object[arg[t]]] = "live"
    BY <1>5, LeadsToLive DEF Look, Control, Holding, TypeOK, CallTypes
  <2>. QED
    BY <1>5, <2>1, ReferenceTaken DEF Look
<1>6. ASSUME NEW t \in Threads, ReadFirst(t) PROVE (\A o \in Objects : Alive(o) /\ Listed(o))'
  BY <1>6, Unchanged DEF ReadFirst
<1>7. ASSUME NEW t \in Threads, Unkeep(t) PROVE (\A o \in Objects : Alive(o) /\ Listed(o))'
  <2>1. arg[t] \in Handles
    BY <1>7 DEF Unkeep, Control, TypeOK, CallTypes
  <2>. QED
    BY <1>7, <2>1, HandleReleased DEF Unkeep
<1>8. ASSUME NEW t \in Threads, Rekeep(t) PROVE (\A o \in Objects : Alive(o) /\ Listed(o))'
  BY <1>8, Unchanged DEF Rekeep
<1>9. ASSUME NEW t \in Threads, NEW p \in Objects, NEW h \in Handles, Make(t, p, h)
      PROVE  (\A o \in Objects : Alive(o) /\ Listed(o))'
  BY <1>9, ObjectMade
<1>10. ASSUME NEW t \in Threads, SetAttributes(t) PROVE (\A o \in Objects : Alive(o) /\ Listed(o))'
  BY <1>10, Unchanged DEF SetAttributes
<1>11. ASSUME NEW t \in Threads, Answer(t) PROVE (\A o \in Objects : Alive(o) /\ Listed(o))'
  BY <1>11, Unchanged DEF Answer
<1>12. ASSUME NEW t \in Threads, Drop(t) PROVE (\A o \in Objects : Alive(o) /\ Listed(o))'
  BY <1>12, ReferenceDropped
<1>13. ASSUME NEW t \in Threads, NEW n \in Names, NEW v \in Vars, OpenByName(t, n, v)
       PROVE  (\A o \in Objects : Alive(o) /\ Listed(o))'
  BY <1>13, Unchanged DEF OpenByName
<1>14. ASSUME NEW t \in Threads, NEW v \in Vars, NEW w \in Vars, NEW close \in BOOLEAN,
              BeginDuplicate(t, v, w, close)
       PROVE  (\A o \in Objects : Alive(o) /\ Listed(o))'
  BY <1>14, Unchanged DEF BeginDuplicate
<1>15. ASSUME NEW t \in Threads, DuplicateNone(t) PROVE (\A o \in Objects : Alive(o) /\ Listed(o))'
  BY <1>15, Unchanged DEF DuplicateNone
<1>16. ASSUME NEW t \in Threads, LookUp(t) PROVE (\A o \in Objects : Alive(o) /\ Listed(o))'
  <2>1. ref[t] = None /\ object[arg[t]] \in Objects /\ status[object[arg[t]]] = "live"
    BY <1>16, LeadsToLive DEF LookUp, Control, Holding, TypeOK, CallTypes
  <2>. QED
    BY <1>16, <2>1, ReferenceTaken DEF LookUp
<1>17. ASSUME NEW t \in Threads, NEW h \in Handles, Duplicate(t, h)
       PROVE  (\A o \in Objects : Alive(o) /\ Listed(o))'
  BY <1>17, ObjectDuplicated
<1>18. ASSUME NEW t \in Threads, CloseSource(t) PROVE (\A o \in Objects : Alive(o) /\ Listed(o))'
  <2>1. arg[t] \in Handles
    BY <1>18 DEF CloseSource, Control, TypeOK, CallTypes
  <2>2. CASE object[arg[t]] # None
    BY <1>18, <2>1, <2>2, HandleRemoved DEF CloseSource
  <2>3. CASE object[arg[t]] = None
    BY <1>18, <2>3, Unchanged DEF CloseSource
  <2>. QED
    BY <2>2, <2>3
<1>19. ASSUME NEW t \in Threads, NEW v \in Vars, BeginUse(t, v)
       PROVE  (\A o \in Objects : Alive(o) /\ Listed(o))'
  BY <1>19, Unchanged DEF BeginUse
<1>20. ASSUME NEW t \in Threads, UseNone(t) PROVE (\A o \in Objects : Alive(o) /\ Listed(o))'
  BY <1>20, Unchanged DEF UseNone
<1>21. ASSUME NEW t \in Threads, NEW v \in Vars, Close(t, v)
       PROVE  (\A o \in Objects : Alive(o) /\ Listed(o))'
  <2>1. slot[v] \in Handles
    BY <1>21 DEF Close, TypeOK, GuestTypes
  <2>. QED
    BY <1>21, <2>1, HandleReleased DEF Close
<1>22. ASSUME Purge PROVE (\A o \in Objects : Alive(o) /\ Listed(o))'
  BY <1>22, TablePurged
<1>23. CASE UNCHANGED vars
  BY <1>23, Unchanged
<1>. QED
  BY <1>1, <1>2, <1>3, <1>4, <1>5, <1>6, <1>7, <1>8, <1>9, <1>10, <1>11, <1>12, <1>13, <1>14,
     <1>15, <1>16, <1>17, <1>18, <1>19, <1>20, <1>21, <1>22, <1>23 DEF Next, Creates, Opens,
     Duplicates, Uses

\* What is left of handles_ moves up.
LEMMA FirstRemoved ==
  ASSUME ObjectTableAssumption, TypeOK, Living, NEW h \in Handles, object[h] # None, NEW shared,
         RemoveHandle(h, shared)
  PROVE  Firsts'
<1>. DEFINE p == object[h]
<1>1. /\ handles' = [handles EXCEPT ![p] = @ \ {h}] /\ p \in Objects
      /\ \A o \in Objects : o # p => status'[o] = status[o]
      /\ status[p] # "new"
  BY LeadsToLive DEF RemoveHandle, Release, TypeOK, TableTypes, ObjectTypes
<1>2. PICK f \in Handles : /\ f # first[p] => first[p] = h /\ f \in handles[p]
                           /\ handles[p] # {h} => f # h
                           /\ first' = [first EXCEPT ![p] = f]
  BY DEF RemoveHandle
<1>3. first'[p] = f /\ \A o \in Objects : o # p => first'[o] = first[o]
  BY <1>1, <1>2 DEF TypeOK, TableTypes
<1>4. ASSUME NEW o \in Objects PROVE /\ handles'[o] # {} => first'[o] \in handles'[o]
                                     /\ status'[o] # "new" => first'[o] # None
  <2>1. CASE o # p
    BY <1>1, <1>3, <2>1 DEF Living, Firsts, TypeOK, TableTypes
  <2>2. CASE o = p
    <3>1. handles'[p] = handles[p] \ {h} /\ first[p] \in Handles
      BY <1>1, <1>2 DEF Living, Firsts, TypeOK, TableTypes
    <3>2. handles[p] # {} => first[p] \in handles[p]
      BY <1>1 DEF Living, Firsts
    <3>. QED
      BY <1>2, <1>3, <2>2, <3>1, <3>2, ObjectTableAssumption
  <2>. QED
    BY <2>1, <2>2
<1>. QED
  BY <1>4 DEF Firsts

\* Every step keeps handles_[0] readable.
LEMMA FirstsStep ==
  ASSUME ObjectTableAssumption, TypeOK, Control, Living, [Next]_vars
  PROVE  Firsts'
<1>. USE DEF Living, Firsts
<1>1. ASSUME NEW t \in Threads, NEW ty \in Types, NEW n \in Names \cup {None}, NEW v \in Vars,
             BeginCreate(t, ty, n, v)
      PROVE  Firsts'
  BY <1>1 DEF BeginCreate
<1>2. ASSUME NEW t \in Threads, FindNone(t) PROVE Firsts'
  BY <1>2 DEF FindNone
<1>3. ASSUME NEW t \in Threads, Find(t) PROVE Firsts'
  BY <1>3 DEF Find
<1>4. ASSUME NEW t \in Threads, LookNone(t) PROVE Firsts'
  BY <1>4 DEF LookNone
<1>5. ASSUME NEW t \in Threads, Look(t) PROVE Firsts'
  BY <1>5 DEF Look, Retain
<1>6. ASSUME NEW t \in Threads, ReadFirst(t) PROVE Firsts'
  BY <1>6 DEF ReadFirst
<1>7. ASSUME NEW t \in Threads, Unkeep(t) PROVE Firsts'
  <2>1. arg[t] \in Handles
    BY <1>7 DEF Unkeep, Control, TypeOK, CallTypes
  <2>2. CASE object[arg[t]] # None /\ RemoveHandle(arg[t], FALSE)
    BY <2>1, <2>2, FirstRemoved
  <2>3. CASE UNCHANGED <<handles, first, status>>
    BY <2>3
  <2>. QED
    BY <1>7, <2>2, <2>3 DEF Unkeep, ReleaseHandle
<1>8. ASSUME NEW t \in Threads, Rekeep(t) PROVE Firsts'
  BY <1>8 DEF Rekeep
<1>9. ASSUME NEW t \in Threads, NEW o \in Objects, NEW h \in Handles, Make(t, o, h) PROVE Firsts'
  BY <1>9 DEF Make, AddHandle, TypeOK, TableTypes
<1>10. ASSUME NEW t \in Threads, SetAttributes(t) PROVE Firsts'
  BY <1>10 DEF SetAttributes
<1>11. ASSUME NEW t \in Threads, Answer(t) PROVE Firsts'
  BY <1>11 DEF Answer
<1>12. ASSUME NEW t \in Threads, Drop(t) PROVE Firsts'
  BY <1>12, LeadsToLive DEF Drop, Release
<1>13. ASSUME NEW t \in Threads, NEW n \in Names, NEW v \in Vars, OpenByName(t, n, v) PROVE Firsts'
  BY <1>13 DEF OpenByName
<1>14. ASSUME NEW t \in Threads, NEW v \in Vars, NEW w \in Vars, NEW close \in BOOLEAN,
              BeginDuplicate(t, v, w, close)
       PROVE  Firsts'
  BY <1>14 DEF BeginDuplicate
<1>15. ASSUME NEW t \in Threads, DuplicateNone(t) PROVE Firsts'
  BY <1>15 DEF DuplicateNone
<1>16. ASSUME NEW t \in Threads, LookUp(t) PROVE Firsts'
  BY <1>16 DEF LookUp, Retain
<1>17. ASSUME NEW t \in Threads, NEW h \in Handles, Duplicate(t, h) PROVE Firsts'
  BY <1>17 DEF Duplicate, AddHandle, Retain, TypeOK, TableTypes
<1>18. ASSUME NEW t \in Threads, CloseSource(t) PROVE Firsts'
  <2>1. arg[t] \in Handles
    BY <1>18 DEF CloseSource, Control, TypeOK, CallTypes
  <2>2. CASE object[arg[t]] # None
    BY <1>18, <2>1, <2>2, FirstRemoved DEF CloseSource
  <2>3. CASE object[arg[t]] = None
    BY <1>18, <2>3 DEF CloseSource
  <2>. QED
    BY <2>2, <2>3
<1>19. ASSUME NEW t \in Threads, NEW v \in Vars, BeginUse(t, v) PROVE Firsts'
  BY <1>19 DEF BeginUse
<1>20. ASSUME NEW t \in Threads, UseNone(t) PROVE Firsts'
  BY <1>20 DEF UseNone
<1>21. ASSUME NEW t \in Threads, NEW v \in Vars, Close(t, v) PROVE Firsts'
  <2>1. slot[v] \in Handles
    BY <1>21 DEF Close, TypeOK, GuestTypes
  <2>2. CASE object[slot[v]] # None /\ RemoveHandle(slot[v], FALSE)
    BY <2>1, <2>2, FirstRemoved
  <2>3. CASE UNCHANGED <<handles, first, status>>
    BY <2>3
  <2>. QED
    BY <1>21, <2>2, <2>3 DEF Close, ReleaseHandle
<1>22. ASSUME Purge PROVE Firsts'
  BY <1>22 DEF Purge, TypeOK, TableTypes
<1>23. CASE UNCHANGED vars
  BY <1>23 DEF Firsts
<1>. QED
  BY <1>1, <1>2, <1>3, <1>4, <1>5, <1>6, <1>7, <1>8, <1>9, <1>10, <1>11, <1>12, <1>13, <1>14,
     <1>15, <1>16, <1>17, <1>18, <1>19, <1>20, <1>21, <1>22, <1>23 DEF Next, Creates, Opens,
     Duplicates, Uses

\* Every step keeps objects unnamed until their creator names them.
LEMMA UnnamedStep ==
  ASSUME ObjectTableAssumption, TypeOK, Control, Living, [Next]_vars
  PROVE  Unnamed'
<1>. USE DEF Living, Unnamed
<1>1. ASSUME NEW t \in Threads, NEW ty \in Types, NEW n \in Names \cup {None}, NEW v \in Vars,
             BeginCreate(t, ty, n, v)
      PROVE  Unnamed'
  BY <1>1 DEF BeginCreate, Goto
<1>2. ASSUME NEW t \in Threads, FindNone(t) PROVE Unnamed'
  BY <1>2 DEF FindNone, Goto
<1>3. ASSUME NEW t \in Threads, Find(t) PROVE Unnamed'
  BY <1>3 DEF Find, Goto
<1>4. ASSUME NEW t \in Threads, LookNone(t) PROVE Unnamed'
  BY <1>4 DEF LookNone, Goto
<1>5. ASSUME NEW t \in Threads, Look(t) PROVE Unnamed'
  BY <1>5 DEF Look, Takes, Retain, Goto
<1>6. ASSUME NEW t \in Threads, ReadFirst(t) PROVE Unnamed'
  BY <1>6 DEF ReadFirst, Goto
<1>7. ASSUME NEW t \in Threads, Unkeep(t) PROVE Unnamed'
  BY <1>7 DEF Unkeep, ReleaseHandle, RemoveHandle, Release, TypeOK, TableTypes, ObjectTypes, Goto
<1>8. ASSUME NEW t \in Threads, Rekeep(t) PROVE Unnamed'
  BY <1>8 DEF Rekeep, Goto
<1>9. ASSUME NEW t \in Threads, NEW o \in Objects, NEW h \in Handles, Make(t, o, h) PROVE Unnamed'
  <2>1. /\ status[o] = "new" /\ ref[t] = None /\ name' = name
        /\ ref' = [ref EXCEPT ![t] = o] /\ status' = [status EXCEPT ![o] = "live"]
        /\ \A u \in Threads : u # t => pc'[u] = pc[u]
    BY <1>9 DEF Make, Takes, Goto, Control, Holding
  <2>2. \A u \in Threads : ref[u] # o
    BY <2>1 DEF Alive, References
  <2>3. \A u \in Threads : ref'[u] = IF u = t THEN o ELSE ref[u]
    BY <2>1 DEF TypeOK, CallTypes
  <2>4. \A p \in Objects : status'[p] = "new" => status[p] = "new"
    BY <2>1 DEF TypeOK
  <2>. QED
    BY <2>1, <2>2, <2>3, <2>4 DEF Unnamed
<1>10. ASSUME NEW t \in Threads, SetAttributes(t) PROVE Unnamed'
  <2>1. /\ pc[t] = "attributes" /\ ref[t] \in Objects /\ UNCHANGED <<status, ref>>
        /\ name' = [name EXCEPT ![ref[t]] = wantName[t]]
        /\ \A u \in Threads : pc'[u] = IF u = t THEN "answer" ELSE pc[u]
    BY <1>10 DEF SetAttributes, Goto, Control, Holding, TypeOK, CallTypes
  <2>2. status[ref[t]] = "live"
    BY <2>1 DEF Alive, References
  <2>3. \A p \in Objects : p # ref[t] => name'[p] = name[p]
    BY <2>1 DEF TypeOK
  <2>4. \A u \in Threads : pc[u] = "attributes" => ref[u] \in Objects
    BY DEF Control, Holding, TypeOK, CallTypes
  <2>. QED
    BY <2>1, <2>2, <2>3, <2>4 DEF Unnamed
<1>11. ASSUME NEW t \in Threads, Answer(t) PROVE Unnamed'
  BY <1>11 DEF Answer, Goto
<1>12. ASSUME NEW t \in Threads, Drop(t) PROVE Unnamed'
  BY <1>12 DEF Drop, Release, Takes, Goto
<1>13. ASSUME NEW t \in Threads, NEW n \in Names, NEW v \in Vars, OpenByName(t, n, v)
       PROVE  Unnamed'
  BY <1>13 DEF OpenByName
<1>14. ASSUME NEW t \in Threads, NEW v \in Vars, NEW w \in Vars, NEW close \in BOOLEAN,
              BeginDuplicate(t, v, w, close)
       PROVE  Unnamed'
  BY <1>14 DEF BeginDuplicate, Goto
<1>15. ASSUME NEW t \in Threads, DuplicateNone(t) PROVE Unnamed'
  BY <1>15 DEF DuplicateNone, Goto
<1>16. ASSUME NEW t \in Threads, LookUp(t) PROVE Unnamed'
  BY <1>16 DEF LookUp, Takes, Retain, Goto
<1>17. ASSUME NEW t \in Threads, NEW h \in Handles, Duplicate(t, h) PROVE Unnamed'
  BY <1>17 DEF Duplicate, Retain, Goto
<1>18. ASSUME NEW t \in Threads, CloseSource(t) PROVE Unnamed'
  BY <1>18 DEF CloseSource, RemoveHandle, Release, TypeOK, ObjectTypes, Goto
<1>19. ASSUME NEW t \in Threads, NEW v \in Vars, BeginUse(t, v) PROVE Unnamed'
  BY <1>19 DEF BeginUse, Goto
<1>20. ASSUME NEW t \in Threads, UseNone(t) PROVE Unnamed'
  BY <1>20 DEF UseNone, Goto
<1>21. ASSUME NEW t \in Threads, NEW v \in Vars, Close(t, v) PROVE Unnamed'
  BY <1>21 DEF Close, ReleaseHandle, RemoveHandle, Release, TypeOK, ObjectTypes
<1>22. ASSUME Purge PROVE Unnamed'
  BY <1>22 DEF Purge
<1>23. CASE UNCHANGED vars
  BY <1>23 DEF Unnamed
<1>. QED
  BY <1>1, <1>2, <1>3, <1>4, <1>5, <1>6, <1>7, <1>8, <1>9, <1>10, <1>11, <1>12, <1>13, <1>14,
     <1>15, <1>16, <1>17, <1>18, <1>19, <1>20, <1>21, <1>22, <1>23 DEF Next, Creates, Opens,
     Duplicates, Uses

\* Every step leaves the threads with what their next one needs.
LEMMA ControlStep ==
  ASSUME ObjectTableAssumption, TypeOK, Control, OneWriter, Living, [Next]_vars
  PROVE  Control'
<1>. USE DEF TypeOK, ObjectTableAssumption
<1>1. ASSUME NEW t \in Threads, NEW ty \in Types, NEW n \in Names \cup {None}, NEW v \in Vars,
             BeginCreate(t, ty, n, v)
      PROVE  Control'
  BY <1>1 DEF BeginCreate, MayCall, Free, CallTypes, Goto, Control, Holding, Asking, Closing
<1>2. ASSUME NEW t \in Threads, FindNone(t) PROVE Control'
  BY <1>2 DEF FindNone, Goto, Control, Holding, Asking, Closing
<1>3. ASSUME NEW t \in Threads, Find(t) PROVE Control'
  BY <1>3 DEF Find, CallTypes, Goto, Control, Holding, Asking, Closing
<1>4. ASSUME NEW t \in Threads, LookNone(t) PROVE Control'
  BY <1>4 DEF LookNone, Goto, Control, Holding, Asking, Closing
<1>5. ASSUME NEW t \in Threads, Look(t) PROVE Control'
  BY <1>5 DEF Look, Takes, CallTypes, Goto, Control, Holding, Asking, Closing
<1>6. ASSUME NEW t \in Threads, ReadFirst(t) PROVE Control'
  <2>1. first[ref[t]] \in Handles
    BY <1>6, FirstOfRef DEF ReadFirst, Control, Holding
  <2>. QED
    BY <1>6, <2>1 DEF ReadFirst, CallTypes, Goto, Control, Holding, Asking, Closing
<1>7. ASSUME NEW t \in Threads, Unkeep(t) PROVE Control'
  BY <1>7 DEF Unkeep, Goto, Control, Holding, Asking, Closing
<1>8. ASSUME NEW t \in Threads, Rekeep(t) PROVE Control'
  BY <1>8 DEF Rekeep, Goto, Control, Holding, Asking, Closing
<1>9. ASSUME NEW t \in Threads, NEW o \in Objects, NEW h \in Handles, Make(t, o, h) PROVE Control'
  BY <1>9 DEF Make, Takes, CallTypes, Goto, Control, Holding, Asking, Closing
<1>10. ASSUME NEW t \in Threads, SetAttributes(t) PROVE Control'
  BY <1>10 DEF SetAttributes, Goto, Control, Holding, Asking, Closing
<1>11. ASSUME NEW t \in Threads, Answer(t) PROVE Control'
  BY <1>11 DEF Answer, CallTypes, Goto, Control, OneWriter, Holding, Asking, Closing
<1>12. ASSUME NEW t \in Threads, Drop(t) PROVE Control'
  BY <1>12 DEF Drop, Takes, CallTypes, Goto, Control, Holding, Asking, Closing
<1>13. ASSUME NEW t \in Threads, NEW n \in Names, NEW v \in Vars, OpenByName(t, n, v)
       PROVE  Control'
  BY <1>13 DEF OpenByName, Free, Control
<1>14. ASSUME NEW t \in Threads, NEW v \in Vars, NEW w \in Vars, NEW close \in BOOLEAN,
              BeginDuplicate(t, v, w, close)
       PROVE  Control'
  BY <1>14 DEF BeginDuplicate, MayCall, Free, CallTypes, Goto, Control, Holding, Asking, Closing
<1>15. ASSUME NEW t \in Threads, DuplicateNone(t) PROVE Control'
  BY <1>15 DEF DuplicateNone, CallTypes, Goto, Control, Holding, Asking, Closing
<1>16. ASSUME NEW t \in Threads, LookUp(t) PROVE Control'
  BY <1>16 DEF LookUp, Takes, CallTypes, Goto, Control, Holding, Asking, Closing
<1>17. ASSUME NEW t \in Threads, NEW h \in Handles, Duplicate(t, h) PROVE Control'
  BY <1>17 DEF Duplicate, CallTypes, Goto, Control, OneWriter, Holding, Asking, Closing
<1>18. ASSUME NEW t \in Threads, CloseSource(t) PROVE Control'
  BY <1>18 DEF CloseSource, CallTypes, Goto, Control, OneWriter, Holding, Asking
<1>19. ASSUME NEW t \in Threads, NEW v \in Vars, BeginUse(t, v) PROVE Control'
  BY <1>19 DEF BeginUse, CallTypes, Goto, Control, Holding, Asking, Closing
<1>20. ASSUME NEW t \in Threads, UseNone(t) PROVE Control'
  BY <1>20 DEF UseNone, Goto, Control, Holding, Asking, Closing
<1>21. ASSUME NEW t \in Threads, NEW v \in Vars, Close(t, v) PROVE Control'
  BY <1>21 DEF Close, Control
<1>22. ASSUME Purge PROVE Control'
  BY <1>22 DEF Purge, Control, Holding, Asking
<1>23. CASE UNCHANGED vars
  BY <1>23 DEF Control
<1>. QED
  BY <1>1, <1>2, <1>3, <1>4, <1>5, <1>6, <1>7, <1>8, <1>9, <1>10, <1>11, <1>12, <1>13, <1>14,
     <1>15, <1>16, <1>17, <1>18, <1>19, <1>20, <1>21, <1>22, <1>23 DEF Next, Creates, Opens,
     Duplicates, Uses

\* No step gives a variable a second writer.
LEMMA OneWriterStep ==
  ASSUME ObjectTableAssumption, TypeOK, Control, OneWriter, Living, [Next]_vars
  PROVE  OneWriter'
<1>. USE DEF TypeOK, ObjectTableAssumption
<1>1. ASSUME NEW t \in Threads, NEW ty \in Types, NEW n \in Names \cup {None}, NEW v \in Vars,
             BeginCreate(t, ty, n, v)
      PROVE  OneWriter'
  BY <1>1 DEF BeginCreate, Free, OneWriter
<1>2. ASSUME NEW t \in Threads, FindNone(t) PROVE OneWriter'
  BY <1>2 DEF FindNone, OneWriter
<1>3. ASSUME NEW t \in Threads, Find(t) PROVE OneWriter'
  BY <1>3 DEF Find, OneWriter
<1>4. ASSUME NEW t \in Threads, LookNone(t) PROVE OneWriter'
  BY <1>4 DEF LookNone, OneWriter
<1>5. ASSUME NEW t \in Threads, Look(t) PROVE OneWriter'
  BY <1>5 DEF Look, OneWriter
<1>6. ASSUME NEW t \in Threads, ReadFirst(t) PROVE OneWriter'
  BY <1>6 DEF ReadFirst, OneWriter
<1>7. ASSUME NEW t \in Threads, Unkeep(t) PROVE OneWriter'
  BY <1>7 DEF Unkeep, OneWriter
<1>8. ASSUME NEW t \in Threads, Rekeep(t) PROVE OneWriter'
  BY <1>8 DEF Rekeep, OneWriter
<1>9. ASSUME NEW t \in Threads, NEW o \in Objects, NEW h \in Handles, Make(t, o, h)
      PROVE  OneWriter'
  BY <1>9 DEF Make, OneWriter
<1>10. ASSUME NEW t \in Threads, SetAttributes(t) PROVE OneWriter'
  BY <1>10 DEF SetAttributes, OneWriter
<1>11. ASSUME NEW t \in Threads, Answer(t) PROVE OneWriter'
  BY <1>11 DEF Answer, OneWriter
<1>12. ASSUME NEW t \in Threads, Drop(t) PROVE OneWriter'
  BY <1>12 DEF Drop, OneWriter
<1>13. ASSUME NEW t \in Threads, NEW n \in Names, NEW v \in Vars, OpenByName(t, n, v)
       PROVE  OneWriter'
  BY <1>13 DEF OpenByName, OneWriter
<1>14. ASSUME NEW t \in Threads, NEW v \in Vars, NEW w \in Vars, NEW close \in BOOLEAN,
              BeginDuplicate(t, v, w, close)
       PROVE  OneWriter'
  BY <1>14 DEF BeginDuplicate, Free, OneWriter
<1>15. ASSUME NEW t \in Threads, DuplicateNone(t) PROVE OneWriter'
  BY <1>15 DEF DuplicateNone, OneWriter
<1>16. ASSUME NEW t \in Threads, LookUp(t) PROVE OneWriter'
  BY <1>16 DEF LookUp, OneWriter
<1>17. ASSUME NEW t \in Threads, NEW h \in Handles, Duplicate(t, h) PROVE OneWriter'
  BY <1>17 DEF Duplicate, OneWriter
<1>18. ASSUME NEW t \in Threads, CloseSource(t) PROVE OneWriter'
  BY <1>18 DEF CloseSource, OneWriter
<1>19. ASSUME NEW t \in Threads, NEW v \in Vars, BeginUse(t, v) PROVE OneWriter'
  BY <1>19 DEF BeginUse, OneWriter
<1>20. ASSUME NEW t \in Threads, UseNone(t) PROVE OneWriter'
  BY <1>20 DEF UseNone, OneWriter
<1>21. ASSUME NEW t \in Threads, NEW v \in Vars, Close(t, v) PROVE OneWriter'
  BY <1>21 DEF Close, OneWriter
<1>22. ASSUME Purge PROVE OneWriter'
  BY <1>22 DEF Purge, OneWriter
<1>23. CASE UNCHANGED vars
  BY <1>23 DEF OneWriter
<1>. QED
  BY <1>1, <1>2, <1>3, <1>4, <1>5, <1>6, <1>7, <1>8, <1>9, <1>10, <1>11, <1>12, <1>13, <1>14,
     <1>15, <1>16, <1>17, <1>18, <1>19, <1>20, <1>21, <1>22, <1>23 DEF Next, Creates, Opens,
     Duplicates, Uses

-----------------------------------------------------------------------------

\* How a set of users grows and shrinks.
LEMMA Counting ==
  ASSUME NEW S, IsFiniteSet(S), NEW T, NEW x
  PROVE  /\ Cardinality(S) \in Nat
         /\ T \subseteq S => Cardinality(T) \in Nat /\ Cardinality(T) <= Cardinality(S)
         /\ T \subseteq S \cup {x} => Cardinality(T) \in Nat /\ Cardinality(T) <= Cardinality(S) + 1
         /\ x \in S /\ T \subseteq S \ {x} => Cardinality(T) \in Nat /\ Cardinality(T) <= Cardinality(S) - 1
         /\ x \in S /\ Cardinality(S) <= 1 => S = {x}
<1>1. Cardinality(S) \in Nat
  BY FS_CardinalityType
<1>2. ASSUME T \subseteq S PROVE Cardinality(T) \in Nat /\ Cardinality(T) <= Cardinality(S)
  BY <1>2, FS_Subset, FS_CardinalityType
<1>3. /\ IsFiniteSet(S \cup {x}) /\ Cardinality(S \cup {x}) \in Nat
      /\ Cardinality(S \cup {x}) <= Cardinality(S) + 1
  BY <1>1, FS_AddElement, FS_CardinalityType
<1>4. ASSUME T \subseteq S \cup {x}
      PROVE  Cardinality(T) \in Nat /\ Cardinality(T) <= Cardinality(S) + 1
  <2>1. IsFiniteSet(T) /\ Cardinality(T) <= Cardinality(S \cup {x})
    BY <1>4, <1>3, FS_Subset
  <2>. QED
    BY <2>1, <1>1, <1>3, FS_CardinalityType
<1>5. ASSUME x \in S, T \subseteq S \ {x}
      PROVE  Cardinality(T) \in Nat /\ Cardinality(T) <= Cardinality(S) - 1
  <2>1. IsFiniteSet(S \ {x}) /\ Cardinality(S \ {x}) = Cardinality(S) - 1
    BY <1>5, FS_RemoveElement
  <2>2. IsFiniteSet(T) /\ Cardinality(T) <= Cardinality(S \ {x})
    BY <1>5, <2>1, FS_Subset
  <2>. QED
    BY <2>1, <2>2, FS_CardinalityType
<1>6. ASSUME x \in S, Cardinality(S) <= 1 PROVE S = {x}
  <2>1. Cardinality(S) # 0
    BY <1>6, FS_EmptySet
  <2>2. Cardinality(S) = 1
    BY <2>1, <1>1, <1>6
  <2>3. PICK y : S = {y}
    BY <2>2, FS_Singleton
  <2>. QED
    BY <2>3, <1>6
<1>. QED
  BY <1>1, <1>2, <1>4, <1>5, <1>6

\* A handle has finitely many users.
LEMMA FiniteUsers == ASSUME ObjectTableAssumption, NEW h PROVE IsFiniteSet(Users(h))
<1>1. IsFiniteSet(Vars \cup Threads)
  BY FS_Union DEF ObjectTableAssumption
<1>2. Users(h) \subseteq Vars \cup Threads
  BY DEF Users
<1>. QED
  BY <1>1, <1>2, FS_Subset

\* A handle that is closed for the last time has no user but the one that closes it.
LEMMA OnlyUser ==
  ASSUME ObjectTableAssumption, Opened, NEW h \in Handles, object[h] # None,
         handle_ref_count[h] = 1, NEW x \in Users(h)
  PROVE  Users(h) = {x}
<1>1. Cardinality(Users(h)) <= 1
  BY DEF Opened
<1>. QED
  BY <1>1, FiniteUsers, Counting

\* A step of a call that leaves the table and the guest's variables alone.
LEMMA CallOnly ==
  ASSUME ObjectTableAssumption, InOrder, TypeOK, Kept',
         UNCHANGED <<object, handle_ref_count, name_table, first, slot, meant, name, stale>>,
         \A u \in Threads : kept'[u] = kept[u] \/ kept'[u] = None
  PROVE  InOrder'
<1>1. ASSUME NEW h \in Handles, object[h] # None
      PROVE  handle_ref_count[h] >= Cardinality(Users(h)')
  <2>1. Users(h)' \subseteq Users(h)
    BY DEF Users, ObjectTableAssumption
  <2>2. Cardinality(Users(h)') \in Nat /\ Cardinality(Users(h)') <= Cardinality(Users(h))
    BY <2>1, FiniteUsers, Counting
  <2>. QED
    BY <2>2, <1>1, FiniteUsers, Counting DEF InOrder, Opened, TypeOK, TableTypes
<1>. QED
  BY <1>1 DEF InOrder, Opened, SlotsAreKept, Named

\* A handle is retained for one more user ...
LEMMA OneMoreUser ==
  ASSUME ObjectTableAssumption, TypeOK, Opened, NEW k \in Handles, RetainHandle(k), NEW x,
         UNCHANGED object, Users(k)' \subseteq Users(k) \cup {x},
         \A h \in Handles : h # k => Users(h)' \subseteq Users(h)
  PROVE  Opened'
<1>. SUFFICES ASSUME NEW h \in Handles, object[h] # None
              PROVE  handle_ref_count'[h] >= Cardinality(Users(h)')
  BY DEF Opened
<1>1. /\ handle_ref_count[h] >= Cardinality(Users(h)) /\ handle_ref_count[h] \in Int
      /\ Cardinality(Users(h)) \in Nat
  BY FiniteUsers, Counting DEF Opened, TypeOK, TableTypes
<1>2. handle_ref_count'[h] = IF h = k THEN handle_ref_count[h] + 1 ELSE handle_ref_count[h]
  BY DEF RetainHandle, TypeOK, TableTypes
<1>3. CASE h = k
  <2>1. Cardinality(Users(h)') \in Nat /\ Cardinality(Users(h)') <= Cardinality(Users(h)) + 1
    BY <1>3, FiniteUsers, Counting
  <2>. QED
    BY <2>1, <1>1, <1>2, <1>3
<1>4. CASE h # k
  <2>1. Cardinality(Users(h)') \in Nat /\ Cardinality(Users(h)') <= Cardinality(Users(h))
    BY <1>4, FiniteUsers, Counting
  <2>. QED
    BY <2>1, <1>1, <1>2, <1>4
<1>. QED
  BY <1>3, <1>4

\* ... and released by one of several.
LEMMA OneUserLess ==
  ASSUME ObjectTableAssumption, TypeOK, Opened, NEW k \in Handles, NEW x \in Users(k),
         handle_ref_count' = [handle_ref_count EXCEPT ![k] = @ - 1],
         UNCHANGED object, Users(k)' \subseteq Users(k) \ {x},
         \A h \in Handles : h # k => Users(h)' \subseteq Users(h)
  PROVE  Opened'
<1>. SUFFICES ASSUME NEW h \in Handles, object[h] # None
              PROVE  handle_ref_count'[h] >= Cardinality(Users(h)')
  BY DEF Opened
<1>1. /\ handle_ref_count[h] >= Cardinality(Users(h)) /\ handle_ref_count[h] \in Int
      /\ Cardinality(Users(h)) \in Nat
  BY FiniteUsers, Counting DEF Opened, TypeOK, TableTypes
<1>2. handle_ref_count'[h] = IF h = k THEN handle_ref_count[h] - 1 ELSE handle_ref_count[h]
  BY DEF TypeOK, TableTypes
<1>3. CASE h = k
  <2>1. Cardinality(Users(h)') \in Nat /\ Cardinality(Users(h)') <= Cardinality(Users(h)) - 1
    BY <1>3, FiniteUsers, Counting
  <2>. QED
    BY <2>1, <1>1, <1>2, <1>3
<1>4. CASE h # k
  <2>1. Cardinality(Users(h)') \in Nat /\ Cardinality(Users(h)') <= Cardinality(Users(h))
    BY <1>4, FiniteUsers, Counting
  <2>. QED
    BY <2>1, <1>1, <1>2, <1>4
<1>. QED
  BY <1>3, <1>4

\* A new handle has one user.
LEMMA FirstUser ==
  ASSUME ObjectTableAssumption, TypeOK, Kept, SlotsAreKept, Opened, NEW o \in Objects,
         NEW k \in Handles, AddHandle(o, k), NEW x,
         Users(k)' \subseteq Users(k) \cup {x},
         \A h \in Handles : h # k => Users(h)' \subseteq Users(h)
  PROVE  Opened'
<1>. SUFFICES ASSUME NEW h \in Handles, object'[h] # None
              PROVE  handle_ref_count'[h] >= Cardinality(Users(h)')
  BY DEF Opened
<1>1. /\ handle_ref_count'[h] = IF h = k THEN 1 ELSE handle_ref_count[h]
      /\ handle_ref_count[h] \in Int /\ Cardinality(Users(h)) \in Nat
      /\ h # k => object[h] # None
  BY FiniteUsers, Counting DEF AddHandle, TypeOK, TableTypes
<1>2. Users(k) = {}
  BY DEF Users, SlotsAreKept, Kept, AddHandle, TypeOK, TableTypes
<1>3. CASE h = k
  <2>1. Cardinality(Users(h)') \in Nat /\ Cardinality(Users(h)') <= Cardinality({}) + 1
    BY <1>2, <1>3, FS_EmptySet, Counting
  <2>. QED
    BY <2>1, <1>1, <1>3, FS_EmptySet
<1>4. CASE h # k
  <2>1. Cardinality(Users(h)') \in Nat /\ Cardinality(Users(h)') <= Cardinality(Users(h))
    BY <1>4, FiniteUsers, Counting
  <2>. QED
    BY <2>1, <1>1, <1>4 DEF Opened
<1>. QED
  BY <1>3, <1>4

\* A handle that only one variable holds is removed.
LEMMA SlotRemoved ==
  ASSUME ObjectTableAssumption, Inv, ~raced, ~raced', NEW v \in Vars, slot[v] # None,
         RemoveHandle(slot[v], FALSE), handle_ref_count[slot[v]] = 1,
         slot' = [slot EXCEPT ![v] = None], meant' = [meant EXCEPT ![v] = None],
         UNCHANGED <<ref, arg, kept, name>>,
         \A u \in Threads : pc'[u] = pc[u] \/ pc'[u] = "idle"
  PROVE  InOrder'
<1>. DEFINE h == slot[v]
            o == object[h]
<1>. USE DEF Inv, Safe, InOrder
<1>1. /\ h \in Handles /\ o \in Objects
      /\ object' = [object EXCEPT ![h] = None]
      /\ handle_ref_count' = [handle_ref_count EXCEPT ![h] = 0]
      /\ name_table' = NamesWithout(o) /\ stale' = stale \ {name[o]}
      /\ \A u \in Threads : ~Opening(u, o)
      /\ \A p \in Objects : first'[p] # first[p] => p = o /\ first[p] = h
  BY DEF RemoveHandle, SlotsAreKept, TypeOK, TableTypes, GuestTypes
<1>2. Users(h) = {v}
  BY <1>1, OnlyUser DEF Users
<1>3. /\ \A w \in Vars : w # v => slot[w] # h
      /\ \A u \in Threads : kept[u] # h
  BY <1>2 DEF Users
<1>4. Opened'
  <2>. SUFFICES ASSUME NEW g \in Handles, object'[g] # None
                PROVE  handle_ref_count'[g] >= Cardinality(Users(g)')
    BY DEF Opened
  <2>1. g # h /\ object[g] # None /\ handle_ref_count'[g] = handle_ref_count[g]
    BY <1>1 DEF TypeOK, TableTypes
  <2>2. Users(g)' \subseteq Users(g)
    BY DEF Users, TypeOK, GuestTypes, ObjectTableAssumption
  <2>3. /\ Cardinality(Users(g)') <= Cardinality(Users(g))
        /\ Cardinality(Users(g)') \in Nat /\ Cardinality(Users(g)) \in Nat
    BY <2>2, FiniteUsers, Counting
  <2>. QED
    BY <2>1, <2>3 DEF Opened, TypeOK, TableTypes
<1>5. Kept'
  BY <1>1, <1>3 DEF Kept, Opening, TypeOK, TableTypes, CallTypes, Control, Holding
<1>6. SlotsAreKept'
  BY <1>1, <1>3 DEF SlotsAreKept, TypeOK, GuestTypes
<1>7. Named'
  <2>. SUFFICES ASSUME NEW n \in Names \ stale', name_table'[n] # None
                PROVE  /\ object'[name_table'[n]] # None
                       /\ name'[object'[name_table'[n]]] = n
                       /\ first'[object'[name_table'[n]]] = name_table'[n]
    BY DEF Named
  <2>1. /\ n # name[o] /\ n \notin stale
        /\ name_table'[n] = name_table[n] /\ name_table[n] \in Handles
    BY <1>1 DEF NamesWithout, TypeOK, TableTypes
  <2>2. /\ object[name_table[n]] # None /\ name[object[name_table[n]]] = n
        /\ first[object[name_table[n]]] = name_table[n]
    BY <2>1 DEF Named
  <2>3. object[name_table[n]] # o
    BY <2>1, <2>2
  <2>4. /\ object'[name_table[n]] = object[name_table[n]]
        /\ first'[object[name_table[n]]] = first[object[name_table[n]]]
    BY <1>1, <2>1, <2>2, <2>3 DEF TypeOK, TableTypes
  <2>. QED
    BY <2>1, <2>2, <2>4
<1>. QED
  BY <1>4, <1>5, <1>6, <1>7

\* Unless an object loses a handle while it is opened, every step keeps the handles
\* in order.
LEMMA InOrderStep ==
  ASSUME ObjectTableAssumption, Inv, ~raced, ~raced', [Next]_vars
  PROVE  InOrder'
<1>. USE DEF Inv, Safe, InOrder
<1>1. ASSUME NEW t \in Threads, NEW ty \in Types, NEW n \in Names \cup {None}, NEW v \in Vars,
             BeginCreate(t, ty, n, v)
      PROVE  InOrder'
  <2>1. Kept'
    BY <1>1 DEF BeginCreate, Goto, Kept
  <2>. QED
    BY <1>1, <2>1, CallOnly DEF BeginCreate
<1>2. ASSUME NEW t \in Threads, FindNone(t) PROVE InOrder'
  <2>1. Kept'
    BY <1>2 DEF FindNone, Goto, Kept
  <2>. QED
    BY <1>2, <2>1, CallOnly DEF FindNone
<1>3. ASSUME NEW t \in Threads, Find(t) PROVE InOrder'
  <2>. DEFINE n == wantName[t]
  <2>a. n \notin stale
    BY <1>3 DEF Find
  <2>b. n \in Names /\ name_table[n] \in Handles /\ pc[t] = "find"
    BY <1>3 DEF Find, Control, TypeOK, TableTypes, CallTypes
  <2>1. PICK k \in Handles : k = name_table[n] /\ object[k] # None /\ first[object[k]] = k
    BY <2>a, <2>b, <1>3 DEF Find, Named
  <2>2. /\ RetainHandle(k) /\ UNCHANGED <<object, name_table, first, slot, meant, name, ref, stale>>
        /\ arg' = [arg EXCEPT ![t] = k] /\ kept' = [kept EXCEPT ![t] = k]
        /\ pc' = [pc EXCEPT ![t] = "look"]
    BY <1>3, <2>1 DEF Find, GetObjectByName, Retained, Goto
  <2>3. Opened'
    <3>1. /\ Users(k)' \subseteq Users(k) \cup {t}
          /\ \A h \in Handles : h # k => Users(h)' \subseteq Users(h)
      BY <2>1, <2>2 DEF Users
    <3>. QED
      BY <3>1, <2>1, <2>2, OneMoreUser
  <2>4. Kept'
    BY <2>b, <2>1, <2>2 DEF Kept, TypeOK, CallTypes
  <2>. QED
    BY <2>2, <2>3, <2>4 DEF SlotsAreKept, Named
<1>4. ASSUME NEW t \in Threads, LookNone(t) PROVE InOrder'
  <2>1. Kept'
    BY <1>4 DEF LookNone, Kept, Control
  <2>. QED
    BY <1>4, <2>1, CallOnly DEF LookNone
<1>5. ASSUME NEW t \in Threads, Look(t) PROVE InOrder'
  <2>1. Kept'
    BY <1>5 DEF Look, Takes, Retain, Goto, Kept, TypeOK, CallTypes
  <2>. QED
    BY <1>5, <2>1, CallOnly DEF Look
<1>6. ASSUME NEW t \in Threads, ReadFirst(t) PROVE InOrder'
  <2>1. Kept'
    BY <1>6 DEF ReadFirst, Goto, Kept, TypeOK, CallTypes
  <2>. QED
    BY <1>6, <2>1, CallOnly DEF ReadFirst
<1>7. ASSUME NEW t \in Threads, Unkeep(t) PROVE InOrder'
  <2>1. PICK k \in Handles :
        /\ k = arg[t] /\ kept[t] = k /\ ref[t] \in Objects /\ object[k] = ref[t]
        /\ pc[t] = "release" /\ Opening(t, ref[t]) /\ ref[t] # None
    BY <1>7 DEF Unkeep, Kept, Control, Opening, TypeOK, CallTypes
  <2>2. /\ handle_ref_count' = [handle_ref_count EXCEPT ![k] = @ - 1]
        /\ UNCHANGED <<object, name_table, first, stale>>
    BY <1>7, <2>1 DEF Unkeep, ReleaseHandle, RemoveHandle
  <2>3. /\ UNCHANGED <<slot, meant, name, ref, arg>> /\ kept' = [kept EXCEPT ![t] = None]
        /\ pc' = [pc EXCEPT ![t] = "rekeep"]
    BY <1>7 DEF Unkeep, Goto
  <2>4. Opened'
    <3>1. /\ t \in Users(k) /\ Users(k)' \subseteq Users(k) \ {t}
          /\ \A h \in Handles : h # k => Users(h)' \subseteq Users(h)
      BY <2>1, <2>3 DEF Users, TypeOK, CallTypes
    <3>. QED
      BY <3>1, <2>1, <2>2, OneUserLess
  <2>5. Kept'
    BY <2>1, <2>2, <2>3 DEF Kept, TypeOK, CallTypes
  <2>. QED
    BY <2>2, <2>3, <2>4, <2>5 DEF SlotsAreKept, Named
<1>8. ASSUME NEW t \in Threads, Rekeep(t) PROVE InOrder'
  <2>1. PICK k \in Handles :
        /\ k = arg[t] /\ pc[t] = "retain" /\ k = first[ref[t]] /\ object[k] = ref[t] /\ ref[t] # None
    BY <1>8 DEF Rekeep, Kept, Control, Holding, TypeOK, CallTypes
  <2>2. /\ RetainHandle(k) /\ kept' = [kept EXCEPT ![t] = k] /\ pc' = [pc EXCEPT ![t] = "answer"]
        /\ UNCHANGED <<object, name_table, first, slot, meant, name, ref, arg, stale>>
    BY <1>8, <2>1 DEF Rekeep, Goto
  <2>3. Opened'
    <3>1. /\ Users(k)' \subseteq Users(k) \cup {t}
          /\ \A h \in Handles : h # k => Users(h)' \subseteq Users(h)
      BY <2>1, <2>2 DEF Users
    <3>. QED
      BY <3>1, <2>1, <2>2, OneMoreUser
  <2>4. Kept'
    BY <2>1, <2>2 DEF Kept, TypeOK, CallTypes
  <2>. QED
    BY <2>2, <2>3, <2>4 DEF SlotsAreKept, Named
<1>9. ASSUME NEW t \in Threads, NEW o \in Objects, NEW h \in Handles, Make(t, o, h) PROVE InOrder'
  <2>1. /\ AddHandle(o, h) /\ status[o] = "new" /\ handles[o] = {} /\ object[h] = None
        /\ object' = [object EXCEPT ![h] = o] /\ first' = [first EXCEPT ![o] = h]
        /\ ref' = [ref EXCEPT ![t] = o] /\ kept' = [kept EXCEPT ![t] = h]
        /\ \A u \in Threads : u # t => pc'[u] = pc[u]
        /\ pc'[t] \in {"answer", "attributes"}
        /\ UNCHANGED <<name_table, slot, meant, name, arg, stale>>
    BY <1>9 DEF Make, AddHandle, Takes, Goto, Living, Alive, Listed, References, TypeOK, CallTypes
  <2>2. \A g \in Handles : object[g] # o
    BY <2>1 DEF Living, Listed
  <2>3. Opened'
    <3>1. /\ Users(h)' \subseteq Users(h) \cup {t}
          /\ \A g \in Handles : g # h => Users(g)' \subseteq Users(g)
      BY <2>1 DEF Users
    <3>. QED
      BY <3>1, <2>1, FirstUser
  <2>4. \A u \in Threads : u # t => ref'[u] = ref[u] /\ ref[u] # o
    <3>1. \A u \in Threads : ref[u] # o
      BY <2>1, LeadsToLive DEF ObjectTableAssumption
    <3>. QED
      BY <3>1, <2>1
  <2>5. Kept'
    BY <2>1, <2>2, <2>4 DEF Kept, Control, Holding, TypeOK, TableTypes, CallTypes
  <2>6. SlotsAreKept'
    BY <2>1 DEF SlotsAreKept
  <2>7. Named'
    BY <2>1, <2>2 DEF Named, TypeOK, TableTypes
  <2>. QED
    BY <2>3, <2>5, <2>6, <2>7
<1>10. ASSUME NEW t \in Threads, SetAttributes(t) PROVE InOrder'
  <2>. DEFINE o == ref[t]
              n == wantName[t]
  <2>1. /\ pc[t] = "attributes" /\ o \in Objects /\ n \in Names /\ name[o] = None /\ object[first[o]] = o
        /\ first[o] \in Handles /\ n # None
    BY <1>10, FirstOfRef DEF SetAttributes, Control, Holding, Living, Unnamed, Kept, TypeOK,
       CallTypes
  <2>2. /\ name' = [name EXCEPT ![o] = n]
        /\ name_table' = IF name_table[n] = None THEN [name_table EXCEPT ![n] = first[o]] ELSE name_table
        /\ pc' = [pc EXCEPT ![t] = "answer"]
        /\ UNCHANGED <<object, handle_ref_count, first, slot, meant, ref, arg, kept, stale>>
    BY <1>10 DEF SetAttributes, Goto
  <2>3. Opened'
    BY <2>2 DEF Opened, Users
  <2>4. Kept'
    BY <2>1, <2>2 DEF Kept
  <2>5. Named'
    <3>1. UNCHANGED <<object, first, stale>>
      BY <2>2
    <3>. SUFFICES ASSUME NEW m \in Names \ stale, name_table'[m] # None
                  PROVE  /\ object[name_table'[m]] # None
                         /\ name'[object[name_table'[m]]] = m
                         /\ first[object[name_table'[m]]] = name_table'[m]
      BY <3>1 DEF Named
    <3>2. CASE m = n /\ name_table[n] = None
      <4>1. name'[o] = n
        BY <2>1, <2>2 DEF TypeOK, ObjectTypes
      <4>2. name_table'[m] = first[o]
        BY <3>2, <2>1, <2>2 DEF TypeOK, TableTypes
      <4>. QED
        BY <3>2, <4>1, <4>2, <2>1, ObjectTableAssumption
    <3>3. CASE ~(m = n /\ name_table[n] = None)
      <4>1. name_table'[m] = name_table[m] /\ name_table[m] # None
        BY <3>3, <2>1, <2>2 DEF TypeOK
      <4>2. /\ object[name_table[m]] # None /\ name[object[name_table[m]]] = m
            /\ first[object[name_table[m]]] = name_table[m]
        BY <4>1 DEF Named
      <4>3. object[name_table[m]] # o
        BY <4>2, <2>1 DEF ObjectTableAssumption
      <4>. QED
        BY <4>1, <4>2, <4>3, <2>2 DEF TypeOK
    <3>. QED
      BY <3>2, <3>3
  <2>. QED
    BY <2>2, <2>3, <2>4, <2>5 DEF SlotsAreKept
<1>11. ASSUME NEW t \in Threads, Answer(t) PROVE InOrder'
  <2>. DEFINE o == ref[t]
              v == into[t]
              k == first[o]
  <2>1. /\ pc[t] = "answer" /\ o \in Objects /\ v \in Vars /\ k \in Handles /\ slot[v] = None
        /\ object[k] = o /\ kept[t] = k /\ handles[o] # {}
    BY <1>11, FirstOfRef DEF Answer, Control, Holding, Asking, Living, Listed, Kept, TypeOK,
       CallTypes
  <2>2. /\ slot' = [slot EXCEPT ![v] = k] /\ meant' = [meant EXCEPT ![v] = o]
        /\ kept' = [kept EXCEPT ![t] = None] /\ pc' = [pc EXCEPT ![t] = "drop"]
        /\ UNCHANGED <<object, handle_ref_count, name_table, first, name, ref, arg, stale>>
    BY <1>11, <2>1 DEF Answer, Goto
  <2>3. Opened'
    <3>. SUFFICES ASSUME NEW h \in Handles, object[h] # None
                  PROVE  handle_ref_count[h] >= Cardinality(Users(h)')
      BY <2>2 DEF Opened
    <3>1. /\ handle_ref_count[h] >= Cardinality(Users(h)) /\ handle_ref_count[h] \in Int
          /\ Cardinality(Users(h)) \in Nat
      BY FiniteUsers, Counting DEF Opened, TypeOK, TableTypes
    <3>2. CASE h = k
      <4>1. t \in Users(h) /\ Users(h)' \subseteq (Users(h) \ {t}) \cup {v}
        BY <3>2, <2>1, <2>2 DEF Users, TypeOK, CallTypes
      <4>2. /\ IsFiniteSet(Users(h) \ {t})
            /\ Cardinality(Users(h) \ {t}) = Cardinality(Users(h)) - 1
        BY <4>1, FiniteUsers, FS_RemoveElement
      <4>3. /\ Cardinality(Users(h)') \in Nat
            /\ Cardinality(Users(h)') <= Cardinality(Users(h) \ {t}) + 1
        BY <4>1, <4>2, Counting
      <4>. QED
        BY <4>2, <4>3, <3>1
    <3>3. CASE h # k
      <4>1. Users(h)' \subseteq Users(h)
        BY <3>3, <2>1, <2>2 DEF Users
      <4>2. Cardinality(Users(h)') \in Nat /\ Cardinality(Users(h)') <= Cardinality(Users(h))
        BY <4>1, FiniteUsers, Counting
      <4>. QED
        BY <4>2, <3>1
    <3>. QED
      BY <3>2, <3>3
  <2>4. Kept'
    BY <2>1, <2>2 DEF Kept, TypeOK, CallTypes
  <2>5. SlotsAreKept'
    BY <2>1, <2>2 DEF SlotsAreKept, TypeOK, GuestTypes
  <2>. QED
    BY <2>2, <2>3, <2>4, <2>5 DEF Named
<1>12. ASSUME NEW t \in Threads, Drop(t) PROVE InOrder'
  <2>1. Kept'
    BY <1>12 DEF Drop, Takes, Goto, Kept
  <2>. QED
    BY <1>12, <2>1, CallOnly DEF Drop
<1>13. ASSUME NEW t \in Threads, NEW n \in Names, NEW v \in Vars, OpenByName(t, n, v)
       PROVE  InOrder'
  <2>a. n \notin stale
    BY <1>13 DEF OpenByName
  <2>b. name_table[n] \in Handles /\ slot[v] = None
    BY <1>13 DEF OpenByName, Free, TypeOK, TableTypes
  <2>1. PICK k \in Handles : k = name_table[n] /\ object[k] # None /\ first[object[k]] = k
    BY <2>a, <2>b, <1>13 DEF OpenByName, Named
  <2>2. /\ RetainHandle(k) /\ UNCHANGED <<object, name_table, first, kept, name, ref, arg, pc, stale>>
        /\ slot' = [slot EXCEPT ![v] = k] /\ meant' = [meant EXCEPT ![v] = object[k]]
    BY <1>13, <2>1 DEF OpenByName, GetObjectByName
  <2>3. Opened'
    <3>1. /\ Users(k)' \subseteq Users(k) \cup {v}
          /\ \A h \in Handles : h # k => Users(h)' \subseteq Users(h)
      BY <2>b, <2>1, <2>2 DEF Users
    <3>. QED
      BY <3>1, <2>1, <2>2, OneMoreUser
  <2>4. Kept'
    BY <2>2 DEF Kept
  <2>5. SlotsAreKept'
    BY <2>1, <2>2 DEF SlotsAreKept, TypeOK, GuestTypes
  <2>. QED
    BY <2>2, <2>3, <2>4, <2>5 DEF Named
<1>14. ASSUME NEW t \in Threads, NEW v \in Vars, NEW w \in Vars, NEW close \in BOOLEAN,
              BeginDuplicate(t, v, w, close)
       PROVE  InOrder'
  <2>1. Kept'
    BY <1>14 DEF BeginDuplicate, Goto, Kept, TypeOK, CallTypes
  <2>. QED
    BY <1>14, <2>1, CallOnly DEF BeginDuplicate
<1>15. ASSUME NEW t \in Threads, DuplicateNone(t) PROVE InOrder'
  <2>1. Kept'
    BY <1>15 DEF DuplicateNone, Goto, Kept
  <2>. QED
    BY <1>15, <2>1, CallOnly DEF DuplicateNone
<1>16. ASSUME NEW t \in Threads, LookUp(t) PROVE InOrder'
  <2>1. Kept'
    BY <1>16 DEF LookUp, Takes, Goto, Kept
  <2>. QED
    BY <1>16, <2>1, CallOnly DEF LookUp
<1>17. ASSUME NEW t \in Threads, NEW h \in Handles, Duplicate(t, h) PROVE InOrder'
  <2>. DEFINE o == ref[t]
              v == into[t]
  <2>1. /\ AddHandle(o, h) /\ o \in Objects /\ v \in Vars /\ object[h] = None /\ slot[v] = None
        /\ object' = [object EXCEPT ![h] = o]
        /\ first' = [first EXCEPT ![o] = IF handles[o] = {} THEN h ELSE @]
        /\ slot' = [slot EXCEPT ![v] = h] /\ meant' = [meant EXCEPT ![v] = o]
        /\ pc' = [pc EXCEPT ![t] = "drop"] /\ pc[t] = "add"
        /\ UNCHANGED <<name_table, kept, name, ref, arg, stale>>
    BY <1>17 DEF Duplicate, AddHandle, Goto, Control, Holding, Asking, TypeOK, CallTypes
  <2>2. \A g \in Handles : object[g] # None => object'[g] = object[g] /\ first'[object[g]] = first[object[g]]
    BY <2>1 DEF Living, Listed
  <2>3. Opened'
    <3>1. /\ Users(h)' \subseteq Users(h) \cup {v}
          /\ \A g \in Handles : g # h => Users(g)' \subseteq Users(g)
      BY <2>1 DEF Users
    <3>. QED
      BY <3>1, <2>1, FirstUser
  <2>4. Kept'
    <3>1. \A u \in Threads : ref[u] # None => first[ref[u]] \in Handles
      BY FirstOfRef
    <3>. QED
      BY <2>1, <2>2, <3>1 DEF Kept, Control, Holding
  <2>5. SlotsAreKept'
    BY <2>1 DEF SlotsAreKept, TypeOK, TableTypes, GuestTypes
  <2>6. Named'
    BY <2>1, <2>2 DEF Named, TypeOK, TableTypes
  <2>. QED
    BY <2>3, <2>4, <2>5, <2>6
<1>18. ASSUME NEW t \in Threads, CloseSource(t) PROVE InOrder'
  <2>1. /\ pc[t] = "close" /\ source[t] \in Vars /\ slot[source[t]] = arg[t] /\ arg[t] \in Handles
        /\ object[arg[t]] # None /\ arg[t] # None
    BY <1>18 DEF CloseSource, Control, SlotsAreKept, TypeOK, CallTypes
  <2>2. RemoveHandle(arg[t], FALSE) /\ handle_ref_count[arg[t]] = 1
    BY <1>18, <2>1 DEF CloseSource, RemoveHandle
  <2>. QED
    BY <1>18, <2>1, <2>2, SlotRemoved DEF CloseSource, Goto, TypeOK, CallTypes
<1>19. ASSUME NEW t \in Threads, NEW v \in Vars, BeginUse(t, v) PROVE InOrder'
  <2>1. Kept'
    BY <1>19 DEF BeginUse, Goto, Kept
  <2>. QED
    BY <1>19, <2>1, CallOnly DEF BeginUse
<1>20. ASSUME NEW t \in Threads, UseNone(t) PROVE InOrder'
  <2>1. Kept'
    BY <1>20 DEF UseNone, Goto, Kept
  <2>. QED
    BY <1>20, <2>1, CallOnly DEF UseNone
<1>21. ASSUME NEW t \in Threads, NEW v \in Vars, Close(t, v) PROVE InOrder'
  <2>1. PICK k \in Handles : k = slot[v] /\ k # None /\ object[k] # None
    BY <1>21 DEF Close, SlotsAreKept, TypeOK, GuestTypes
  <2>2. /\ slot' = [slot EXCEPT ![v] = None] /\ meant' = [meant EXCEPT ![v] = None]
        /\ UNCHANGED <<ref, arg, kept, name, pc>>
    BY <1>21 DEF Close
  <2>3. CASE handle_ref_count[k] = 1
    <3>1. RemoveHandle(k, FALSE)
      BY <1>21, <2>1, <2>3 DEF Close, ReleaseHandle
    <3>. QED
      BY <3>1, <2>1, <2>2, <2>3, SlotRemoved
  <2>4. CASE handle_ref_count[k] # 1
    <3>1. /\ handle_ref_count' = [handle_ref_count EXCEPT ![k] = @ - 1]
          /\ UNCHANGED <<object, name_table, first, stale>>
      BY <1>21, <2>1, <2>4 DEF Close, ReleaseHandle
    <3>2. Opened'
      <4>1. /\ v \in Users(k) /\ Users(k)' \subseteq Users(k) \ {v}
            /\ \A h \in Handles : h # k => Users(h)' \subseteq Users(h)
        BY <2>1, <2>2 DEF Users, TypeOK, GuestTypes
      <4>. QED
        BY <4>1, <2>1, <3>1, OneUserLess
    <3>3. Kept'
      BY <3>1, <2>2 DEF Kept
    <3>4. SlotsAreKept'
      BY <3>1, <2>2 DEF SlotsAreKept, TypeOK, GuestTypes
    <3>. QED
      BY <3>1, <3>2, <3>3, <3>4, <2>2 DEF Named
  <2>. QED
    BY <2>3, <2>4
<1>22. ASSUME Purge PROVE InOrder'
  <2>1. /\ object' = [h \in Handles |-> None] /\ slot' = [w \in Vars |-> None]
        /\ kept' = [u \in Threads |-> None]
        /\ \A u \in Threads : pc'[u] \in {"idle", "parked"}
        /\ stale' = {m \in Names : name_table[m] # None} /\ name_table' = name_table
    BY <1>22 DEF Purge
  <2>. QED
    BY <2>1 DEF Opened, Kept, SlotsAreKept, Named
<1>23. CASE UNCHANGED vars
  BY <1>23, CallOnly DEF Kept
<1>. QED
  BY <1>1, <1>2, <1>3, <1>4, <1>5, <1>6, <1>7, <1>8, <1>9, <1>10, <1>11, <1>12, <1>13, <1>14,
     <1>15, <1>16, <1>17, <1>18, <1>19, <1>20, <1>21, <1>22, <1>23 DEF Next, Creates, Opens,
     Duplicates, Uses

\* Nothing takes back what happened.
LEMMA RacedStays == ASSUME [Next]_vars, ~raced' PROVE ~raced
<1>1. ASSUME NEW t \in Threads, NEW ty \in Types, NEW n \in Names \cup {None}, NEW v \in Vars,
             BeginCreate(t, ty, n, v)
      PROVE  ~raced
  BY <1>1 DEF BeginCreate
<1>2. ASSUME NEW t \in Threads, FindNone(t) PROVE ~raced
  BY <1>2 DEF FindNone
<1>3. ASSUME NEW t \in Threads, Find(t) PROVE ~raced
  BY <1>3 DEF Find
<1>4. ASSUME NEW t \in Threads, LookNone(t) PROVE ~raced
  BY <1>4 DEF LookNone
<1>5. ASSUME NEW t \in Threads, Look(t) PROVE ~raced
  BY <1>5 DEF Look
<1>6. ASSUME NEW t \in Threads, ReadFirst(t) PROVE ~raced
  BY <1>6 DEF ReadFirst
<1>7. ASSUME NEW t \in Threads, Unkeep(t) PROVE ~raced
  BY <1>7 DEF Unkeep, ReleaseHandle, RemoveHandle
<1>8. ASSUME NEW t \in Threads, Rekeep(t) PROVE ~raced
  BY <1>8 DEF Rekeep
<1>9. ASSUME NEW t \in Threads, NEW o \in Objects, NEW h \in Handles, Make(t, o, h) PROVE ~raced
  BY <1>9 DEF Make
<1>10. ASSUME NEW t \in Threads, SetAttributes(t) PROVE ~raced
  BY <1>10 DEF SetAttributes
<1>11. ASSUME NEW t \in Threads, Answer(t) PROVE ~raced
  BY <1>11 DEF Answer
<1>12. ASSUME NEW t \in Threads, Drop(t) PROVE ~raced
  BY <1>12 DEF Drop
<1>13. ASSUME NEW t \in Threads, NEW n \in Names, NEW v \in Vars, OpenByName(t, n, v) PROVE ~raced
  BY <1>13 DEF OpenByName
<1>14. ASSUME NEW t \in Threads, NEW v \in Vars, NEW w \in Vars, NEW close \in BOOLEAN,
              BeginDuplicate(t, v, w, close)
       PROVE  ~raced
  BY <1>14 DEF BeginDuplicate
<1>15. ASSUME NEW t \in Threads, DuplicateNone(t) PROVE ~raced
  BY <1>15 DEF DuplicateNone
<1>16. ASSUME NEW t \in Threads, LookUp(t) PROVE ~raced
  BY <1>16 DEF LookUp
<1>17. ASSUME NEW t \in Threads, NEW h \in Handles, Duplicate(t, h) PROVE ~raced
  BY <1>17 DEF Duplicate
<1>18. ASSUME NEW t \in Threads, CloseSource(t) PROVE ~raced
  BY <1>18 DEF CloseSource, RemoveHandle
<1>19. ASSUME NEW t \in Threads, NEW v \in Vars, BeginUse(t, v) PROVE ~raced
  BY <1>19 DEF BeginUse
<1>20. ASSUME NEW t \in Threads, UseNone(t) PROVE ~raced
  BY <1>20 DEF UseNone
<1>21. ASSUME NEW t \in Threads, NEW v \in Vars, Close(t, v) PROVE ~raced
  BY <1>21 DEF Close, ReleaseHandle, RemoveHandle
<1>22. ASSUME Purge PROVE ~raced
  BY <1>22 DEF Purge
<1>23. CASE UNCHANGED vars
  BY <1>23
<1>. QED
  BY <1>1, <1>2, <1>3, <1>4, <1>5, <1>6, <1>7, <1>8, <1>9, <1>10, <1>11, <1>12, <1>13, <1>14,
     <1>15, <1>16, <1>17, <1>18, <1>19, <1>20, <1>21, <1>22, <1>23 DEF Next, Creates, Opens,
     Duplicates, Uses

-----------------------------------------------------------------------------

\* The inductive invariant.
THEOREM Invariance == Spec => []Inv
<1>1. Init => Inv
  <2>. SUFFICES ASSUME Init PROVE Inv
    OBVIOUS
  <2>1. TypeOK
    <3>1. TableTypes /\ ObjectTypes
      BY DEF Init, TableTypes, ObjectTypes
    <3>2. CallTypes
      BY DEF Init, CallTypes
    <3>3. GuestTypes
      BY DEF Init, GuestTypes
    <3>. QED
      BY <3>1, <3>2, <3>3 DEF TypeOK
  <2>2. Control /\ OneWriter
    BY DEF Init, Control, OneWriter, Holding, Asking, Closing
  <2>3. Living
    <3>1. \A o \in Objects : References(o) = {} /\ handles[o] = {} /\ pointer_ref_count[o] = 0 /\ status[o] = "new"
      BY ObjectTableAssumption DEF Init, References
    <3>2. \A o \in Objects : Alive(o)
      BY <3>1, FS_EmptySet DEF Alive
    <3>3. \A o \in Objects : Listed(o)
      BY <3>1, ObjectTableAssumption DEF Init, Listed
    <3>. QED
      BY <3>2, <3>3 DEF Init, Living, Firsts, Unnamed
  <2>4. InOrder
    BY DEF Init, InOrder, Opened, Kept, SlotsAreKept, Named
  <2>. QED
    BY <2>1, <2>2, <2>3, <2>4 DEF Inv, Safe
<1>2. Inv /\ [Next]_vars => Inv'
  <2>. SUFFICES ASSUME Inv, [Next]_vars PROVE Inv'
    OBVIOUS
  <2>1. TypeOK' /\ Control' /\ OneWriter'
    BY ObjectTableAssumption, TypesStep, ControlStep, OneWriterStep DEF Inv
  <2>2. Living'
    BY ObjectTableAssumption, AliveStep, FirstsStep, UnnamedStep DEF Inv, Living
  <2>3. Safe'
    <3>. SUFFICES ASSUME ~raced' PROVE InOrder'
      BY DEF Safe
    <3>1. ~raced
      BY RacedStays
    <3>. QED
      BY <3>1, ObjectTableAssumption, InOrderStep
  <2>. QED
    BY <2>1, <2>2, <2>3 DEF Inv
<1>. QED
  BY <1>1, <1>2, PTL DEF Spec

\* The last Release deletes an object, and only it does, whatever calls are cut short
\* and however lookups, closings and the end of a title follow on each other.
THEOREM ObjectsLiveWhileReferenced == Spec => []AliveWhileReferenced
<1>1. Inv => AliveWhileReferenced
  BY DEF Inv, Living, Alive, Listed, AliveWhileReferenced
<1>. QED
  BY <1>1, Invariance, PTL

\* A handle leads to its object until the guest closes it.
THEOREM OpenHandlesAreKept == Spec => []OpenHandleIsKept
<1>1. Inv => OpenHandleIsKept
  BY DEF Inv, Safe, InOrder, SlotsAreKept, OpenHandleIsKept
<1>. QED
  BY <1>1, Invariance, PTL

\* A name leads to an open handle of an object of that name.
THEOREM NamesAreOfTheirObjects == Spec => []NameIsOfItsObject
<1>1. Inv => NameIsOfItsObject
  BY DEF Inv, Safe, InOrder, Named, NameIsOfItsObject
<1>. QED
  BY <1>1, Invariance, PTL

-----------------------------------------------------------------------------

\* The life of object o.
Life(o) == INSTANCE ObjectLife WITH status <- status[o], references <- References(o)

\* An object is new, then live, then deleted.
Onward ==
  \A o \in Objects : /\ status[o] = "new" => status'[o] # "deleted"
                     /\ status[o] = "live" => status'[o] # "new"
                     /\ status[o] = "deleted" => status'[o] = "deleted"

\* A release deletes, if anything, an object that had a reference.
LEMMA ReleaseIsOnward ==
  ASSUME TypeOK, Living, NEW o \in Objects, Release(o)
  PROVE  Onward
<1>1. References(o) = {} => pointer_ref_count[o] = 0
  BY FS_EmptySet DEF Living, Alive
<1>2. status[o] = "new" => pointer_ref_count[o] # 1
  BY <1>1 DEF Living, Alive
<1>3. status' = status \/ (status' = [status EXCEPT ![o] = "deleted"] /\ pointer_ref_count[o] = 1)
  BY DEF Release
<1>. QED
  BY <1>2, <1>3 DEF Onward, TypeOK, ObjectTypes

LEMMA RemovalIsOnward ==
  ASSUME TypeOK, Living, NEW h \in Handles, object[h] # None, NEW shared, RemoveHandle(h, shared)
  PROVE  Onward
<1>1. object[h] \in Objects
  BY DEF TypeOK, TableTypes
<1>2. Release(object[h])
  BY DEF RemoveHandle
<1>. QED
  BY <1>1, <1>2, ReleaseIsOnward

LEMMA PurgeIsOnward == ASSUME TypeOK, Living, Purge PROVE Onward
<1>1. \A o \in Objects : handles[o] # {} => References(o) # {}
  BY DEF Living, Listed, References
<1>2. \A o \in Objects : status'[o] # status[o] => handles[o] # {} /\ status'[o] = "deleted"
  BY DEF Purge, TypeOK, ObjectTypes
<1>. QED
  BY <1>1, <1>2 DEF Onward, Living, Alive, TypeOK, ObjectTypes

LEMMA OnwardStep == ASSUME TypeOK, Control, Living, [Next]_vars PROVE Onward
<1>1. ASSUME status' = status PROVE Onward
  BY <1>1 DEF Onward
<1>2. ASSUME NEW t \in Threads, NEW o \in Objects, NEW h \in Handles, Make(t, o, h) PROVE Onward
  BY <1>2 DEF Make, Onward, TypeOK, ObjectTypes
<1>3. ASSUME NEW t \in Threads, Drop(t) PROVE Onward
  <2>1. ref[t] \in Objects
    BY <1>3 DEF Drop, Control, Holding, TypeOK, CallTypes
  <2>. QED
    BY <1>3, <2>1, ReleaseIsOnward DEF Drop
<1>4. ASSUME NEW h, ReleaseHandle(h), h \in Handles PROVE Onward
  BY <1>1, <1>4, RemovalIsOnward DEF ReleaseHandle
<1>5. ASSUME NEW t \in Threads, Unkeep(t) PROVE Onward
  <2>1. arg[t] \in Handles
    BY <1>5 DEF Unkeep, Control, TypeOK, CallTypes
  <2>. QED
    BY <1>4, <1>5, <2>1 DEF Unkeep
<1>6. ASSUME NEW t \in Threads, NEW v \in Vars, Close(t, v) PROVE Onward
  <2>1. slot[v] \in Handles
    BY <1>6 DEF Close, TypeOK, GuestTypes
  <2>. QED
    BY <1>4, <1>6, <2>1 DEF Close
<1>7. ASSUME NEW t \in Threads, CloseSource(t) PROVE Onward
  <2>1. arg[t] \in Handles
    BY <1>7 DEF CloseSource, Control, TypeOK, CallTypes
  <2>. QED
    BY <1>1, <1>7, <2>1, RemovalIsOnward DEF CloseSource
<1>8. ASSUME NEW t \in Threads, \E h \in Handles : Duplicate(t, h) PROVE status' = status
  BY <1>8 DEF Duplicate, Retain
<1>9. ASSUME NEW t \in Threads, Look(t) \/ LookUp(t) PROVE status' = status
  BY <1>9 DEF Look, LookUp, Retain
<1>10. ASSUME NEW t \in Threads,
              \/ \E ty \in Types, n \in Names \cup {None}, v \in Vars : BeginCreate(t, ty, n, v)
              \/ FindNone(t) \/ Find(t) \/ LookNone(t) \/ ReadFirst(t)
              \/ Rekeep(t) \/ SetAttributes(t) \/ Answer(t)
       PROVE  status' = status
  BY <1>10 DEF BeginCreate, FindNone, Find, LookNone, ReadFirst, Rekeep, SetAttributes, Answer
<1>11. ASSUME NEW t \in Threads,
              \/ Opens(t)
              \/ \E v, w \in Vars, close \in BOOLEAN : BeginDuplicate(t, v, w, close)
              \/ DuplicateNone(t) \/ UseNone(t) \/ \E v \in Vars : BeginUse(t, v)
       PROVE  status' = status
  BY <1>11 DEF Opens, OpenByName, BeginDuplicate, DuplicateNone, UseNone, BeginUse
<1>12. ASSUME Purge PROVE Onward
  BY <1>12, PurgeIsOnward
<1>13. ASSUME UNCHANGED vars PROVE status' = status
  BY <1>13
<1>. QED
  BY <1>1, <1>2, <1>3, <1>5, <1>6, <1>7, <1>8, <1>9, <1>10, <1>11, <1>12, <1>13
     DEF Next, Creates, Duplicates, Uses

\* Every object has the life that a reference relies on: no call, in whatever order it
\* meets others and the end of the title, reaches an object that was deleted, deletes
\* one that something leads to, or leaves one alive that nothing leads to.
THEOREM ImplementsObjectLife == ASSUME NEW o \in Objects PROVE Spec => Life(o)!Spec
<1>1. Init => Life(o)!Init
  BY ObjectTableAssumption DEF Init, References, Life!Init
<1>2. Inv /\ Inv' /\ [Next]_vars => [Life(o)!Next]_(Life(o)!lifeVars)
  <2>. SUFFICES ASSUME Inv, Inv', [Next]_vars, ~UNCHANGED <<status[o], References(o)>>
                PROVE  Life(o)!Next
    BY DEF Life!lifeVars
  <2>1. Onward
    BY OnwardStep DEF Inv
  <2>2. /\ References(o) # {} <=> status[o] = "live"
        /\ References(o)' # {} <=> status'[o] = "live"
    BY DEF Inv, Living, Alive
  <2>3. status[o] \in {"new", "live", "deleted"} /\ status'[o] \in {"new", "live", "deleted"}
    BY DEF Inv, TypeOK, ObjectTypes
  <2>4. \/ status[o] = "new" /\ status'[o] = "live"
        \/ status[o] = "live" /\ status'[o] = "live"
        \/ status[o] = "live" /\ status'[o] = "deleted"
    <3>1. status[o] # "live" /\ status'[o] # "live" => UNCHANGED References(o)
      BY <2>2
    <3>. QED
      BY <2>1, <2>3, <3>1 DEF Onward
  <2>. QED
    BY <2>2, <2>4 DEF Life!Next, Life!Make, Life!Refer, Life!Delete
<1>. QED
  BY Invariance, <1>1, <1>2, PTL DEF Spec, Life!Spec

=============================================================================
