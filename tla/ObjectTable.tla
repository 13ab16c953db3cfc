---------------------------- MODULE ObjectTable ----------------------------
(***************************************************************************)
(* The guest's handles: kernel/util/object_table.cc, the reference counts  *)
(* of kernel/xobject.cc, and the calls that make, open, duplicate, use and *)
(* close handles (NtCreateEvent and its likes, ObOpenObjectByName,         *)
(* NtDuplicateObject, NtSetEvent and its likes, NtClose), from any number  *)
(* of guest threads; and the end of a title.                               *)
(*                                                                         *)
(* A step is what is done under the global critical region at once, or a   *)
(* read of an object's handles_ without it.  The guest keeps its handles   *)
(* in variables, each of which it closes once.                             *)
(***************************************************************************)
EXTENDS Integers, FiniteSets

CONSTANTS
  Threads,    \* guest threads
  Objects,    \* the XObjects that are ever made
  Handles,    \* the values a handle can have: one for each slot of table_
  Vars,       \* where the guest keeps handles
  Names,      \* object names
  Types,      \* XObject::Type
  None,       \* no handle (0), no object, no name
  MaxCalls,   \* bound: the calls that ask for a handle
  MaxTitles   \* bound: the titles played

ASSUME ObjectTableAssumption ==
  /\ IsFiniteSet(Threads) /\ IsFiniteSet(Handles) /\ IsFiniteSet(Vars)
  /\ Vars \cap Threads = {} /\ Handles \cap Threads = {}
  /\ None \notin Objects \cup Handles \cup Vars \cup Names \cup Types
  /\ MaxCalls \in Nat /\ MaxTitles \in Nat

VARIABLES
  object,             \* table_: the object behind each handle
  handle_ref_count,   \* table_: how often the handle was opened and not closed
  name_table,         \* name_table_: the handle a name was given to
  status,             \* of each object: "new", "live" or "deleted"
  type, name,         \* type_ and name_ of each object
  handles,            \* handles_ of each object
  first,              \* what handles_[0] reads, also when handles_ is empty
  pointer_ref_count,  \* pointer_ref_count_ of each object
  slot,               \* the handle in each of the guest's variables
  meant,              \* history: the object it was given for
  pc,                 \* where each thread stands in its call
  ref,                \* the object_ref it has
  arg,                \* the handle it works on
  kept,               \* the handle that was retained for it
  wantType, wantName, \* what it wants to create
  into,               \* the variable its handle goes to
  source,             \* the variable it closes in the end
  calls, titles,
  stale,              \* history: the names left over from an earlier title
  raced               \* history: one of the events under which handles are confused

table   == <<object, handle_ref_count, name_table, handles, first>>
objects == <<status, type, name, pointer_ref_count>>
guest   == <<slot, meant>>
history == <<calls, titles, stale, raced>>
locals  == <<ref, arg, kept, wantType, wantName, into, source>>
vars    == <<table, objects, guest, pc, locals, history>>

Init ==
  /\ object = [h \in Handles |-> None] /\ handle_ref_count = [h \in Handles |-> 0]
  /\ name_table = [n \in Names |-> None]
  /\ status = [o \in Objects |-> "new"] /\ type = [o \in Objects |-> None]
  /\ name = [o \in Objects |-> None]
  /\ handles = [o \in Objects |-> {}] /\ first = [o \in Objects |-> None]
  /\ pointer_ref_count = [o \in Objects |-> 0]
  /\ slot = [v \in Vars |-> None] /\ meant = [v \in Vars |-> None]
  /\ pc = [t \in Threads |-> "idle"] /\ ref = [t \in Threads |-> None]
  /\ arg = [t \in Threads |-> None] /\ kept = [t \in Threads |-> None]
  /\ wantType = [t \in Threads |-> None] /\ wantName = [t \in Threads |-> None]
  /\ into = [t \in Threads |-> None] /\ source = [t \in Threads |-> None]
  /\ calls = 0 /\ titles = 1 /\ stale = {} /\ raced = FALSE

Goto(t, label) == pc' = [pc EXCEPT ![t] = label]

\* A thread that is given an object's handle, which other threads may be closing.
Opening(t, o) == ref[t] = o /\ pc[t] \in {"unkeep", "release", "rekeep", "retain", "answer"}

-----------------------------------------------------------------------------
(* What the calls share.  Retain and Release are atomic counters; the last  *)
(* Release deletes the object.                                              *)

Retain(o)  == /\ pointer_ref_count' = [pointer_ref_count EXCEPT ![o] = @ + 1]
              /\ UNCHANGED status

Release(o) == /\ pointer_ref_count' = [pointer_ref_count EXCEPT ![o] = @ - 1]
              /\ status' = IF pointer_ref_count[o] = 1 THEN [status EXCEPT ![o] = "deleted"] ELSE status

\* FindFreeSlot finds any slot without an object.
AddHandle(o, h) ==
  /\ object[h] = None
  /\ object' = [object EXCEPT ![h] = o]
  /\ handle_ref_count' = [handle_ref_count EXCEPT ![h] = 1]
  /\ handles' = [handles EXCEPT ![o] = @ \cup {h}]
  /\ first' = [first EXCEPT ![o] = IF handles[o] = {} THEN h ELSE @]

\* Mutant of NamesWithout: the name stays.
NamesKept(o) == name_table

\* The name of an object goes with any one of its handles.
NamesWithout(o) == IF name[o] = None THEN name_table ELSE [name_table EXCEPT ![name[o]] = None]

\* The handle goes, whatever its count is (shared: it is open elsewhere).  Which
\* handle handles_[0] is next is left open; the storage of an empty vector still
\* holds the last one.
RemoveHandle(h, shared) ==
  LET o == object[h]
  IN  /\ object' = [object EXCEPT ![h] = None]
      /\ handle_ref_count' = [handle_ref_count EXCEPT ![h] = 0]
      /\ handles' = [handles EXCEPT ![o] = @ \ {h}]
      /\ \E f \in Handles :
           /\ f # first[o] => first[o] = h /\ f \in handles[o]
           /\ handles[o] # {h} => f # h
           /\ first' = [first EXCEPT ![o] = f]
      /\ name_table' = NamesWithout(o)
      /\ Release(o)
      /\ stale' = stale \ {name[o]}
      /\ raced' = (raced \/ shared \/ \E u \in Threads : Opening(u, o))

ReleaseHandle(h) ==
  \/ /\ handle_ref_count[h] = 1 /\ object[h] # None
     /\ RemoveHandle(h, FALSE)
  \/ /\ handle_ref_count[h] # 1 \/ object[h] = None
     /\ handle_ref_count' = [handle_ref_count EXCEPT ![h] = @ - 1]
     /\ UNCHANGED <<object, name_table, handles, first, status, pointer_ref_count, stale, raced>>

\* Mutant of RetainHandle: the handle is handed out without being retained.
RetainNoHandle(h) == UNCHANGED handle_ref_count

\* The entry is taken as it is: it may have no object by now.
RetainHandle(h) == handle_ref_count' = [handle_ref_count EXCEPT ![h] = @ + 1]

\* GetObjectByName, for a name that is in the table: what is retained is the
\* object's first handle.  A name left over by an earlier title finds whatever
\* now has the slot, or nothing, and is a success all the same.
GetObjectByName(n) ==
  LET o == object[name_table[n]]
  IN  IF o = None THEN UNCHANGED handle_ref_count ELSE RetainHandle(first[o])

Retained(n) == LET o == object[name_table[n]] IN IF o = None THEN None ELSE first[o]

-----------------------------------------------------------------------------
(* NtCreateEvent, NtCreateSemaphore, NtCreateMutant, NtCreateTimer.         *)

Free(v)       == slot[v] = None /\ \A t \in Threads : into[t] # v
MayCall(t)    == pc[t] = "idle" /\ calls < MaxCalls
Takes(t, obj) == ref' = [ref EXCEPT ![t] = obj]

BeginCreate(t, ty, n, v) ==
  /\ MayCall(t) /\ Free(v)
  /\ Goto(t, IF n = None THEN "make" ELSE "find")
  /\ wantType' = [wantType EXCEPT ![t] = ty] /\ wantName' = [wantName EXCEPT ![t] = n]
  /\ into' = [into EXCEPT ![t] = v]
  /\ calls' = calls + 1
  /\ UNCHANGED <<table, objects, guest, ref, arg, kept, source, titles, stale, raced>>

\* LookupNamedObject: the name is looked up ...
FindNone(t) ==
  /\ pc[t] = "find" /\ name_table[wantName[t]] = None
  /\ Goto(t, "make")
  /\ UNCHANGED <<table, objects, guest, locals, history>>

Find(t) ==
  LET n == wantName[t]
  IN  /\ pc[t] = "find" /\ name_table[n] # None
      /\ GetObjectByName(n)
      /\ arg' = [arg EXCEPT ![t] = name_table[n]] /\ kept' = [kept EXCEPT ![t] = Retained(n)]
      /\ Goto(t, "look")
      /\ raced' = (raced \/ n \in stale)
      /\ UNCHANGED <<object, name_table, handles, first, objects, guest,
                     ref, wantType, wantName, into, source, calls, titles, stale>>

\* ... then its handle; an object of another type is let go, its handle stays retained ...
LookNone(t) ==
  /\ pc[t] = "look" /\ object[arg[t]] = None
  /\ Goto(t, "make")
  /\ kept' = [kept EXCEPT ![t] = None]
  /\ UNCHANGED <<table, objects, guest, ref, arg, wantType, wantName, into, source, history>>

Look(t) ==
  LET o == object[arg[t]]
  IN  /\ pc[t] = "look" /\ o # None
      /\ Takes(t, o) /\ Retain(o)
      /\ Goto(t, IF type[o] = wantType[t] THEN "unkeep" ELSE "unwanted")
      /\ kept' = [kept EXCEPT ![t] = IF type[o] = wantType[t] THEN @ ELSE None]
      /\ UNCHANGED <<table, type, name, guest, arg, wantType, wantName, into, source, history>>

\* ... and the handle of one of the same type is released again, and retained once
\* more by the caller.  Each time the object's first handle is read anew.
ReadFirst(t) ==
  /\ pc[t] \in {"unkeep", "rekeep"}
  /\ arg' = [arg EXCEPT ![t] = first[ref[t]]]
  /\ Goto(t, IF pc[t] = "unkeep" THEN "release" ELSE "retain")
  /\ UNCHANGED <<table, objects, guest, ref, kept, wantType, wantName, into, source, history>>

Unkeep(t) ==
  /\ pc[t] = "release"
  /\ ReleaseHandle(arg[t])
  /\ kept' = [kept EXCEPT ![t] = None]
  /\ Goto(t, "rekeep")
  /\ UNCHANGED <<type, name, guest, ref, arg, wantType, wantName, into, source, calls, titles>>

Rekeep(t) ==
  /\ pc[t] = "retain"
  /\ RetainHandle(arg[t])
  /\ kept' = [kept EXCEPT ![t] = arg[t]]
  /\ Goto(t, "answer")
  /\ UNCHANGED <<object, name_table, handles, first, objects, guest, ref, arg,
                 wantType, wantName, into, source, history>>

\* A new object: one reference is the creator's, one the table's.
Make(t, o, h) ==
  /\ pc[t] = "make" /\ status[o] = "new"
  /\ AddHandle(o, h)
  /\ pointer_ref_count' = [pointer_ref_count EXCEPT ![o] = 2]
  /\ status' = [status EXCEPT ![o] = "live"] /\ type' = [type EXCEPT ![o] = wantType[t]]
  /\ Takes(t, o) /\ kept' = [kept EXCEPT ![t] = h]
  /\ Goto(t, IF wantName[t] = None THEN "answer" ELSE "attributes")
  /\ UNCHANGED <<name_table, name, guest, arg, wantType, wantName, into, source, history>>

\* SetAttributes: that the name may be taken is not looked at.
SetAttributes(t) ==
  LET n == wantName[t]
  IN  /\ pc[t] = "attributes"
      /\ name' = [name EXCEPT ![ref[t]] = n]
      /\ name_table' = IF name_table[n] = None THEN [name_table EXCEPT ![n] = first[ref[t]]]
                                               ELSE name_table
      /\ Goto(t, "answer")
      /\ UNCHANGED <<object, handle_ref_count, handles, first, status, type, pointer_ref_count,
                     guest, locals, history>>

\* handle() is 0 when the object has none.
Answer(t) ==
  LET o == ref[t]
      v == into[t]
  IN  /\ pc[t] = "answer"
      /\ slot' = [slot EXCEPT ![v] = IF handles[o] = {} THEN None ELSE first[o]]
      /\ meant' = [meant EXCEPT ![v] = o]
      /\ into' = [into EXCEPT ![t] = None] /\ kept' = [kept EXCEPT ![t] = None]
      /\ Goto(t, "drop")
      /\ UNCHANGED <<table, objects, ref, arg, wantType, wantName, source, history>>

\* The object_ref goes out of scope.
Drop(t) ==
  /\ pc[t] \in {"unwanted", "drop"}
  /\ Release(ref[t]) /\ Takes(t, None)
  /\ Goto(t, IF pc[t] = "unwanted" THEN "make" ELSE IF source[t] # None THEN "close" ELSE "idle")
  /\ UNCHANGED <<table, type, name, guest, arg, kept, wantType, wantName, into, source, history>>

(* ObOpenObjectByName. *)

OpenByName(t, n, v) ==
  /\ MayCall(t) /\ Free(v) /\ name_table[n] # None
  /\ GetObjectByName(n)
  /\ slot' = [slot EXCEPT ![v] = name_table[n]]
  /\ meant' = [meant EXCEPT ![v] = object[name_table[n]]]
  /\ calls' = calls + 1
  /\ raced' = (raced \/ n \in stale)
  /\ UNCHANGED <<object, name_table, handles, first, objects, pc, locals, titles, stale>>

(* NtDuplicateObject, of which the source may be closed in the end.         *)

BeginDuplicate(t, v, w, close) ==
  /\ MayCall(t) /\ Free(w) /\ slot[v] # None
  /\ \A u \in Threads : source[u] # v
  /\ arg' = [arg EXCEPT ![t] = slot[v]] /\ into' = [into EXCEPT ![t] = w]
  /\ source' = [source EXCEPT ![t] = IF close THEN v ELSE None]
  /\ Goto(t, "duplicate")
  /\ calls' = calls + 1
  /\ UNCHANGED <<table, objects, guest, ref, kept, wantType, wantName, titles, stale, raced>>

DuplicateNone(t) ==
  /\ pc[t] = "duplicate" /\ object[arg[t]] = None
  /\ Goto(t, IF source[t] # None THEN "close" ELSE "idle")
  /\ into' = [into EXCEPT ![t] = None]
  /\ UNCHANGED <<table, objects, guest, ref, arg, kept, wantType, wantName, source, history>>

\* Mutant of LookUp: the reference is counted after the lock is left, or not at all.
LookUpUncounted(t) ==
  LET o == object[arg[t]]
  IN  /\ pc[t] \in {"duplicate", "use"} /\ o # None
      /\ Takes(t, o)
      /\ Goto(t, IF pc[t] = "use" THEN "drop" ELSE "add")
      /\ UNCHANGED <<table, objects, guest, arg, kept, wantType, wantName, into, source, history>>

LookUp(t) ==
  LET o == object[arg[t]]
  IN  /\ pc[t] \in {"duplicate", "use"} /\ o # None
      /\ Takes(t, o) /\ Retain(o)
      /\ Goto(t, IF pc[t] = "use" THEN "drop" ELSE "add")
      /\ UNCHANGED <<table, type, name, guest, arg, kept, wantType, wantName, into, source, history>>

Duplicate(t, h) ==
  /\ pc[t] = "add"
  /\ AddHandle(ref[t], h) /\ Retain(ref[t])
  /\ slot' = [slot EXCEPT ![into[t]] = h] /\ meant' = [meant EXCEPT ![into[t]] = ref[t]]
  /\ into' = [into EXCEPT ![t] = None]
  /\ Goto(t, "drop")
  /\ UNCHANGED <<name_table, type, name, ref, arg, kept, wantType, wantName, source, history>>

\* The source is removed, also when it was opened more than once.
CloseSource(t) ==
  LET h == arg[t]
  IN  /\ pc[t] = "close"
      /\ \/ /\ object[h] # None
            /\ RemoveHandle(h, handle_ref_count[h] # 1)
         \/ /\ object[h] = None
            /\ UNCHANGED <<table, status, pointer_ref_count, stale, raced>>
      /\ slot' = [slot EXCEPT ![source[t]] = None] /\ meant' = [meant EXCEPT ![source[t]] = None]
      /\ source' = [source EXCEPT ![t] = None]
      /\ Goto(t, "idle")
      /\ UNCHANGED <<type, name, ref, arg, kept, wantType, wantName, into, calls, titles>>

(* NtSetEvent and all others that take a handle and use its object.         *)

BeginUse(t, v) ==
  /\ pc[t] = "idle" /\ slot[v] # None
  /\ arg' = [arg EXCEPT ![t] = slot[v]]
  /\ Goto(t, "use")
  /\ UNCHANGED <<table, objects, guest, ref, kept, wantType, wantName, into, source, history>>

UseNone(t) ==
  /\ pc[t] = "use" /\ object[arg[t]] = None
  /\ Goto(t, "idle")
  /\ UNCHANGED <<table, objects, guest, locals, history>>

(* NtClose. *)

Close(t, v) ==
  /\ pc[t] = "idle" /\ slot[v] # None /\ \A u \in Threads : source[u] # v
  /\ ReleaseHandle(slot[v])
  /\ slot' = [slot EXCEPT ![v] = None] /\ meant' = [meant EXCEPT ![v] = None]
  /\ UNCHANGED <<type, name, pc, locals, calls, titles>>

\* TerminateTitle and PurgeAllObjects: threads inside of a call are parked for ever
\* with what they hold, the table is emptied, the names stay.
Purge ==
  /\ titles < MaxTitles
  /\ titles' = titles + 1
  /\ object' = [h \in Handles |-> None] /\ handle_ref_count' = [h \in Handles |-> 0]
  /\ handles' = [o \in Objects |-> {}]
  /\ pointer_ref_count' = [o \in Objects |-> pointer_ref_count[o] - Cardinality(handles[o])]
  /\ status' = [o \in Objects |-> IF handles[o] # {} /\ pointer_ref_count'[o] = 0
                                  THEN "deleted" ELSE status[o]]
  /\ stale' = {n \in Names : name_table[n] # None}
  /\ slot' = [v \in Vars |-> None] /\ meant' = [v \in Vars |-> None]
  /\ pc' = [t \in Threads |-> IF pc[t] = "idle" THEN "idle" ELSE "parked"]
  /\ kept' = [t \in Threads |-> None]
  /\ into' = [t \in Threads |-> None] /\ source' = [t \in Threads |-> None]
  /\ UNCHANGED <<name_table, first, type, name, ref, arg, wantType, wantName, calls, raced>>

-----------------------------------------------------------------------------

Creates(t)    == \/ \E ty \in Types, n \in Names \cup {None}, v \in Vars : BeginCreate(t, ty, n, v)
                 \/ FindNone(t) \/ Find(t) \/ LookNone(t) \/ Look(t) \/ ReadFirst(t)
                 \/ Unkeep(t) \/ Rekeep(t) \/ SetAttributes(t) \/ Answer(t) \/ Drop(t)
                 \/ \E o \in Objects, h \in Handles : Make(t, o, h)
Opens(t)      == \E n \in Names, v \in Vars : OpenByName(t, n, v)
Duplicates(t) == \/ \E v, w \in Vars, close \in BOOLEAN : BeginDuplicate(t, v, w, close)
                 \/ DuplicateNone(t) \/ CloseSource(t)
                 \/ \E h \in Handles : Duplicate(t, h)
Uses(t)       == \/ \E v \in Vars : BeginUse(t, v) \/ Close(t, v)
                 \/ LookUp(t) \/ UseNone(t)

Next == \/ \E t \in Threads : Creates(t) \/ Opens(t) \/ Duplicates(t) \/ Uses(t)
        \/ Purge

Spec == Init /\ [][Next]_vars

-----------------------------------------------------------------------------

TableTypes ==
  /\ object \in [Handles -> Objects \cup {None}] /\ handle_ref_count \in [Handles -> Int]
  /\ name_table \in [Names -> Handles \cup {None}]
  /\ handles \in [Objects -> SUBSET Handles] /\ first \in [Objects -> Handles \cup {None}]

ObjectTypes ==
  /\ status \in [Objects -> {"new", "live", "deleted"}] /\ type \in [Objects -> Types \cup {None}]
  /\ name \in [Objects -> Names \cup {None}] /\ pointer_ref_count \in [Objects -> Int]

CallTypes ==
  /\ pc \in [Threads -> {"idle", "find", "look", "unwanted", "unkeep", "release", "rekeep",
                         "retain", "make", "attributes", "answer", "drop", "duplicate", "add",
                         "close", "use", "parked"}]
  /\ ref \in [Threads -> Objects \cup {None}] /\ arg \in [Threads -> Handles \cup {None}]
  /\ kept \in [Threads -> Handles \cup {None}]
  /\ wantType \in [Threads -> Types \cup {None}] /\ wantName \in [Threads -> Names \cup {None}]
  /\ into \in [Threads -> Vars \cup {None}] /\ source \in [Threads -> Vars \cup {None}]

GuestTypes ==
  /\ slot \in [Vars -> Handles \cup {None}] /\ meant \in [Vars -> Objects \cup {None}]
  /\ calls \in Nat /\ titles \in Nat /\ stale \subseteq Names /\ raced \in BOOLEAN

\* Ranges of the variables.
TypeOK == TableTypes /\ ObjectTypes /\ CallTypes /\ GuestTypes

References(o) == {h \in Handles : object[h] = o} \cup {t \in Threads : ref[t] = o}

\* An object lives exactly as long as a handle or an object_ref leads to it, in
\* whatever order lookups, closings and the end of a title come; and when it is
\* deleted its handles_ are empty, as the destructor asserts.
AliveWhileReferenced ==
  \A o \in Objects : /\ References(o) # {} <=> status[o] = "live"
                     /\ handles[o] = {h \in Handles : object[h] = o}

\* A handle that the guest has opened and not closed leads to the object it was
\* opened for, however often that was closed elsewhere.  (Not after an object lost a
\* handle while a thread was opening it by name, after a handle that was open more
\* than once was closed as the source of a duplicate, or once a name of an earlier
\* title was used.)
OpenHandleIsKept ==
  ~raced => \A v \in Vars : slot[v] # None => object[slot[v]] = meant[v] /\ meant[v] # None

\* A name of this title leads to an open handle of an object that has that name,
\* though it goes with any handle of any object of the name.
NameIsOfItsObject ==
  ~raced => \A n \in Names \ stale : name_table[n] # None =>
              LET o == object[name_table[n]] IN o # None /\ name[o] = n
=============================================================================
