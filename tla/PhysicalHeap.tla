---------------------------- MODULE PhysicalHeap ----------------------------
(***************************************************************************)
(* The guest reaches one physical memory through several windows: the      *)
(* heaps at 0xA0000000, 0xC0000000 and 0xE0000000.  Each window is a host   *)
(* mapping of its own, with its own page protection, and each of its heaps *)
(* (PhysicalHeap in memory.cc) keeps for every page whether the program    *)
(* wants to hear of the next store through it.  Every operation here runs  *)
(* under the global critical region; a guest's plain loads and stores take *)
(* no lock and see only the host's protection.                             *)
(*                                                                         *)
(* Pages are all committed, and readable and writable for the guest: the   *)
(* heaps' page tables, and the operations that change them, are left out.  *)
(***************************************************************************)
EXTENDS Integers

CONSTANTS
  LastPage,   \* the pages of the physical memory are 0 .. LastPage
  LastView    \* the windows are 1 .. LastView, in the order in which
              \* EnablePhysicalMemoryAccessCallbacks visits them

ASSUME HeapAssumption == LastPage \in Nat /\ LastView \in Nat \ {0}

Pages == 0 .. LastPage
Views == 1 .. LastView
Places == Views \X Pages     \* a page as seen through a window

VARIABLES
  notify,     \* the places with their notify_on_invalidation bit set
  host,       \* the host's protection: "none", "read" or "all"
  armed       \* resolve_read_watch_pages_: the places with a read watch

heapVars == <<notify, host, armed>>

Accesses == {"none", "read", "all"}

HeapTypeOK ==
  /\ notify \subseteq Places
  /\ host \in [Places -> Accesses]
  /\ armed \subseteq Places

HeapInit ==
  /\ notify = {}
  /\ host = [x \in Places |-> "all"]
  /\ armed = {}

\* A mutant: a range that is watched in part is taken for watched.
EnableUnlessWatched(v, S) ==
  LET fresh == IF ({v} \X S) \cap notify # {} THEN {} ELSE {v} \X S
  IN  /\ notify' = notify \cup fresh
      /\ host' = [x \in Places |-> IF x \in fresh THEN "read" ELSE host[x]]
      /\ UNCHANGED armed

\* From now on the first store to any page of S through window v faults.
\* A page that is watched already is left as it is, also when it is armed.
EnableAccessCallbacks(v, S) ==
  LET fresh == ({v} \X S) \ notify
  IN  /\ notify' = notify \cup fresh
      /\ host' = [x \in Places |-> IF x \in fresh THEN "read" ELSE host[x]]
      /\ UNCHANGED armed

\* A mutant: the other windows are forgotten.
ArmFirstWindow(S) ==
  /\ armed' = armed \cup ({1} \X S)
  /\ host' = [x \in Places |-> IF x \in {1} \X S THEN "none" ELSE host[x]]
  /\ UNCHANGED notify

\* From now on any access to a page of S, through any window, faults.
ArmResolveReadWatch(S) ==
  /\ armed' = armed \cup (Views \X S)
  /\ host' = [x \in Places |-> IF x[2] \in S THEN "none" ELSE host[x]]
  /\ UNCHANGED notify

\* The place can be read again, and written if no one wants to hear of it.
DisarmReadWatch(v, p) ==
  /\ host' = [host EXCEPT ![<<v, p>>] =
                IF <<v, p>> \in notify THEN "read" ELSE "all"]
  /\ UNCHANGED <<notify, armed>>

\* The end of TriggerCallbacks: the watched pages of S become writable
\* through window v, whatever else protects them, and lose their bit.
Unwatch(v, S) ==
  LET watched == ({v} \X S) \cap notify
  IN  /\ notify' = notify \ watched
      /\ host' = [x \in Places |-> IF x \in watched THEN "all" ELSE host[x]]
      /\ UNCHANGED armed

=============================================================================
