---------------------------- MODULE SharedMemory ----------------------------
(***************************************************************************)
(* The GPU's copy of the guest's physical memory (gpu/shared_memory.cc).   *)
(* A page of it is valid when it need not be uploaded, and it is GPU        *)
(* written when the GPU has stored there what the guest's memory may not   *)
(* have.  The bits change under the global critical region, and the        *)
(* callback of the heaps' watches clears them.  The pages are those of one *)
(* 64-page block, to which the callback confines itself.                   *)
(***************************************************************************)
EXTENDS PhysicalHeap

VARIABLES
  valid,      \* system_page_flags_valid_
  written     \* system_page_flags_valid_and_gpu_written_

sharedVars == <<valid, written>>

SharedTypeOK == valid \subseteq Pages /\ written \subseteq Pages

SharedInit == valid = {} /\ written = {}

\* MakeRangeValid, up to where it leaves the lock.
MarkValid(S, byGpu) ==
  /\ valid' = valid \cup S
  /\ written' = IF byGpu THEN written \cup S ELSE written \ S

\* What RequestRange finds to upload.
Missing(S) == S \ valid

\* What ForEachGpuWrittenRange hands out.
GpuWritten(S) == S \cap written \cap valid

Between(p, r, q) == (p <= r /\ r <= q) \/ (q <= r /\ r <= p)

\* A mutant: the range goes one page too far on each side.
WidenedTooFar(p) ==
  {q \in Pages : \A r \in Pages \ {p, q} : Between(p, r, q) => r \notin written}

\* A store to page p costs a fault, so the callback gives up a wider range
\* around it, as far as no page that the GPU has written is in the way.
Widened(p) ==
  {q \in Pages : \A r \in Pages \ {p} : Between(p, r, q) => r \notin written}

\* MemoryInvalidationCallback for the pages S.
Invalidate(S) == valid' = valid \ S /\ written' = written \ S

\* A mutant: only the page itself is given up, but the range is unwatched.
TriggerForOnePage(v, p) == Invalidate({p}) /\ Unwatch(v, Widened(p))

\* PhysicalHeap::TriggerCallbacks for a store to a watched place: the range
\* that the callback gives up is no longer valid, and no longer watched
\* through this window.  The other windows stay watched.
TriggerCallbacks(v, p) == Invalidate(Widened(p)) /\ Unwatch(v, Widened(p))

=============================================================================
