----------------------------- MODULE CodeEntry -----------------------------
(***************************************************************************)
(* The life of one entry of cpu/entry_table.h: what a caller that finds it *)
(* may rely on, whoever else calls, sweeps or ends the title.  Every entry *)
(* of CodeResolution is shown by proof to be one.                          *)
(***************************************************************************)
EXTENDS Naturals

VARIABLES status,       \* Entry::Status, and "none" where there is no entry
          function,     \* Entry::function
          translating   \* a thread that runs has its translation in hand

entryVars == <<status, function, translating>>

Init == status = "none" /\ function = 0 /\ ~translating

\* GetOrCreate finds none: the caller translates the function, and nobody else.
Create == /\ status = "none" /\ ~translating
          /\ status' = "compiling" /\ function' = 0 /\ translating' = TRUE

\* Only who translates it ends the spin of the others, one way or the other.
Publish == /\ status = "compiling" /\ translating
           /\ status' = "ready" /\ function' \in Nat /\ translating' = FALSE

Fail == /\ status = "compiling" /\ translating
        /\ status' = "failed" /\ translating' = FALSE
        /\ UNCHANGED function

\* DeleteRange passes over every entry that is not ready.
Drop == /\ status = "ready"
        /\ status' = "none"
        /\ UNCHANGED <<function, translating>>

\* The title ends, and who translates the entry is suspended for good.
Park == /\ status = "compiling" /\ translating
        /\ translating' = FALSE
        /\ UNCHANGED <<status, function>>

\* Clear deletes the entry whatever its status, but not under a thread that would
\* still publish into it.
Clear == /\ ~translating
         /\ status' = "none" /\ function' = 0
         /\ UNCHANGED translating

Next == Create \/ Publish \/ Fail \/ Drop \/ Park \/ Clear

Spec == Init /\ [][Next]_entryVars
=============================================================================
