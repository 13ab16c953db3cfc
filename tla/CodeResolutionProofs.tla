------------------------ MODULE CodeResolutionProofs ------------------------
(***************************************************************************)
(* What holds of CodeResolution for every set of names, windows, threads   *)
(* and records: a ready entry is as new as the last sweep of its memory.   *)
(***************************************************************************)
EXTENDS CodeResolution, TLAPS

Owns(t, n)   == pc[t] \in Compiling /\ at[t] = n
Stale(t)     == SweptSince(generation[t], MemoryOf[at[t]])

\* The two ways to hold a symbol in "defining": to declare it, or to define it.
Declares(t, n) == \/ pc[t] = "declare" /\ at[t] = n
                  \/ pc[t] = "siteDeclare" /\ site[t] = n
Defines(t, n)  == pc[t] \in {"scan", "emit", "siteDeclare"} /\ at[t] = n

\* A compiling entry has one thread that compiles it.
Ownership == /\ \A t \in Threads : pc[t] \in Compiling => entry[at[t]] = "compiling"
             /\ \A t, u \in Threads, n \in Names : Owns(t, n) /\ Owns(u, n) => t = u

\* A symbol in "defining" has one holder, and it is not taken from it.
Holding == /\ \A t \in Threads, n \in Names :
                 Declares(t, n) \/ Defines(t, n) => symbol[n] = "defining"
           /\ \A t, u \in Threads, n \in Names :
                 Declares(t, n) => (Declares(u, n) => t = u) /\ ~Defines(u, n)

\* A defined symbol is that of a ready entry, or about to be.
Symbols == /\ \A n \in Names : entry[n] = "ready" => symbol[n] \in {"declared", "defined"}
           /\ \A t \in Threads : pc[t] = "install" => symbol[at[t]] \in {"declared", "defined"}
           /\ \A t \in Threads : pc[t] \in {"define", "await"} =>
                 symbol[at[t]] \in {"declared", "defining"}
           /\ \A n \in Names : symbol[n] \in {"declared", "defining"} => symbolCode[n] = 0
           /\ \A n \in Names : symbol[n] = "defined" =>
                 entry[n] = "ready" \/ \E t \in Threads : pc[t] = "install" /\ at[t] = n
           /\ \A n \in Names : symbol[n] = "failed" => entry[n] = "failed"

\* A translation has read what was last swept, or will find that it was swept since.
Reading == /\ \A m \in Memory : swept[m] <= memory[m]
           /\ \A t \in Threads : generation[t] <= sweep_generation_
           /\ \A t \in Threads : pc[t] \in {"emit", "siteDeclare"} =>
                 read[t] >= swept[MemoryOf[at[t]]] \/ Stale(t)
           /\ \A t \in Threads : pc[t] = "install" =>
                 \/ symbolCode[at[t]] = 0
                 \/ symbolCode[at[t]] >= swept[MemoryOf[at[t]]]
                 \/ Stale(t)

\* An address that is not late is that of a ready entry.
Resolved == /\ \A t \in Guests : pc[t] = "got" /\ got[t].version > 0 /\ ~got[t].late =>
                  entry[at[t]] = "ready" /\ code[at[t]] = got[t].version /\ ~forced[at[t]]
            /\ \A t \in Guests, n \in Names : cache[t][n].version > 0 /\ ~cache[t][n].late =>
                  entry[n] = "ready" /\ code[n] = cache[t][n].version /\ ~forced[n]

Quiet == /\ title # "running" => background_queued_ = {}
         /\ title \in {"paused", "parked"} => Busy = {}

CodeInv == /\ TypeOK /\ Ownership /\ Holding /\ Symbols /\ Reading /\ EntryIsFresh
           /\ Resolved /\ Quiet

-----------------------------------------------------------------------------
(* Types *)

USE DEF memoryVars, tableVars, queueVars, localVars, threadVars, guestVars

\* The values of idle threads and of empty call caches have their types.
LEMMA Defaults == /\ AnyName \in Names /\ NoAddress \in Addresses
                  /\ Guests \subseteq Threads /\ Translators \subseteq Threads
  BY CodeAssumption DEF AnyName, NoAddress, Addresses, Threads

\* A sweep keeps the types of what it changes.
LEMMA InvalidateType ==
    ASSUME TypeOK, NEW n \in Names, InvalidateCodeRange(n)
    PROVE  /\ memory' \in [Memory -> Nat] /\ swept' \in [Memory -> Nat]
           /\ sweep_generation_' \in Nat
           /\ sweep_records_' \subseteq [generation : Nat, memory : Memory]
           /\ entry' \in [Names -> {"none", "compiling", "ready", "failed"}]
           /\ symbol' \in [Names -> {"none", "declared", "defining", "defined", "failed"}]
           /\ background_queued_' \subseteq Names
           /\ got' \in [Guests -> Addresses] /\ cache' \in [Guests -> [Names -> Addresses]]
  <1>1. MemoryOf[n] \in Memory
    BY CodeAssumption
  <1>2. sweep_generation_' \in Nat /\ sweep_records_' \subseteq [generation : Nat, memory : Memory]
    BY <1>1 DEF TypeOK, InvalidateCodeRange, InvalidateDynamicCalls
  <1>3. memory' \in [Memory -> Nat] /\ swept' \in [Memory -> Nat]
    BY <1>1 DEF TypeOK, InvalidateCodeRange, InvalidateDynamicCalls
  <1>4. /\ entry' \in [Names -> {"none", "compiling", "ready", "failed"}]
        /\ symbol' \in [Names -> {"none", "declared", "defining", "defined", "failed"}]
    BY DEF TypeOK, InvalidateCodeRange, InvalidateDynamicCalls
  <1>5. background_queued_' \subseteq Names
    BY DEF TypeOK, InvalidateCodeRange, InvalidateDynamicCalls, Queue, Dropped, SameMemory
  <1>6. got' \in [Guests -> Addresses]
    BY DEF TypeOK, InvalidateCodeRange, InvalidateDynamicCalls, Addresses
  <1>7. cache' \in [Guests -> [Names -> Addresses]]
    BY Defaults DEF TypeOK, InvalidateCodeRange, InvalidateDynamicCalls
  <1>8. QED
    BY <1>2, <1>3, <1>4, <1>5, <1>6, <1>7


\* Every step keeps the types.
LEMMA TypeStep == ASSUME TypeOK, Next PROVE TypeOK'
  <1> USE Defaults, CodeAssumption DEF TypeOK, Labels, Compiling, Goto
  <1>1. ASSUME NEW m \in Memory, Write(m) PROVE TypeOK'
    BY <1>1 DEF Write
  <1>2. ASSUME NEW t \in Guests, NEW n \in Names, Sweep(t, n) PROVE TypeOK'
    <2>1. unswept' \in [Threads -> SUBSET Names]
      BY <1>2 DEF Sweep, SameMemory
    <2>2. QED
      BY <1>2, <2>1, InvalidateType DEF Sweep, InvalidateCodeRange, InvalidateDynamicCalls
  <1>3. ASSUME NEW t \in Threads, SweepNext(t) PROVE TypeOK'
    <2>1. PICK n \in unswept[t] : /\ InvalidateCodeRange(n)
                                 /\ unswept' = [unswept EXCEPT ![t] = @ \ {n}]
      BY <1>3 DEF SweepNext
    <2>2. n \in Names
      OBVIOUS
    <2>3. QED
      BY <1>3, <2>1, <2>2, InvalidateType DEF SweepNext, InvalidateCodeRange,
         InvalidateDynamicCalls
  <1>4. ASSUME NEW t \in Threads, OnCodeSwept(t) PROVE TypeOK'
    BY <1>4 DEF OnCodeSwept, Forget, Queue, SameMemory
  <1>5. ASSUME NEW t \in Threads, NEW n \in Names, pc[t] \in {"idle", "taken"}, NewEntry(t, n),
                UNCHANGED <<memoryVars, title, cache>>,
                background_queued_' \subseteq background_queued_
         PROVE  TypeOK'
    BY <1>5 DEF NewEntry
  <1>6. ASSUME NEW t \in Threads, NEW n \in Names, pc[t] \in {"idle", "taken"}, CompilingEntry(t, n),
                UNCHANGED <<memoryVars, title, cache>>,
                background_queued_' \subseteq background_queued_
         PROVE  TypeOK'
    BY <1>6 DEF CompilingEntry
  <1>7. ASSUME NEW t \in Threads, NEW n \in Names, pc[t] \in {"idle", "taken"}, ReadyEntry(t, n),
                UNCHANGED <<memoryVars, title, cache>>,
                background_queued_' \subseteq background_queued_
         PROVE  TypeOK'
    <2>1. got' \in [Guests -> Addresses]
      BY <1>7 DEF ReadyEntry, Return, Addresses
    <2>2. pc' \in [Threads -> Labels]
      BY <1>7 DEF ReadyEntry, Return
    <2>3. QED
      BY <1>7, <2>1, <2>2 DEF ReadyEntry
  <1>8. ASSUME NEW t \in Threads, NEW n \in Names, pc[t] \in {"idle", "taken"}, FailedEntry(t, n),
                UNCHANGED <<memoryVars, title, cache>>,
                background_queued_' \subseteq background_queued_
         PROVE  TypeOK'
    BY <1>8 DEF FailedEntry
  <1>9. ASSUME NEW t \in Threads, Load(t) PROVE TypeOK'
    BY <1>9 DEF Load
  <1>10. ASSUME NEW t \in Threads, LookupNew(t) PROVE TypeOK'
    BY <1>10 DEF LookupNew, Create
  <1>11. ASSUME NEW t \in Threads, LookupOld(t) PROVE TypeOK'
    BY <1>11 DEF LookupOld
  <1>12. ASSUME NEW t \in Threads, Declare(t) PROVE TypeOK'
    BY <1>12 DEF Declare
  <1>13. ASSUME NEW t \in Threads, Define(t) PROVE TypeOK'
    BY <1>13 DEF Define
  <1>14. ASSUME NEW t \in Threads, DefineTaken(t) PROVE TypeOK'
    BY <1>14 DEF DefineTaken
  <1>15. ASSUME NEW t \in Threads, Await(t) PROVE TypeOK'
    BY <1>15 DEF Await
  <1>16. ASSUME NEW t \in Threads, Scan(t) PROVE TypeOK'
    BY <1>16 DEF Scan
  <1>17. ASSUME NEW t \in Threads, ScanNothing(t) PROVE TypeOK'
    BY <1>17 DEF ScanNothing, Spinning, Forget
  <1>18. ASSUME NEW t \in Threads, NEW n \in Names, DeclareSite(t, n) PROVE TypeOK'
    BY <1>18 DEF DeclareSite, Create
  <1>19. ASSUME NEW t \in Threads, SiteDeclared(t) PROVE TypeOK'
    BY <1>19 DEF SiteDeclared
  <1>20. ASSUME NEW t \in Threads, Finish(t) PROVE TypeOK'
    BY <1>20 DEF Finish
  <1>21. ASSUME NEW t \in Threads, Retry(t) PROVE TypeOK'
    BY <1>21 DEF Retry
  <1>22. ASSUME NEW t \in Threads, Install(t) PROVE TypeOK'
    <2>1. pc' \in [Threads -> Labels]
      BY <1>22 DEF Install, Return
    <2>2. /\ entry' \in [Names -> {"none", "compiling", "ready", "failed"}]
          /\ code' \in [Names -> Nat] /\ forced' \in [Names -> BOOLEAN]
      BY <1>22 DEF Install, SweptSince
    <2>3. got' \in [Guests -> Addresses]
      BY <1>22, <2>2 DEF Install, Return, SweptSince, Addresses
    <2>4. QED
      BY <1>22, <2>1, <2>2, <2>3 DEF Install, Forget
  <1>23. ASSUME NEW t \in Guests, Fill(t) PROVE TypeOK'
    BY <1>23 DEF Fill, Forget
  <1>24. ASSUME Pause PROVE TypeOK'
    BY <1>24 DEF Pause
  <1>25. ASSUME PauseDone PROVE TypeOK'
    BY <1>25 DEF PauseDone
  <1>26. ASSUME FlushCode PROVE TypeOK'
    BY <1>26 DEF FlushCode, Forget
  <1>27. ASSUME NEW t \in Guests, NEW n \in Names, Call(t, n) PROVE TypeOK'
    BY <1>27, <1>5, <1>6, <1>7, <1>8 DEF Call, GetOrCreate
  <1>28. ASSUME NEW t \in Translators, NEW n \in Names, Take(t, n) PROVE TypeOK'
    BY <1>28 DEF Take
  <1>29. ASSUME NEW t \in Threads, Ahead(t) PROVE TypeOK'
    BY <1>29, <1>5, <1>6, <1>7, <1>8 DEF Ahead, GetOrCreate
  <1>30. CASE TerminateTitle
    BY <1>30 DEF TerminateTitle
  <1>31. QED
    BY <1>1, <1>2, <1>3, <1>4, <1>9, <1>10, <1>11, <1>12, <1>13, <1>14, <1>15, <1>16, <1>17,
       <1>18, <1>19, <1>20, <1>21, <1>22, <1>23, <1>24, <1>25, <1>26, <1>27, <1>28, <1>29, <1>30
       DEF Next, Step

\* FlushCode leaves no thread at work: the translators have paused, and the guests are
\* those of the next title.
LEMMA FlushEndsAll == ASSUME TypeOK, Quiet, FlushCode PROVE \A t \in Threads : pc'[t] = "idle"
  BY DEF TypeOK, Quiet, Busy, FlushCode, Threads

\* No step gives an entry a second owner, or ends a translation but by its owner.
LEMMA OwnershipStep == ASSUME TypeOK, Quiet, Ownership, Next PROVE Ownership'
  <1> USE Defaults, CodeAssumption DEF TypeOK, Quiet, Busy, Ownership, Owns, Compiling, Goto
  <1>1. ASSUME NEW m \in Memory, Write(m) PROVE Ownership'
    BY <1>1 DEF Write
  <1>2. ASSUME NEW t \in Guests, NEW n \in Names, Sweep(t, n) PROVE Ownership'
    BY <1>2 DEF Sweep, InvalidateCodeRange, InvalidateDynamicCalls, Dropped, SameMemory
  <1>3. ASSUME NEW t \in Threads, SweepNext(t) PROVE Ownership'
    BY <1>3 DEF SweepNext, InvalidateCodeRange, InvalidateDynamicCalls, Dropped, SameMemory
  <1>4. ASSUME NEW t \in Threads, OnCodeSwept(t) PROVE Ownership'
    BY <1>4 DEF OnCodeSwept, Forget
  <1>5. ASSUME NEW t \in Threads, NEW n \in Names, pc[t] \in {"idle", "taken"}, NewEntry(t, n),
                UNCHANGED <<memoryVars, title, cache>>
         PROVE  Ownership'
    BY <1>5 DEF NewEntry
  <1>6. ASSUME NEW t \in Threads, NEW n \in Names, pc[t] \in {"idle", "taken"}, CompilingEntry(t, n),
                UNCHANGED <<memoryVars, title, cache>>
         PROVE  Ownership'
    BY <1>6 DEF CompilingEntry
  <1>7. ASSUME NEW t \in Threads, NEW n \in Names, pc[t] \in {"idle", "taken"}, ReadyEntry(t, n),
                UNCHANGED <<memoryVars, title, cache>>
         PROVE  Ownership'
    BY <1>7 DEF ReadyEntry, Return
  <1>8. ASSUME NEW t \in Threads, NEW n \in Names, pc[t] \in {"idle", "taken"}, FailedEntry(t, n),
                UNCHANGED <<memoryVars, title, cache>>
         PROVE  Ownership'
    BY <1>8 DEF FailedEntry
  <1>9. ASSUME NEW t \in Threads, Load(t) PROVE Ownership'
    BY <1>9 DEF Load
  <1>10. ASSUME NEW t \in Threads, LookupNew(t) PROVE Ownership'
    BY <1>10 DEF LookupNew, Create
  <1>11. ASSUME NEW t \in Threads, LookupOld(t) PROVE Ownership'
    BY <1>11 DEF LookupOld
  <1>12. ASSUME NEW t \in Threads, Declare(t) PROVE Ownership'
    BY <1>12 DEF Declare
  <1>13. ASSUME NEW t \in Threads, Define(t) PROVE Ownership'
    BY <1>13 DEF Define
  <1>14. ASSUME NEW t \in Threads, DefineTaken(t) PROVE Ownership'
    BY <1>14 DEF DefineTaken
  <1>15. ASSUME NEW t \in Threads, Await(t) PROVE Ownership'
    BY <1>15 DEF Await
  <1>16. ASSUME NEW t \in Threads, Scan(t) PROVE Ownership'
    BY <1>16 DEF Scan
  <1>17. ASSUME NEW t \in Threads, ScanNothing(t) PROVE Ownership'
    BY <1>17 DEF ScanNothing, Spinning, Forget
  <1>18. ASSUME NEW t \in Threads, NEW n \in Names, DeclareSite(t, n) PROVE Ownership'
    BY <1>18 DEF DeclareSite, Create
  <1>19. ASSUME NEW t \in Threads, SiteDeclared(t) PROVE Ownership'
    BY <1>19 DEF SiteDeclared
  <1>20. ASSUME NEW t \in Threads, Finish(t) PROVE Ownership'
    BY <1>20 DEF Finish
  <1>21. ASSUME NEW t \in Threads, Retry(t) PROVE Ownership'
    BY <1>21 DEF Retry
  <1>22. ASSUME NEW t \in Threads, Install(t) PROVE Ownership'
    BY <1>22 DEF Install, Return, Spinning, Forget
  <1>23. ASSUME NEW t \in Guests, Fill(t) PROVE Ownership'
    BY <1>23 DEF Fill, Forget
  <1>24. ASSUME Pause PROVE Ownership'
    BY <1>24 DEF Pause
  <1>25. ASSUME PauseDone PROVE Ownership'
    BY <1>25 DEF PauseDone
  <1>26. ASSUME FlushCode PROVE Ownership'
    BY <1>26, FlushEndsAll DEF FlushCode
  <1>27. ASSUME NEW t \in Guests, NEW n \in Names, Call(t, n) PROVE Ownership'
    BY <1>27, <1>5, <1>6, <1>7, <1>8 DEF Call, GetOrCreate
  <1>28. ASSUME NEW t \in Translators, NEW n \in Names, Take(t, n) PROVE Ownership'
    BY <1>28 DEF Take
  <1>29. ASSUME NEW t \in Threads, Ahead(t) PROVE Ownership'
    BY <1>29, <1>5, <1>6, <1>7, <1>8 DEF Ahead, GetOrCreate
  <1>30. CASE TerminateTitle
    BY <1>30 DEF TerminateTitle
  <1>31. QED
    BY <1>1, <1>2, <1>3, <1>4, <1>9, <1>10, <1>11, <1>12, <1>13, <1>14, <1>15, <1>16, <1>17,
       <1>18, <1>19, <1>20, <1>21, <1>22, <1>23, <1>24, <1>25, <1>26, <1>27, <1>28, <1>29, <1>30
       DEF Next, Step

\* A step that makes no thread a holder, and leaves the symbols that are held alone.
LEMMA HoldingFrame ==
    ASSUME Holding,
           \A n \in Names : symbol[n] = "defining" => symbol'[n] = "defining",
           \A u \in Threads : \/ pc'[u] \notin {"declare", "siteDeclare", "scan", "emit"}
                              \/ pc'[u] = pc[u] /\ at'[u] = at[u] /\ site'[u] = site[u]
    PROVE  Holding'
  BY DEF Holding, Declares, Defines

\* Who installs, and who has waited for it, goes; nobody else moves.
LEMMA InstallEnds ==
    ASSUME TypeOK, NEW t \in Threads, Install(t)
    PROVE  /\ symbol' = symbol
           /\ \A u \in Threads : \/ pc'[u] \notin {"declare", "siteDeclare", "scan", "emit"}
                                 \/ pc'[u] = pc[u] /\ at'[u] = at[u] /\ site'[u] = site[u]
  <1>1. symbol' = symbol /\ Return(Spinning(at[t]) \cup {t}, at[t], Stale(t))
    BY DEF Install, Stale
  <1>2. Forget((Spinning(at[t]) \cup {t}) \cap Translators)
    BY DEF Install
  <1>3. QED
    BY <1>1, <1>2 DEF Return, Forget

\* No step takes a symbol from its holder, or gives it a second one.
LEMMA HoldingStep == ASSUME TypeOK, Quiet, Ownership, Holding, Symbols, Next PROVE Holding'
  <1> USE Defaults, CodeAssumption DEF TypeOK, Quiet, Busy, Ownership, Owns, Holding, Declares,
     Defines, Symbols, Compiling, Goto
  <1>1. ASSUME NEW m \in Memory, Write(m) PROVE Holding'
    BY <1>1 DEF Write
  <1>2. ASSUME NEW t \in Guests, NEW n \in Names, Sweep(t, n) PROVE Holding'
    <2>1. \A k \in Names : symbol[k] = "defining" => symbol'[k] = "defining"
      BY <1>2 DEF Sweep, InvalidateCodeRange, Dropped
    <2>2. pc' = [pc EXCEPT ![t] = "swept"] /\ at' = [at EXCEPT ![t] = n] /\ site' = site
      BY <1>2 DEF Sweep
    <2>3. QED
      BY <2>1, <2>2, HoldingFrame
  <1>3. ASSUME NEW t \in Threads, SweepNext(t) PROVE Holding'
    BY <1>3 DEF SweepNext, InvalidateCodeRange, InvalidateDynamicCalls, Dropped, SameMemory
  <1>4. ASSUME NEW t \in Threads, OnCodeSwept(t) PROVE Holding'
    BY <1>4 DEF OnCodeSwept, Forget
  <1>5. ASSUME NEW t \in Threads, NEW n \in Names, pc[t] \in {"idle", "taken"}, NewEntry(t, n),
                UNCHANGED <<memoryVars, title, cache>>
         PROVE  Holding'
    BY <1>5 DEF NewEntry
  <1>6. ASSUME NEW t \in Threads, NEW n \in Names, pc[t] \in {"idle", "taken"}, CompilingEntry(t, n),
                UNCHANGED <<memoryVars, title, cache>>
         PROVE  Holding'
    BY <1>6 DEF CompilingEntry
  <1>7. ASSUME NEW t \in Threads, NEW n \in Names, pc[t] \in {"idle", "taken"}, ReadyEntry(t, n),
                UNCHANGED <<memoryVars, title, cache>>
         PROVE  Holding'
    BY <1>7 DEF ReadyEntry, Return
  <1>8. ASSUME NEW t \in Threads, NEW n \in Names, pc[t] \in {"idle", "taken"}, FailedEntry(t, n),
                UNCHANGED <<memoryVars, title, cache>>
         PROVE  Holding'
    BY <1>8 DEF FailedEntry
  <1>9. ASSUME NEW t \in Threads, Load(t) PROVE Holding'
    BY <1>9 DEF Load
  <1>10. ASSUME NEW t \in Threads, LookupNew(t) PROVE Holding'
    BY <1>10 DEF LookupNew, Create
  <1>11. ASSUME NEW t \in Threads, LookupOld(t) PROVE Holding'
    BY <1>11 DEF LookupOld
  <1>12. ASSUME NEW t \in Threads, Declare(t) PROVE Holding'
    BY <1>12 DEF Declare
  <1>13. ASSUME NEW t \in Threads, Define(t) PROVE Holding'
    BY <1>13 DEF Define
  <1>14. ASSUME NEW t \in Threads, DefineTaken(t) PROVE Holding'
    BY <1>14 DEF DefineTaken
  <1>15. ASSUME NEW t \in Threads, Await(t) PROVE Holding'
    BY <1>15 DEF Await
  <1>16. ASSUME NEW t \in Threads, Scan(t) PROVE Holding'
    BY <1>16 DEF Scan
  <1>17. ASSUME NEW t \in Threads, ScanNothing(t) PROVE Holding'
    BY <1>17 DEF ScanNothing, Spinning, Forget
  <1>18. ASSUME NEW t \in Threads, NEW n \in Names, DeclareSite(t, n) PROVE Holding'
    BY <1>18 DEF DeclareSite, Create
  <1>19. ASSUME NEW t \in Threads, SiteDeclared(t) PROVE Holding'
    BY <1>19 DEF SiteDeclared
  <1>20. ASSUME NEW t \in Threads, Finish(t) PROVE Holding'
    BY <1>20 DEF Finish
  <1>21. ASSUME NEW t \in Threads, Retry(t) PROVE Holding'
    <2>1. symbol[at[t]] # "defining"
      BY <1>21 DEF Retry
    <2>2. \A n \in Names : symbol[n] = "defining" => symbol'[n] = "defining"
      BY <1>21, <2>1 DEF Retry
    <2>3. \A u \in Threads : \/ pc'[u] = "load"
                             \/ pc'[u] = pc[u] /\ at'[u] = at[u] /\ site'[u] = site[u]
      BY <1>21 DEF Retry
    <2>4. QED
      BY <2>2, <2>3, HoldingFrame
  <1>22. ASSUME NEW t \in Threads, Install(t) PROVE Holding'
    BY <1>22, InstallEnds, HoldingFrame
  <1>23. ASSUME NEW t \in Guests, Fill(t) PROVE Holding'
    BY <1>23 DEF Fill, Forget
  <1>24. ASSUME Pause PROVE Holding'
    BY <1>24 DEF Pause
  <1>25. ASSUME PauseDone PROVE Holding'
    BY <1>25 DEF PauseDone
  <1>26. ASSUME FlushCode PROVE Holding'
    BY <1>26, FlushEndsAll DEF FlushCode
  <1>27. ASSUME NEW t \in Guests, NEW n \in Names, Call(t, n) PROVE Holding'
    BY <1>27, <1>5, <1>6, <1>7, <1>8 DEF Call, GetOrCreate
  <1>28. ASSUME NEW t \in Translators, NEW n \in Names, Take(t, n) PROVE Holding'
    BY <1>28 DEF Take
  <1>29. ASSUME NEW t \in Threads, Ahead(t) PROVE Holding'
    BY <1>29, <1>5, <1>6, <1>7, <1>8 DEF Ahead, GetOrCreate
  <1>30. CASE TerminateTitle
    BY <1>30 DEF TerminateTitle
  <1>31. QED
    BY <1>1, <1>2, <1>3, <1>4, <1>9, <1>10, <1>11, <1>12, <1>13, <1>14, <1>15, <1>16, <1>17,
       <1>18, <1>19, <1>20, <1>21, <1>22, <1>23, <1>24, <1>25, <1>26, <1>27, <1>28, <1>29, <1>30
       DEF Next, Step

\* A step that leaves the symbols, and the threads that define one, alone.
LEMMA SymbolsFrame ==
    ASSUME Symbols, UNCHANGED <<entry, symbol, symbolCode>>,
           \A u \in Threads :
             /\ pc'[u] \in {"install", "define", "await"} => pc'[u] = pc[u] /\ at'[u] = at[u]
             /\ pc[u] = "install" => pc'[u] = pc[u] /\ at'[u] = at[u]
    PROVE  Symbols'
  BY DEF Symbols

\* No step defines a symbol but by the owner of its entry.
LEMMA SymbolsStep == ASSUME TypeOK, Quiet, Ownership, Holding, Symbols, Next PROVE Symbols'
  <1> USE Defaults, CodeAssumption DEF TypeOK, Quiet, Busy, Ownership, Owns, Holding, Declares,
     Defines, Symbols, Compiling, Goto
  <1>1. ASSUME NEW m \in Memory, Write(m) PROVE Symbols'
    BY <1>1 DEF Write
  <1>2. ASSUME NEW t \in Guests, NEW n \in Names, Sweep(t, n) PROVE Symbols'
    BY <1>2 DEF Sweep, InvalidateCodeRange, InvalidateDynamicCalls, Dropped, SameMemory
  <1>3. ASSUME NEW t \in Threads, SweepNext(t) PROVE Symbols'
    BY <1>3 DEF SweepNext, InvalidateCodeRange, InvalidateDynamicCalls, Dropped, SameMemory
  <1>4. ASSUME NEW t \in Threads, OnCodeSwept(t) PROVE Symbols'
    BY <1>4 DEF OnCodeSwept, Forget
  <1>5. ASSUME NEW t \in Threads, NEW n \in Names, pc[t] \in {"idle", "taken"}, NewEntry(t, n),
                UNCHANGED <<memoryVars, title, cache>>
         PROVE  Symbols'
    BY <1>5 DEF NewEntry
  <1>6. ASSUME NEW t \in Threads, NEW n \in Names, pc[t] \in {"idle", "taken"}, CompilingEntry(t, n),
                UNCHANGED <<memoryVars, title, cache>>
         PROVE  Symbols'
    BY <1>6 DEF CompilingEntry
  <1>7. ASSUME NEW t \in Threads, NEW n \in Names, pc[t] \in {"idle", "taken"}, ReadyEntry(t, n),
                UNCHANGED <<memoryVars, title, cache>>
         PROVE  Symbols'
    <2>1. /\ UNCHANGED <<entry, symbol, symbolCode>>
          /\ \A u \in Threads : u # t => at'[u] = at[u] /\ pc'[u] = pc[u]
          /\ pc'[t] \in {"got", "idle"}
      BY <1>7 DEF ReadyEntry, Return
    <2>2. QED
      BY <1>7, <2>1, SymbolsFrame
  <1>8. ASSUME NEW t \in Threads, NEW n \in Names, pc[t] \in {"idle", "taken"}, FailedEntry(t, n),
                UNCHANGED <<memoryVars, title, cache>>
         PROVE  Symbols'
    BY <1>8 DEF FailedEntry
  <1>9. ASSUME NEW t \in Threads, Load(t) PROVE Symbols'
    BY <1>9 DEF Load
  <1>10. ASSUME NEW t \in Threads, LookupNew(t) PROVE Symbols'
    BY <1>10 DEF LookupNew, Create
  <1>11. ASSUME NEW t \in Threads, LookupOld(t) PROVE Symbols'
    BY <1>11 DEF LookupOld
  <1>12. ASSUME NEW t \in Threads, Declare(t) PROVE Symbols'
    BY <1>12 DEF Declare
  <1>13. ASSUME NEW t \in Threads, Define(t) PROVE Symbols'
    BY <1>13 DEF Define
  <1>14. ASSUME NEW t \in Threads, DefineTaken(t) PROVE Symbols'
    BY <1>14 DEF DefineTaken
  <1>15. ASSUME NEW t \in Threads, Await(t) PROVE Symbols'
    BY <1>15 DEF Await
  <1>16. ASSUME NEW t \in Threads, Scan(t) PROVE Symbols'
    BY <1>16 DEF Scan
  <1>17. ASSUME NEW t \in Threads, ScanNothing(t) PROVE Symbols'
    BY <1>17 DEF ScanNothing, Spinning, Forget
  <1>18. ASSUME NEW t \in Threads, NEW n \in Names, DeclareSite(t, n) PROVE Symbols'
    BY <1>18 DEF DeclareSite, Create
  <1>19. ASSUME NEW t \in Threads, SiteDeclared(t) PROVE Symbols'
    BY <1>19 DEF SiteDeclared
  <1>20. ASSUME NEW t \in Threads, Finish(t) PROVE Symbols'
    BY <1>20 DEF Finish
  <1>21. ASSUME NEW t \in Threads, Retry(t) PROVE Symbols'
    BY <1>21 DEF Retry
  <1>22. ASSUME NEW t \in Threads, Install(t) PROVE Symbols'
    BY <1>22 DEF Install, Return, Spinning, Forget
  <1>23. ASSUME NEW t \in Guests, Fill(t) PROVE Symbols'
    BY <1>23 DEF Fill, Forget
  <1>24. ASSUME Pause PROVE Symbols'
    BY <1>24 DEF Pause
  <1>25. ASSUME PauseDone PROVE Symbols'
    BY <1>25 DEF PauseDone
  <1>26. ASSUME FlushCode PROVE Symbols'
    BY <1>26, FlushEndsAll DEF FlushCode
  <1>27. ASSUME NEW t \in Guests, NEW n \in Names, Call(t, n) PROVE Symbols'
    BY <1>27, <1>5, <1>6, <1>7, <1>8 DEF Call, GetOrCreate
  <1>28. ASSUME NEW t \in Translators, NEW n \in Names, Take(t, n) PROVE Symbols'
    BY <1>28 DEF Take
  <1>29. ASSUME NEW t \in Threads, Ahead(t) PROVE Symbols'
    BY <1>29, <1>5, <1>6, <1>7, <1>8 DEF Ahead, GetOrCreate
  <1>30. CASE TerminateTitle
    BY <1>30 DEF TerminateTitle
  <1>31. QED
    BY <1>1, <1>2, <1>3, <1>4, <1>9, <1>10, <1>11, <1>12, <1>13, <1>14, <1>15, <1>16, <1>17,
       <1>18, <1>19, <1>20, <1>21, <1>22, <1>23, <1>24, <1>25, <1>26, <1>27, <1>28, <1>29, <1>30
       DEF Next, Step

\* Once a translation is stale it stays so, and a sweep of its memory makes it stale.
LEMMA StaleKept ==
    ASSUME TypeOK, NEW n \in Names, InvalidateCodeRange(n),
           NEW g \in Nat, g <= sweep_generation_, NEW m \in Memory
    PROVE  /\ SweptSince(g, m) => SweptSince(g, m)'
           /\ m = MemoryOf[n] => SweptSince(g, m)'
  <1>1. /\ sweep_generation_' = sweep_generation_ + 1
        /\ sweep_generation_ \in Nat /\ RecordCount \in Nat
    BY CodeAssumption DEF TypeOK, InvalidateCodeRange, InvalidateDynamicCalls
  <1>2. /\ \A r \in sweep_records_ : r.generation > sweep_generation_' - RecordCount
                                      => r \in sweep_records_'
        /\ [generation |-> sweep_generation_', memory |-> MemoryOf[n]] \in sweep_records_'
    BY DEF InvalidateCodeRange, InvalidateDynamicCalls
  <1>3. \A r \in sweep_records_ : r.generation \in Nat
    BY DEF TypeOK
  <1>4. CASE sweep_generation_' - g > RecordCount
    BY <1>4 DEF SweptSince
  <1>5. CASE ~(sweep_generation_' - g > RecordCount)
    <2>1. \A r \in sweep_records_ : r.generation > g => r \in sweep_records_'
      BY <1>1, <1>2, <1>3, <1>5
    <2>2. ~(sweep_generation_ - g > RecordCount)
      BY <1>1, <1>5
    <2>3. SweptSince(g, m) => SweptSince(g, m)'
      BY <2>1, <2>2 DEF SweptSince
    <2>4. sweep_generation_' > g
      BY <1>1
    <2>5. m = MemoryOf[n] => SweptSince(g, m)'
      BY <1>2, <2>4 DEF SweptSince
    <2>6. QED
      BY <2>3, <2>5
  <1>6. QED
    BY <1>4, <1>5

\* A step that leaves the memory and the translations under way alone.
LEMMA ReadingFrame ==
    ASSUME TypeOK, Reading, UNCHANGED memoryVars,
           \A u \in Threads :
              /\ generation'[u] <= sweep_generation_
              /\ pc'[u] \in {"emit", "siteDeclare"} =>
                    pc[u] \in {"emit", "siteDeclare"} /\ read'[u] = read[u]
              /\ pc'[u] = "install" =>
                    pc[u] = "install" /\ symbolCode'[at[u]] \in {symbolCode[at[u]], 0}
              /\ pc'[u] \in {"emit", "siteDeclare", "install"} =>
                    at'[u] = at[u] /\ generation'[u] = generation[u]
    PROVE  Reading'
  <1>1. \A u \in Threads :
            at'[u] = at[u] /\ generation'[u] = generation[u] /\ Stale(u) => Stale(u)'
    BY DEF Stale, SweptSince
  <1>2. \A m \in Memory : swept'[m] <= memory'[m]
    BY DEF Reading
  <1>3. \A u \in Threads : generation'[u] <= sweep_generation_'
    OBVIOUS
  <1>4. ASSUME NEW u \in Threads, pc'[u] \in {"emit", "siteDeclare"}
        PROVE  read'[u] >= swept'[MemoryOf[at'[u]]] \/ Stale(u)'
    BY <1>1, <1>4 DEF Reading
  <1>5. ASSUME NEW u \in Threads, pc'[u] = "install"
        PROVE  \/ symbolCode'[at'[u]] = 0
               \/ symbolCode'[at'[u]] >= swept'[MemoryOf[at'[u]]]
               \/ Stale(u)'
    BY <1>1, <1>5 DEF Reading
  <1>6. QED
    BY <1>2, <1>3, <1>4, <1>5 DEF Reading

\* A sweep leaves translations under way alone, but for what they must find.
LEMMA ReadingSweep ==
    ASSUME TypeOK, Reading, NEW n \in Names, InvalidateCodeRange(n),
           \A u \in Threads :
              /\ generation'[u] = generation[u]
              /\ pc'[u] \in {"emit", "siteDeclare", "install"} =>
                    pc'[u] = pc[u] /\ at'[u] = at[u] /\ read'[u] = read[u]
    PROVE  Reading'
  <1> USE CodeAssumption
  <1>1. \A m \in Memory : swept'[m] <= memory'[m]
    BY DEF TypeOK, Reading, InvalidateCodeRange, InvalidateDynamicCalls
  <1>2. \A u \in Threads : generation'[u] <= sweep_generation_'
    BY DEF TypeOK, Reading, InvalidateCodeRange, InvalidateDynamicCalls
  <1>3. ASSUME NEW u \in Threads, pc'[u] \in {"emit", "siteDeclare", "install"}
        PROVE  /\ Stale(u) => Stale(u)'
               /\ MemoryOf[at[u]] = MemoryOf[n] => Stale(u)'
               /\ MemoryOf[at[u]] # MemoryOf[n] => swept'[MemoryOf[at[u]]] = swept[MemoryOf[at[u]]]
    <2>1. generation[u] \in Nat /\ generation[u] <= sweep_generation_ /\ MemoryOf[at[u]] \in Memory
      BY DEF TypeOK, Reading
    <2>2. /\ SweptSince(generation[u], MemoryOf[at[u]])
                => SweptSince(generation[u], MemoryOf[at[u]])'
          /\ MemoryOf[at[u]] = MemoryOf[n] => SweptSince(generation[u], MemoryOf[at[u]])'
      <3>1. /\ generation'[u] = generation[u] /\ at'[u] = at[u]
        BY <1>3
      <3>2. QED
        BY <2>1, <3>1, StaleKept DEF SweptSince
    <2>3. QED
      BY <1>3, <2>1, <2>2 DEF Stale, InvalidateCodeRange, InvalidateDynamicCalls, TypeOK
  <1>4. ASSUME NEW u \in Threads, pc'[u] \in {"emit", "siteDeclare"}
        PROVE  read'[u] >= swept'[MemoryOf[at'[u]]] \/ Stale(u)'
    BY <1>3, <1>4 DEF TypeOK, Reading
  <1>5. ASSUME NEW u \in Threads, pc'[u] = "install"
        PROVE  \/ symbolCode'[at'[u]] = 0
               \/ symbolCode'[at'[u]] >= swept'[MemoryOf[at'[u]]]
               \/ Stale(u)'
    BY <1>3, <1>5 DEF TypeOK, Reading, InvalidateCodeRange, InvalidateDynamicCalls
  <1>6. QED
    BY <1>1, <1>2, <1>4, <1>5 DEF Reading

\* A sweep of what a translation has read makes it stale, and it stays so.
LEMMA ReadingStep == ASSUME TypeOK, Quiet, Ownership, Symbols, Reading, Next PROVE Reading'
  <1> USE Defaults, CodeAssumption DEF TypeOK, Quiet, Busy, Ownership, Owns, Symbols, Reading,
     Stale, SweptSince, Compiling, Goto
  <1>1. ASSUME NEW m \in Memory, Write(m) PROVE Reading'
    BY <1>1 DEF Write
  <1>2. ASSUME NEW t \in Guests, NEW n \in Names, Sweep(t, n) PROVE Reading'
    <2>1. \A u \in Threads :
              /\ generation'[u] = generation[u]
              /\ pc'[u] \in {"emit", "siteDeclare", "install"} =>
                    pc'[u] = pc[u] /\ at'[u] = at[u] /\ read'[u] = read[u]
      BY <1>2 DEF Sweep
    <2>2. QED
      BY <1>2, <2>1, ReadingSweep DEF Sweep
  <1>3. ASSUME NEW t \in Threads, SweepNext(t) PROVE Reading'
    <2>1. PICK n \in unswept[t] : InvalidateCodeRange(n)
      BY <1>3 DEF SweepNext
    <2>2. n \in Names
      OBVIOUS
    <2>3. QED
      BY <1>3, <2>1, <2>2, ReadingSweep DEF SweepNext
  <1>4. ASSUME NEW t \in Threads, OnCodeSwept(t) PROVE Reading'
    <2>1. \A u \in Threads :
              /\ generation'[u] <= sweep_generation_
              /\ pc'[u] \in {"emit", "siteDeclare"} =>
                    pc[u] \in {"emit", "siteDeclare"} /\ read'[u] = read[u]
              /\ pc'[u] = "install" =>
                    pc[u] = "install" /\ symbolCode'[at[u]] \in {symbolCode[at[u]], 0}
              /\ pc'[u] \in {"emit", "siteDeclare", "install"} =>
                    at'[u] = at[u] /\ generation'[u] = generation[u]
      BY <1>4 DEF OnCodeSwept, Forget
    <2>2. QED
      BY <1>4, <2>1, ReadingFrame DEF OnCodeSwept, Forget
  <1>5. ASSUME NEW t \in Threads, NEW n \in Names, pc[t] \in {"idle", "taken"}, NewEntry(t, n),
                UNCHANGED <<memoryVars, title, cache>>
         PROVE  Reading'
    <2>1. /\ pc' = [pc EXCEPT ![t] = "load"] /\ at' = [at EXCEPT ![t] = n]
          /\ UNCHANGED <<generation, read, symbolCode>>
      BY <1>5 DEF NewEntry
    <2>2. QED
      BY <1>5, <2>1, ReadingFrame
  <1>6. ASSUME NEW t \in Threads, NEW n \in Names, pc[t] \in {"idle", "taken"}, CompilingEntry(t, n),
                UNCHANGED <<memoryVars, title, cache>>
         PROVE  Reading'
    BY <1>6 DEF CompilingEntry
  <1>7. ASSUME NEW t \in Threads, NEW n \in Names, pc[t] \in {"idle", "taken"}, ReadyEntry(t, n),
                UNCHANGED <<memoryVars, title, cache>>
         PROVE  Reading'
    BY <1>7 DEF ReadyEntry, Return
  <1>8. ASSUME NEW t \in Threads, NEW n \in Names, pc[t] \in {"idle", "taken"}, FailedEntry(t, n),
                UNCHANGED <<memoryVars, title, cache>>
         PROVE  Reading'
    <2>1. /\ pc' = [pc EXCEPT ![t] = "idle"] /\ at' = [at EXCEPT ![t] = AnyName]
          /\ UNCHANGED <<generation, read, symbolCode>>
      BY <1>8 DEF FailedEntry
    <2>2. QED
      BY <1>8, <2>1, ReadingFrame
  <1>9. ASSUME NEW t \in Threads, Load(t) PROVE Reading'
    BY <1>9 DEF Load
  <1>10. ASSUME NEW t \in Threads, LookupNew(t) PROVE Reading'
    BY <1>10 DEF LookupNew, Create
  <1>11. ASSUME NEW t \in Threads, LookupOld(t) PROVE Reading'
    BY <1>11 DEF LookupOld
  <1>12. ASSUME NEW t \in Threads, Declare(t) PROVE Reading'
    BY <1>12 DEF Declare
  <1>13. ASSUME NEW t \in Threads, Define(t) PROVE Reading'
    BY <1>13 DEF Define
  <1>14. ASSUME NEW t \in Threads, DefineTaken(t) PROVE Reading'
    BY <1>14 DEF DefineTaken
  <1>15. ASSUME NEW t \in Threads, Await(t) PROVE Reading'
    BY <1>15 DEF Await
  <1>16. ASSUME NEW t \in Threads, Scan(t) PROVE Reading'
    BY <1>16 DEF Scan
  <1>17. ASSUME NEW t \in Threads, ScanNothing(t) PROVE Reading'
    <2>1. \A u \in Threads :
              /\ generation'[u] <= sweep_generation_
              /\ pc'[u] \in {"emit", "siteDeclare"} =>
                    pc[u] \in {"emit", "siteDeclare"} /\ read'[u] = read[u]
              /\ pc'[u] = "install" =>
                    pc[u] = "install" /\ symbolCode'[at[u]] \in {symbolCode[at[u]], 0}
              /\ pc'[u] \in {"emit", "siteDeclare", "install"} =>
                    at'[u] = at[u] /\ generation'[u] = generation[u]
      BY <1>17 DEF ScanNothing, Spinning, Forget
    <2>2. QED
      BY <1>17, <2>1, ReadingFrame DEF ScanNothing, Spinning, Forget
  <1>18. ASSUME NEW t \in Threads, NEW n \in Names, DeclareSite(t, n) PROVE Reading'
    <2>1. \A u \in Threads :
              /\ generation'[u] <= sweep_generation_
              /\ pc'[u] \in {"emit", "siteDeclare"} =>
                    pc[u] \in {"emit", "siteDeclare"} /\ read'[u] = read[u]
              /\ pc'[u] = "install" =>
                    pc[u] = "install" /\ symbolCode'[at[u]] \in {symbolCode[at[u]], 0}
              /\ pc'[u] \in {"emit", "siteDeclare", "install"} =>
                    at'[u] = at[u] /\ generation'[u] = generation[u]
      BY <1>18 DEF DeclareSite, Create
    <2>2. QED
      BY <1>18, <2>1, ReadingFrame DEF DeclareSite, Create
  <1>19. ASSUME NEW t \in Threads, SiteDeclared(t) PROVE Reading'
    BY <1>19 DEF SiteDeclared
  <1>20. ASSUME NEW t \in Threads, Finish(t) PROVE Reading'
    BY <1>20 DEF Finish
  <1>21. ASSUME NEW t \in Threads, Retry(t) PROVE Reading'
    BY <1>21 DEF Retry
  <1>22. ASSUME NEW t \in Threads, Install(t) PROVE Reading'
    <2>1. \A u \in Threads :
              /\ generation'[u] <= sweep_generation_
              /\ pc'[u] \in {"emit", "siteDeclare"} =>
                    pc[u] \in {"emit", "siteDeclare"} /\ read'[u] = read[u]
              /\ pc'[u] = "install" =>
                    pc[u] = "install" /\ symbolCode'[at[u]] \in {symbolCode[at[u]], 0}
              /\ pc'[u] \in {"emit", "siteDeclare", "install"} =>
                    at'[u] = at[u] /\ generation'[u] = generation[u]
      BY <1>22 DEF Install, Return, Spinning, Forget
    <2>2. QED
      BY <1>22, <2>1, ReadingFrame DEF Install, Return, Spinning, Forget
  <1>23. ASSUME NEW t \in Guests, Fill(t) PROVE Reading'
    <2>1. \A u \in Threads :
              /\ generation'[u] <= sweep_generation_
              /\ pc'[u] \in {"emit", "siteDeclare"} =>
                    pc[u] \in {"emit", "siteDeclare"} /\ read'[u] = read[u]
              /\ pc'[u] = "install" =>
                    pc[u] = "install" /\ symbolCode'[at[u]] \in {symbolCode[at[u]], 0}
              /\ pc'[u] \in {"emit", "siteDeclare", "install"} =>
                    at'[u] = at[u] /\ generation'[u] = generation[u]
      BY <1>23 DEF Fill, Forget
    <2>2. QED
      BY <1>23, <2>1, ReadingFrame DEF Fill, Forget
  <1>24. ASSUME Pause PROVE Reading'
    BY <1>24 DEF Pause
  <1>25. ASSUME PauseDone PROVE Reading'
    BY <1>25 DEF PauseDone
  <1>26. ASSUME FlushCode PROVE Reading'
    BY <1>26, FlushEndsAll DEF FlushCode, Forget
  <1>27. ASSUME NEW t \in Guests, NEW n \in Names, Call(t, n) PROVE Reading'
    BY <1>27, <1>5, <1>6, <1>7, <1>8 DEF Call, GetOrCreate
  <1>28. ASSUME NEW t \in Translators, NEW n \in Names, Take(t, n) PROVE Reading'
    BY <1>28 DEF Take
  <1>29. ASSUME NEW t \in Threads, Ahead(t) PROVE Reading'
    BY <1>29, <1>5, <1>6, <1>7, <1>8 DEF Ahead, GetOrCreate
  <1>30. CASE TerminateTitle
    BY <1>30 DEF TerminateTitle
  <1>31. QED
    BY <1>1, <1>2, <1>3, <1>4, <1>9, <1>10, <1>11, <1>12, <1>13, <1>14, <1>15, <1>16, <1>17,
       <1>18, <1>19, <1>20, <1>21, <1>22, <1>23, <1>24, <1>25, <1>26, <1>27, <1>28, <1>29, <1>30
       DEF Next, Step

\* A sweep drops the entries it makes stale, and none is installed stale unless forced.
LEMMA FreshStep == ASSUME TypeOK, Symbols, Reading, EntryIsFresh, Next PROVE EntryIsFresh'
  <1> USE Defaults, CodeAssumption DEF TypeOK, Symbols, Reading, Stale, EntryIsFresh
  <1>1. ASSUME NEW m \in Memory, Write(m) PROVE EntryIsFresh'
    BY <1>1 DEF Write
  <1>2. ASSUME NEW t \in Guests, NEW n \in Names, Sweep(t, n) PROVE EntryIsFresh'
    BY <1>2 DEF Sweep, InvalidateCodeRange, InvalidateDynamicCalls, Dropped, SameMemory
  <1>3. ASSUME NEW t \in Threads, SweepNext(t) PROVE EntryIsFresh'
    BY <1>3 DEF SweepNext, InvalidateCodeRange, InvalidateDynamicCalls, Dropped, SameMemory
  <1>4. ASSUME NEW t \in Threads, OnCodeSwept(t) PROVE EntryIsFresh'
    BY <1>4 DEF OnCodeSwept, Forget
  <1>5. ASSUME NEW t \in Threads, NEW n \in Names, pc[t] \in {"idle", "taken"}, NewEntry(t, n),
                UNCHANGED <<memoryVars, title, cache>>
         PROVE  EntryIsFresh'
    BY <1>5 DEF NewEntry
  <1>6. ASSUME NEW t \in Threads, NEW n \in Names, pc[t] \in {"idle", "taken"}, CompilingEntry(t, n),
                UNCHANGED <<memoryVars, title, cache>>
         PROVE  EntryIsFresh'
    BY <1>6 DEF CompilingEntry
  <1>7. ASSUME NEW t \in Threads, NEW n \in Names, pc[t] \in {"idle", "taken"}, ReadyEntry(t, n),
                UNCHANGED <<memoryVars, title, cache>>
         PROVE  EntryIsFresh'
    BY <1>7 DEF ReadyEntry, Return
  <1>8. ASSUME NEW t \in Threads, NEW n \in Names, pc[t] \in {"idle", "taken"}, FailedEntry(t, n),
                UNCHANGED <<memoryVars, title, cache>>
         PROVE  EntryIsFresh'
    BY <1>8 DEF FailedEntry
  <1>9. ASSUME NEW t \in Threads, Load(t) PROVE EntryIsFresh'
    BY <1>9 DEF Load
  <1>10. ASSUME NEW t \in Threads, LookupNew(t) PROVE EntryIsFresh'
    BY <1>10 DEF LookupNew, Create
  <1>11. ASSUME NEW t \in Threads, LookupOld(t) PROVE EntryIsFresh'
    BY <1>11 DEF LookupOld
  <1>12. ASSUME NEW t \in Threads, Declare(t) PROVE EntryIsFresh'
    BY <1>12 DEF Declare
  <1>13. ASSUME NEW t \in Threads, Define(t) PROVE EntryIsFresh'
    BY <1>13 DEF Define
  <1>14. ASSUME NEW t \in Threads, DefineTaken(t) PROVE EntryIsFresh'
    BY <1>14 DEF DefineTaken
  <1>15. ASSUME NEW t \in Threads, Await(t) PROVE EntryIsFresh'
    BY <1>15 DEF Await
  <1>16. ASSUME NEW t \in Threads, Scan(t) PROVE EntryIsFresh'
    BY <1>16 DEF Scan
  <1>17. ASSUME NEW t \in Threads, ScanNothing(t) PROVE EntryIsFresh'
    BY <1>17 DEF ScanNothing, Spinning, Forget
  <1>18. ASSUME NEW t \in Threads, NEW n \in Names, DeclareSite(t, n) PROVE EntryIsFresh'
    BY <1>18 DEF DeclareSite, Create
  <1>19. ASSUME NEW t \in Threads, SiteDeclared(t) PROVE EntryIsFresh'
    BY <1>19 DEF SiteDeclared
  <1>20. ASSUME NEW t \in Threads, Finish(t) PROVE EntryIsFresh'
    BY <1>20 DEF Finish
  <1>21. ASSUME NEW t \in Threads, Retry(t) PROVE EntryIsFresh'
    BY <1>21 DEF Retry
  <1>22. ASSUME NEW t \in Threads, Install(t) PROVE EntryIsFresh'
    <2>1. \/ symbolCode[at[t]] = 0
          \/ symbolCode[at[t]] >= swept[MemoryOf[at[t]]]
          \/ Stale(t)
      BY <1>22 DEF Install
    <2>2. /\ swept' = swept
          /\ \A n \in Names : n # at[t] => /\ entry'[n] = entry[n] /\ code'[n] = code[n]
                                           /\ forced'[n] = forced[n]
          /\ code'[at[t]] = symbolCode[at[t]] /\ forced'[at[t]] = Stale(t)
      BY <1>22 DEF Install
    <2>3. QED
      BY <2>1, <2>2
  <1>23. ASSUME NEW t \in Guests, Fill(t) PROVE EntryIsFresh'
    BY <1>23 DEF Fill, Forget
  <1>24. ASSUME Pause PROVE EntryIsFresh'
    BY <1>24 DEF Pause
  <1>25. ASSUME PauseDone PROVE EntryIsFresh'
    BY <1>25 DEF PauseDone
  <1>26. ASSUME FlushCode PROVE EntryIsFresh'
    BY <1>26, FlushEndsAll DEF FlushCode
  <1>27. ASSUME NEW t \in Guests, NEW n \in Names, Call(t, n) PROVE EntryIsFresh'
    BY <1>27, <1>5, <1>6, <1>7, <1>8 DEF Call, GetOrCreate
  <1>28. ASSUME NEW t \in Translators, NEW n \in Names, Take(t, n) PROVE EntryIsFresh'
    BY <1>28 DEF Take
  <1>29. ASSUME NEW t \in Threads, Ahead(t) PROVE EntryIsFresh'
    BY <1>29, <1>5, <1>6, <1>7, <1>8 DEF Ahead, GetOrCreate
  <1>30. CASE TerminateTitle
    BY <1>30 DEF TerminateTitle
  <1>31. QED
    BY <1>1, <1>2, <1>3, <1>4, <1>9, <1>10, <1>11, <1>12, <1>13, <1>14, <1>15, <1>16, <1>17,
       <1>18, <1>19, <1>20, <1>21, <1>22, <1>23, <1>24, <1>25, <1>26, <1>27, <1>28, <1>29, <1>30
       DEF Next, Step

\* A sweep that drops an entry finds every address resolved from it.
LEMMA ResolvedStep == ASSUME TypeOK, Ownership, Resolved, Next PROVE Resolved'
  <1> USE Defaults, CodeAssumption DEF TypeOK, Ownership, Resolved, Compiling, Goto, NoAddress
  <1>1. ASSUME NEW m \in Memory, Write(m) PROVE Resolved'
    BY <1>1 DEF Write
  <1>2. ASSUME NEW t \in Guests, NEW n \in Names, Sweep(t, n) PROVE Resolved'
    BY <1>2 DEF Sweep, InvalidateCodeRange, InvalidateDynamicCalls, Dropped, SameMemory
  <1>3. ASSUME NEW t \in Threads, SweepNext(t) PROVE Resolved'
    BY <1>3 DEF SweepNext, InvalidateCodeRange, InvalidateDynamicCalls, Dropped, SameMemory
  <1>4. ASSUME NEW t \in Threads, OnCodeSwept(t) PROVE Resolved'
    BY <1>4 DEF OnCodeSwept, Forget
  <1>5. ASSUME NEW t \in Threads, NEW n \in Names, pc[t] \in {"idle", "taken"}, NewEntry(t, n),
                UNCHANGED <<memoryVars, title, cache>>
         PROVE  Resolved'
    BY <1>5 DEF NewEntry
  <1>6. ASSUME NEW t \in Threads, NEW n \in Names, pc[t] \in {"idle", "taken"}, CompilingEntry(t, n),
                UNCHANGED <<memoryVars, title, cache>>
         PROVE  Resolved'
    BY <1>6 DEF CompilingEntry
  <1>7. ASSUME NEW t \in Threads, NEW n \in Names, pc[t] \in {"idle", "taken"}, ReadyEntry(t, n),
                UNCHANGED <<memoryVars, title, cache>>
         PROVE  Resolved'
    BY <1>7 DEF ReadyEntry, Return
  <1>8. ASSUME NEW t \in Threads, NEW n \in Names, pc[t] \in {"idle", "taken"}, FailedEntry(t, n),
                UNCHANGED <<memoryVars, title, cache>>
         PROVE  Resolved'
    BY <1>8 DEF FailedEntry
  <1>9. ASSUME NEW t \in Threads, Load(t) PROVE Resolved'
    BY <1>9 DEF Load
  <1>10. ASSUME NEW t \in Threads, LookupNew(t) PROVE Resolved'
    BY <1>10 DEF LookupNew, Create
  <1>11. ASSUME NEW t \in Threads, LookupOld(t) PROVE Resolved'
    BY <1>11 DEF LookupOld
  <1>12. ASSUME NEW t \in Threads, Declare(t) PROVE Resolved'
    BY <1>12 DEF Declare
  <1>13. ASSUME NEW t \in Threads, Define(t) PROVE Resolved'
    BY <1>13 DEF Define
  <1>14. ASSUME NEW t \in Threads, DefineTaken(t) PROVE Resolved'
    BY <1>14 DEF DefineTaken
  <1>15. ASSUME NEW t \in Threads, Await(t) PROVE Resolved'
    BY <1>15 DEF Await
  <1>16. ASSUME NEW t \in Threads, Scan(t) PROVE Resolved'
    BY <1>16 DEF Scan
  <1>17. ASSUME NEW t \in Threads, ScanNothing(t) PROVE Resolved'
    BY <1>17 DEF ScanNothing, Spinning, Forget
  <1>18. ASSUME NEW t \in Threads, NEW n \in Names, DeclareSite(t, n) PROVE Resolved'
    BY <1>18 DEF DeclareSite, Create
  <1>19. ASSUME NEW t \in Threads, SiteDeclared(t) PROVE Resolved'
    BY <1>19 DEF SiteDeclared
  <1>20. ASSUME NEW t \in Threads, Finish(t) PROVE Resolved'
    BY <1>20 DEF Finish
  <1>21. ASSUME NEW t \in Threads, Retry(t) PROVE Resolved'
    BY <1>21 DEF Retry
  <1>22. ASSUME NEW t \in Threads, Install(t) PROVE Resolved'
    BY <1>22 DEF Install, Return, Spinning, Forget
  <1>23. ASSUME NEW t \in Guests, Fill(t) PROVE Resolved'
    BY <1>23 DEF Fill, Forget
  <1>24. ASSUME Pause PROVE Resolved'
    BY <1>24 DEF Pause
  <1>25. ASSUME PauseDone PROVE Resolved'
    BY <1>25 DEF PauseDone
  <1>26. ASSUME FlushCode PROVE Resolved'
    BY <1>26, FlushEndsAll DEF FlushCode
  <1>27. ASSUME NEW t \in Guests, NEW n \in Names, Call(t, n) PROVE Resolved'
    BY <1>27, <1>5, <1>6, <1>7, <1>8 DEF Call, GetOrCreate
  <1>28. ASSUME NEW t \in Translators, NEW n \in Names, Take(t, n) PROVE Resolved'
    BY <1>28 DEF Take
  <1>29. ASSUME NEW t \in Threads, Ahead(t) PROVE Resolved'
    BY <1>29, <1>5, <1>6, <1>7, <1>8 DEF Ahead, GetOrCreate
  <1>30. CASE TerminateTitle
    BY <1>30 DEF TerminateTitle
  <1>31. QED
    BY <1>1, <1>2, <1>3, <1>4, <1>9, <1>10, <1>11, <1>12, <1>13, <1>14, <1>15, <1>16, <1>17,
       <1>18, <1>19, <1>20, <1>21, <1>22, <1>23, <1>24, <1>25, <1>26, <1>27, <1>28, <1>29, <1>30
       DEF Next, Step

\* Nothing is queued or taken once a title ends.
LEMMA QuietStep == ASSUME TypeOK, Quiet, Next PROVE Quiet'
  <1> USE Defaults, CodeAssumption DEF TypeOK, Quiet, Busy, Goto, Queue
  <1>1. ASSUME NEW m \in Memory, Write(m) PROVE Quiet'
    BY <1>1 DEF Write
  <1>2. ASSUME NEW t \in Guests, NEW n \in Names, Sweep(t, n) PROVE Quiet'
    BY <1>2 DEF Sweep, InvalidateCodeRange, InvalidateDynamicCalls, Dropped, SameMemory
  <1>3. ASSUME NEW t \in Threads, SweepNext(t) PROVE Quiet'
    BY <1>3 DEF SweepNext, InvalidateCodeRange, InvalidateDynamicCalls, Dropped, SameMemory
  <1>4. ASSUME NEW t \in Threads, OnCodeSwept(t) PROVE Quiet'
    BY <1>4 DEF OnCodeSwept, Forget
  <1>5. ASSUME NEW t \in Threads, NEW n \in Names, pc[t] \in {"idle", "taken"}, NewEntry(t, n),
                t \in Guests \cup Busy, UNCHANGED <<memoryVars, title, cache>>,
                background_queued_' \subseteq background_queued_
         PROVE  Quiet'
    BY <1>5 DEF NewEntry
  <1>6. ASSUME NEW t \in Threads, NEW n \in Names, pc[t] \in {"idle", "taken"}, CompilingEntry(t, n),
                t \in Guests \cup Busy, UNCHANGED <<memoryVars, title, cache>>,
                background_queued_' \subseteq background_queued_
         PROVE  Quiet'
    BY <1>6 DEF CompilingEntry
  <1>7. ASSUME NEW t \in Threads, NEW n \in Names, pc[t] \in {"idle", "taken"}, ReadyEntry(t, n),
                UNCHANGED <<memoryVars, title, cache>>,
                background_queued_' \subseteq background_queued_
         PROVE  Quiet'
    BY <1>7 DEF ReadyEntry, Return
  <1>8. ASSUME NEW t \in Threads, NEW n \in Names, pc[t] \in {"idle", "taken"}, FailedEntry(t, n),
                UNCHANGED <<memoryVars, title, cache>>,
                background_queued_' \subseteq background_queued_
         PROVE  Quiet'
    BY <1>8 DEF FailedEntry
  <1>9. ASSUME NEW t \in Threads, Load(t) PROVE Quiet'
    BY <1>9 DEF Load
  <1>10. ASSUME NEW t \in Threads, LookupNew(t) PROVE Quiet'
    BY <1>10 DEF LookupNew, Create
  <1>11. ASSUME NEW t \in Threads, LookupOld(t) PROVE Quiet'
    BY <1>11 DEF LookupOld
  <1>12. ASSUME NEW t \in Threads, Declare(t) PROVE Quiet'
    BY <1>12 DEF Declare
  <1>13. ASSUME NEW t \in Threads, Define(t) PROVE Quiet'
    BY <1>13 DEF Define
  <1>14. ASSUME NEW t \in Threads, DefineTaken(t) PROVE Quiet'
    BY <1>14 DEF DefineTaken
  <1>15. ASSUME NEW t \in Threads, Await(t) PROVE Quiet'
    BY <1>15 DEF Await
  <1>16. ASSUME NEW t \in Threads, Scan(t) PROVE Quiet'
    BY <1>16 DEF Scan
  <1>17. ASSUME NEW t \in Threads, ScanNothing(t) PROVE Quiet'
    BY <1>17 DEF ScanNothing, Spinning, Forget
  <1>18. ASSUME NEW t \in Threads, NEW n \in Names, DeclareSite(t, n) PROVE Quiet'
    BY <1>18 DEF DeclareSite, Create
  <1>19. ASSUME NEW t \in Threads, SiteDeclared(t) PROVE Quiet'
    BY <1>19 DEF SiteDeclared
  <1>20. ASSUME NEW t \in Threads, Finish(t) PROVE Quiet'
    BY <1>20 DEF Finish
  <1>21. ASSUME NEW t \in Threads, Retry(t) PROVE Quiet'
    BY <1>21 DEF Retry
  <1>22. ASSUME NEW t \in Threads, Install(t) PROVE Quiet'
    BY <1>22 DEF Install, Return, Spinning, Forget
  <1>23. ASSUME NEW t \in Guests, Fill(t) PROVE Quiet'
    BY <1>23 DEF Fill, Forget
  <1>24. ASSUME Pause PROVE Quiet'
    BY <1>24 DEF Pause
  <1>25. ASSUME PauseDone PROVE Quiet'
    BY <1>25 DEF PauseDone
  <1>26. ASSUME FlushCode PROVE Quiet'
    BY <1>26, FlushEndsAll DEF FlushCode
  <1>27. ASSUME NEW t \in Guests, NEW n \in Names, Call(t, n) PROVE Quiet'
    BY <1>27, <1>5, <1>6, <1>7, <1>8 DEF Call, GetOrCreate
  <1>28. ASSUME NEW t \in Translators, NEW n \in Names, Take(t, n) PROVE Quiet'
    BY <1>28 DEF Take
  <1>29. ASSUME NEW t \in Threads, Ahead(t) PROVE Quiet'
    <2>1. at[t] \in Names /\ pc[t] \in {"idle", "taken"}
      BY <1>29 DEF Ahead
    <2>2. t \in Guests \cup Busy
      BY <1>29 DEF Ahead, Threads
    <2>3. UNCHANGED <<memoryVars, title, cache>> /\ background_queued_' \subseteq background_queued_
      BY <1>29 DEF Ahead
    <2>4. CASE NewEntry(t, at[t])
      BY <2>1, <2>2, <2>3, <2>4, <1>5
    <2>5. CASE CompilingEntry(t, at[t])
      BY <2>1, <2>2, <2>3, <2>5, <1>6
    <2>6. CASE ReadyEntry(t, at[t])
      BY <2>1, <2>3, <2>6, <1>7
    <2>7. CASE FailedEntry(t, at[t])
      BY <2>1, <2>3, <2>7, <1>8
    <2>8. QED
      BY <1>29, <2>4, <2>5, <2>6, <2>7 DEF Ahead, GetOrCreate
  <1>30. CASE TerminateTitle
    BY <1>30 DEF TerminateTitle
  <1>31. QED
    BY <1>1, <1>2, <1>3, <1>4, <1>9, <1>10, <1>11, <1>12, <1>13, <1>14, <1>15, <1>16, <1>17,
       <1>18, <1>19, <1>20, <1>21, <1>22, <1>23, <1>24, <1>25, <1>26, <1>27, <1>28, <1>29, <1>30
       DEF Next, Step

\* The initial state has all of it.
LEMMA CodeInit == Init => CodeInv
  <1> SUFFICES ASSUME Init PROVE CodeInv
    OBVIOUS
  <1> USE Defaults, CodeAssumption DEF Init
  <1>1. TypeOK
    BY DEF TypeOK, Labels
  <1>2. Ownership
    BY DEF Ownership, Owns, Compiling
  <1>3. Holding
    BY DEF Holding, Declares, Defines
  <1>4. Symbols
    BY DEF Symbols
  <1>5. Reading
    BY DEF Reading
  <1>6. EntryIsFresh /\ Resolved
    BY DEF EntryIsFresh, Resolved, NoAddress
  <1>7. Quiet
    BY DEF Quiet
  <1>8. QED
    BY <1>1, <1>2, <1>3, <1>4, <1>5, <1>6, <1>7 DEF CodeInv

\* A stuttering step keeps it.
LEMMA CodeStutter == CodeInv /\ UNCHANGED vars => CodeInv'
  <1> SUFFICES ASSUME CodeInv, UNCHANGED vars PROVE CodeInv'
    OBVIOUS
  <1> USE DEF CodeInv, vars
  <1>1. TypeOK'
    BY DEF TypeOK
  <1>2. Ownership' /\ Holding'
    BY DEF Ownership, Owns, Holding, Declares, Defines
  <1>3. Symbols' /\ Resolved'
    BY DEF Symbols, Resolved
  <1>4. Reading'
    BY DEF Reading, Stale, SweptSince
  <1>5. EntryIsFresh' /\ Quiet'
    BY DEF EntryIsFresh, Quiet, Busy
  <1>6. QED
    BY <1>1, <1>2, <1>3, <1>4, <1>5

-----------------------------------------------------------------------------
(* What a thread waits for *)

\* An entry that is compiling has an owner, and who spins, spins for such an entry.
Owned == /\ \A n \in Names : entry[n] = "compiling" => \E t \in Threads : Owns(t, n)
         /\ \A t \in Threads : pc[t] = "spin" => entry[at[t]] = "compiling"

\* A symbol that is being defined has a holder.
Held == \A n \in Names : symbol[n] = "defining" =>
            \E t \in Threads : Declares(t, n) \/ Defines(t, n)

\* A step that ends no translation, and starts no wait for one.
LEMMA OwnedFrame ==
    ASSUME Owned, \A n \in Names : entry'[n] = "compiling" => entry[n] = "compiling",
           \A u \in Threads :
             /\ pc[u] \in Compiling => pc'[u] \in Compiling /\ at'[u] = at[u]
             /\ pc'[u] = "spin" =>
                   pc[u] = "spin" /\ at'[u] = at[u] /\ entry'[at[u]] = entry[at[u]]
    PROVE  Owned'
  BY DEF Owned, Owns

\* A step that moves no holder of a symbol.
LEMMA HeldFrame ==
    ASSUME Held, \A n \in Names : symbol'[n] = "defining" => symbol[n] = "defining",
           \A u \in Threads : pc[u] \in {"declare", "siteDeclare", "scan", "emit"} =>
               pc'[u] = pc[u] /\ at'[u] = at[u] /\ site'[u] = site[u]
    PROVE  Held'
  BY DEF Held, Declares, Defines

\* A translation ends with its entry, and with every wait for the entry.
LEMMA OwnedStep == ASSUME TypeOK, Quiet, Ownership, Owned, Next PROVE Owned'
  <1> USE Defaults, CodeAssumption DEF TypeOK, Quiet, Busy, Ownership, Owned, Owns, Compiling, Goto
  <1>1. ASSUME NEW m \in Memory, Write(m) PROVE Owned'
    BY <1>1 DEF Write
  <1>2. ASSUME NEW t \in Guests, NEW n \in Names, Sweep(t, n) PROVE Owned'
    <2>1. /\ \A k \in Names : entry'[k] = "compiling" <=> entry[k] = "compiling"
          /\ pc[t] = "idle" /\ pc' = [pc EXCEPT ![t] = "swept"] /\ at' = [at EXCEPT ![t] = n]
      BY <1>2 DEF Sweep, InvalidateCodeRange, Dropped
    <2>2. QED
      BY <2>1, OwnedFrame
  <1>3. ASSUME NEW t \in Threads, SweepNext(t) PROVE Owned'
    BY <1>3 DEF SweepNext, InvalidateCodeRange, InvalidateDynamicCalls, Dropped, SameMemory
  <1>4. ASSUME NEW t \in Threads, OnCodeSwept(t) PROVE Owned'
    <2>1. /\ entry' = entry /\ pc[t] = "swept" /\ pc' = [pc EXCEPT ![t] = "idle"]
          /\ \A u \in Threads : u # t => at'[u] = at[u]
      BY <1>4 DEF OnCodeSwept, Forget
    <2>2. QED
      BY <2>1, OwnedFrame
  <1>5. ASSUME NEW t \in Threads, NEW n \in Names, pc[t] \in {"idle", "taken"}, NewEntry(t, n),
                UNCHANGED <<memoryVars, title, cache>>
         PROVE  Owned'
    <2>1. /\ entry' = [entry EXCEPT ![n] = "compiling"]
          /\ pc' = [pc EXCEPT ![t] = "load"] /\ at' = [at EXCEPT ![t] = n]
      BY <1>5 DEF NewEntry
    <2>2. Owns(t, n)'
      BY <2>1
    <2>3. \A u \in Threads, k \in Names : Owns(u, k) => Owns(u, k)'
      BY <1>5, <2>1
    <2>4. \A k \in Names : entry'[k] = "compiling" => \E u \in Threads : Owns(u, k)'
      BY <2>1, <2>2, <2>3
    <2>5. \A u \in Threads : pc'[u] = "spin" => entry'[at'[u]] = "compiling"
      BY <2>1
    <2>6. QED
      BY <2>4, <2>5
  <1>6. ASSUME NEW t \in Threads, NEW n \in Names, pc[t] \in {"idle", "taken"}, CompilingEntry(t, n),
                UNCHANGED <<memoryVars, title, cache>>
         PROVE  Owned'
    <2>1. /\ entry' = entry /\ entry[n] = "compiling"
          /\ pc' = [pc EXCEPT ![t] = "spin"] /\ at' = [at EXCEPT ![t] = n]
      BY <1>6 DEF CompilingEntry
    <2>2. \A u \in Threads, k \in Names : Owns(u, k) => Owns(u, k)'
      BY <1>6, <2>1
    <2>3. \A u \in Threads : pc'[u] = "spin" => entry'[at'[u]] = "compiling"
      BY <2>1
    <2>4. QED
      BY <2>1, <2>2, <2>3
  <1>7. ASSUME NEW t \in Threads, NEW n \in Names, pc[t] \in {"idle", "taken"}, ReadyEntry(t, n),
                UNCHANGED <<memoryVars, title, cache>>
         PROVE  Owned'
    <2>1. /\ entry' = entry /\ pc'[t] \notin Compiling \cup {"spin"}
          /\ \A u \in Threads : u # t => pc'[u] = pc[u] /\ at'[u] = at[u]
      BY <1>7 DEF ReadyEntry, Return
    <2>2. QED
      BY <1>7, <2>1, OwnedFrame
  <1>8. ASSUME NEW t \in Threads, NEW n \in Names, pc[t] \in {"idle", "taken"}, FailedEntry(t, n),
                UNCHANGED <<memoryVars, title, cache>>
         PROVE  Owned'
    BY <1>8 DEF FailedEntry
  <1>9. ASSUME NEW t \in Threads, Load(t) PROVE Owned'
    BY <1>9 DEF Load
  <1>10. ASSUME NEW t \in Threads, LookupNew(t) PROVE Owned'
    BY <1>10 DEF LookupNew, Create
  <1>11. ASSUME NEW t \in Threads, LookupOld(t) PROVE Owned'
    BY <1>11 DEF LookupOld
  <1>12. ASSUME NEW t \in Threads, Declare(t) PROVE Owned'
    BY <1>12 DEF Declare
  <1>13. ASSUME NEW t \in Threads, Define(t) PROVE Owned'
    BY <1>13 DEF Define
  <1>14. ASSUME NEW t \in Threads, DefineTaken(t) PROVE Owned'
    BY <1>14 DEF DefineTaken
  <1>15. ASSUME NEW t \in Threads, Await(t) PROVE Owned'
    BY <1>15 DEF Await
  <1>16. ASSUME NEW t \in Threads, Scan(t) PROVE Owned'
    BY <1>16 DEF Scan
  <1>17. ASSUME NEW t \in Threads, ScanNothing(t) PROVE Owned'
    BY <1>17 DEF ScanNothing, Spinning, Forget
  <1>18. ASSUME NEW t \in Threads, NEW n \in Names, DeclareSite(t, n) PROVE Owned'
    BY <1>18 DEF DeclareSite, Create
  <1>19. ASSUME NEW t \in Threads, SiteDeclared(t) PROVE Owned'
    BY <1>19 DEF SiteDeclared
  <1>20. ASSUME NEW t \in Threads, Finish(t) PROVE Owned'
    BY <1>20 DEF Finish
  <1>21. ASSUME NEW t \in Threads, Retry(t) PROVE Owned'
    BY <1>21 DEF Retry
  <1>22. ASSUME NEW t \in Threads, Install(t) PROVE Owned'
    <2>1. /\ pc[t] = "install" /\ entry' = [entry EXCEPT ![at[t]] = "ready"]
          /\ Return(Spinning(at[t]) \cup {t}, at[t], Stale(t))
          /\ Forget((Spinning(at[t]) \cup {t}) \cap Translators)
      BY <1>22 DEF Install, Stale
    <2>2. \A u \in Threads : u \notin Spinning(at[t]) \cup {t} => pc'[u] = pc[u] /\ at'[u] = at[u]
      BY <2>1 DEF Return, Forget
    <2>3. \A u \in Threads : u \in Spinning(at[t]) \cup {t} => pc'[u] # "spin"
      BY <2>1 DEF Return, Spinning
    <2>4. \A u \in Threads : pc[u] \in Compiling /\ u # t =>
              pc'[u] \in Compiling /\ at'[u] = at[u] /\ at[u] # at[t]
      BY <2>1, <2>2 DEF Spinning
    <2>5. \A u \in Threads : pc'[u] = "spin" => pc[u] = "spin" /\ at'[u] = at[u] /\ at[u] # at[t]
      BY ONLY <2>2, <2>3 DEF Spinning
    <2>6. \A n \in Names : entry'[n] = "compiling" => n # at[t] /\ entry[n] = "compiling"
      BY <2>1
    <2>7. \A n \in Names : entry'[n] = "compiling" => \E u \in Threads : Owns(u, n)'
      <3>1. ASSUME NEW n \in Names, entry'[n] = "compiling"
            PROVE  \E u \in Threads : Owns(u, n)'
        <4>1. PICK u \in Threads : Owns(u, n)
          BY <2>6, <3>1
        <4>2. u # t
          BY <2>6, <3>1, <4>1
        <4>3. QED
          BY <2>4, <4>1, <4>2
      <3>2. QED
        BY <3>1
    <2>8. \A u \in Threads : pc'[u] = "spin" => entry'[at'[u]] = "compiling"
      BY <2>1, <2>5
    <2>9. QED
      BY <2>7, <2>8
  <1>23. ASSUME NEW t \in Guests, Fill(t) PROVE Owned'
    <2>1. /\ entry' = entry /\ t \in Threads /\ pc[t] = "got" /\ pc' = [pc EXCEPT ![t] = "idle"]
          /\ \A u \in Threads : u # t => at'[u] = at[u]
      BY <1>23 DEF Fill, Forget
    <2>2. QED
      BY <2>1, OwnedFrame
  <1>24. ASSUME Pause PROVE Owned'
    BY <1>24 DEF Pause
  <1>25. ASSUME PauseDone PROVE Owned'
    BY <1>25 DEF PauseDone
  <1>26. ASSUME FlushCode PROVE Owned'
    BY <1>26, FlushEndsAll DEF FlushCode
  <1>27. ASSUME NEW t \in Guests, NEW n \in Names, Call(t, n) PROVE Owned'
    BY <1>27, <1>5, <1>6, <1>7, <1>8 DEF Call, GetOrCreate
  <1>28. ASSUME NEW t \in Translators, NEW n \in Names, Take(t, n) PROVE Owned'
    <2>1. /\ entry' = entry /\ t \in Threads /\ pc[t] = "idle"
          /\ pc' = [pc EXCEPT ![t] = "taken"] /\ at' = [at EXCEPT ![t] = n]
      BY <1>28 DEF Take
    <2>2. QED
      BY <2>1, OwnedFrame
  <1>29. ASSUME NEW t \in Threads, Ahead(t) PROVE Owned'
    BY <1>29, <1>5, <1>6, <1>7, <1>8 DEF Ahead, GetOrCreate
  <1>30. CASE TerminateTitle
    BY <1>30 DEF TerminateTitle
  <1>31. QED
    BY <1>1, <1>2, <1>3, <1>4, <1>9, <1>10, <1>11, <1>12, <1>13, <1>14, <1>15, <1>16, <1>17,
       <1>18, <1>19, <1>20, <1>21, <1>22, <1>23, <1>24, <1>25, <1>26, <1>27, <1>28, <1>29, <1>30
       DEF Next, Step

\* No thread leaves a symbol that it holds in "defining".
LEMMA HeldStep ==
    ASSUME TypeOK, Quiet, Ownership, Holding, Symbols, Held, Next PROVE Held'
  <1> USE Defaults, CodeAssumption DEF TypeOK, Quiet, Busy, Ownership, Owns, Holding, Symbols,
     Held, Declares, Defines, Compiling, Goto
  <1>1. ASSUME NEW m \in Memory, Write(m) PROVE Held'
    BY <1>1 DEF Write
  <1>2. ASSUME NEW t \in Guests, NEW n \in Names, Sweep(t, n) PROVE Held'
    BY <1>2 DEF Sweep, InvalidateCodeRange, InvalidateDynamicCalls, Dropped, SameMemory
  <1>3. ASSUME NEW t \in Threads, SweepNext(t) PROVE Held'
    BY <1>3 DEF SweepNext, InvalidateCodeRange, InvalidateDynamicCalls, Dropped, SameMemory
  <1>4. ASSUME NEW t \in Threads, OnCodeSwept(t) PROVE Held'
    <2>1. /\ symbol' = symbol /\ pc[t] = "swept" /\ pc' = [pc EXCEPT ![t] = "idle"]
          /\ \A u \in Threads : u # t => at'[u] = at[u] /\ site'[u] = site[u]
      BY <1>4 DEF OnCodeSwept, Forget
    <2>2. QED
      BY <2>1, HeldFrame
  <1>5. ASSUME NEW t \in Threads, NEW n \in Names, pc[t] \in {"idle", "taken"}, NewEntry(t, n),
                UNCHANGED <<memoryVars, title, cache>>
         PROVE  Held'
    BY <1>5 DEF NewEntry
  <1>6. ASSUME NEW t \in Threads, NEW n \in Names, pc[t] \in {"idle", "taken"}, CompilingEntry(t, n),
                UNCHANGED <<memoryVars, title, cache>>
         PROVE  Held'
    BY <1>6 DEF CompilingEntry
  <1>7. ASSUME NEW t \in Threads, NEW n \in Names, pc[t] \in {"idle", "taken"}, ReadyEntry(t, n),
                UNCHANGED <<memoryVars, title, cache>>
         PROVE  Held'
    BY <1>7 DEF ReadyEntry, Return
  <1>8. ASSUME NEW t \in Threads, NEW n \in Names, pc[t] \in {"idle", "taken"}, FailedEntry(t, n),
                UNCHANGED <<memoryVars, title, cache>>
         PROVE  Held'
    BY <1>8 DEF FailedEntry
  <1>9. ASSUME NEW t \in Threads, Load(t) PROVE Held'
    BY <1>9 DEF Load
  <1>10. ASSUME NEW t \in Threads, LookupNew(t) PROVE Held'
    BY <1>10 DEF LookupNew, Create
  <1>11. ASSUME NEW t \in Threads, LookupOld(t) PROVE Held'
    BY <1>11 DEF LookupOld
  <1>12. ASSUME NEW t \in Threads, Declare(t) PROVE Held'
    <2>1. /\ pc[t] = "declare"
          /\ \A n \in Names : symbol'[n] = "defining" => n # at[t] /\ symbol[n] = "defining"
      BY <1>12 DEF Declare
    <2>2. \A u \in Threads : u # t /\ pc[u] \in {"declare", "siteDeclare", "scan", "emit"} =>
              pc'[u] = pc[u] /\ at'[u] = at[u] /\ site'[u] = site[u]
      BY <1>12 DEF Declare
    <2>3. \A u \in Threads, n \in Names :
              (Declares(u, n) \/ Defines(u, n)) /\ n # at[t] =>
                  (Declares(u, n) \/ Defines(u, n))'
      BY <2>1, <2>2
    <2>4. QED
      BY <2>1, <2>3
  <1>13. ASSUME NEW t \in Threads, Define(t) PROVE Held'
    BY <1>13 DEF Define
  <1>14. ASSUME NEW t \in Threads, DefineTaken(t) PROVE Held'
    BY <1>14 DEF DefineTaken
  <1>15. ASSUME NEW t \in Threads, Await(t) PROVE Held'
    BY <1>15 DEF Await
  <1>16. ASSUME NEW t \in Threads, Scan(t) PROVE Held'
    BY <1>16 DEF Scan
  <1>17. ASSUME NEW t \in Threads, ScanNothing(t) PROVE Held'
    <2>1. /\ pc[t] = "scan"
          /\ \A n \in Names : symbol'[n] = "defining" => n # at[t] /\ symbol[n] = "defining"
      BY <1>17 DEF ScanNothing, Spinning, Forget
    <2>2. \A u \in Threads : u # t /\ pc[u] \in {"declare", "siteDeclare", "scan", "emit"} =>
              pc'[u] = pc[u] /\ at'[u] = at[u] /\ site'[u] = site[u]
      BY <1>17 DEF ScanNothing, Spinning, Forget
    <2>3. \A u \in Threads, n \in Names :
              (Declares(u, n) \/ Defines(u, n)) /\ n # at[t] =>
                  (Declares(u, n) \/ Defines(u, n))'
      BY <2>1, <2>2
    <2>4. QED
      BY <2>1, <2>3
  <1>18. ASSUME NEW t \in Threads, NEW n \in Names, DeclareSite(t, n) PROVE Held'
    BY <1>18 DEF DeclareSite, Create
  <1>19. ASSUME NEW t \in Threads, SiteDeclared(t) PROVE Held'
    BY <1>19 DEF SiteDeclared
  <1>20. ASSUME NEW t \in Threads, Finish(t) PROVE Held'
    <2>1. /\ pc[t] = "emit"
          /\ \A n \in Names : symbol'[n] = "defining" => n # at[t] /\ symbol[n] = "defining"
      BY <1>20 DEF Finish
    <2>2. \A u \in Threads : u # t /\ pc[u] \in {"declare", "siteDeclare", "scan", "emit"} =>
              pc'[u] = pc[u] /\ at'[u] = at[u] /\ site'[u] = site[u]
      BY <1>20 DEF Finish
    <2>3. \A u \in Threads, n \in Names :
              (Declares(u, n) \/ Defines(u, n)) /\ n # at[t] =>
                  (Declares(u, n) \/ Defines(u, n))'
      BY <2>1, <2>2
    <2>4. QED
      BY <2>1, <2>3
  <1>21. ASSUME NEW t \in Threads, Retry(t) PROVE Held'
    BY <1>21 DEF Retry
  <1>22. ASSUME NEW t \in Threads, Install(t) PROVE Held'
    <2>1. /\ symbol' = symbol /\ pc[t] = "install"
          /\ Return(Spinning(at[t]) \cup {t}, at[t], Stale(t))
          /\ Forget((Spinning(at[t]) \cup {t}) \cap Translators)
      BY <1>22 DEF Install, Stale
    <2>2. \A u \in Threads : u \notin Spinning(at[t]) \cup {t} =>
              pc'[u] = pc[u] /\ at'[u] = at[u] /\ site'[u] = site[u]
      BY <2>1 DEF Return, Forget
    <2>3. \A u \in Spinning(at[t]) \cup {t} :
              pc[u] \notin {"declare", "siteDeclare", "scan", "emit"}
      BY <2>1 DEF Spinning
    <2>4. QED
      BY <2>1, <2>2, <2>3, HeldFrame
  <1>23. ASSUME NEW t \in Guests, Fill(t) PROVE Held'
    <2>1. /\ symbol' = symbol /\ t \in Threads /\ pc[t] = "got"
          /\ pc' = [pc EXCEPT ![t] = "idle"]
          /\ \A u \in Threads : u # t => at'[u] = at[u] /\ site'[u] = site[u]
      BY <1>23 DEF Fill, Forget
    <2>2. QED
      BY <2>1, HeldFrame
  <1>24. ASSUME Pause PROVE Held'
    BY <1>24 DEF Pause
  <1>25. ASSUME PauseDone PROVE Held'
    BY <1>25 DEF PauseDone
  <1>26. ASSUME FlushCode PROVE Held'
    BY <1>26, FlushEndsAll DEF FlushCode
  <1>27. ASSUME NEW t \in Guests, NEW n \in Names, Call(t, n) PROVE Held'
    BY <1>27, <1>5, <1>6, <1>7, <1>8 DEF Call, GetOrCreate
  <1>28. ASSUME NEW t \in Translators, NEW n \in Names, Take(t, n) PROVE Held'
    BY <1>28 DEF Take
  <1>29. ASSUME NEW t \in Threads, Ahead(t) PROVE Held'
    BY <1>29, <1>5, <1>6, <1>7, <1>8 DEF Ahead, GetOrCreate
  <1>30. CASE TerminateTitle
    BY <1>30 DEF TerminateTitle
  <1>31. QED
    BY <1>1, <1>2, <1>3, <1>4, <1>9, <1>10, <1>11, <1>12, <1>13, <1>14, <1>15, <1>16, <1>17,
       <1>18, <1>19, <1>20, <1>21, <1>22, <1>23, <1>24, <1>25, <1>26, <1>27, <1>28, <1>29, <1>30
       DEF Next, Step

-----------------------------------------------------------------------------
(* The theorems *)

\* The inductive invariant: who owns a translation and its symbol, and that what a
\* translation has read is fresh or known to be stale.
THEOREM CodeInvariant == Spec => []CodeInv
  <1>1. CodeInv /\ [Next]_vars => CodeInv'
    <2>1. CodeInv /\ Next => CodeInv'
      BY TypeStep, OwnershipStep, HoldingStep, SymbolsStep, ReadingStep, FreshStep, ResolvedStep,
         QuietStep DEF CodeInv
    <2>2. QED
      BY <2>1, CodeStutter
  <1>2. QED
    BY CodeInit, <1>1, PTL DEF Spec

\* Every variable keeps its type.
THEOREM CodeTypes == Spec => []TypeOK
  <1>1. CodeInv => TypeOK
    BY DEF CodeInv
  <1>2. QED
    BY CodeInvariant, <1>1, PTL

\* A call never finds an entry ready whose code was translated from before the last
\* sweep of its memory, but one that the last attempt installed.
THEOREM EntriesAreFresh == Spec => []EntryIsFresh
  <1>1. CodeInv => EntryIsFresh
    BY DEF CodeInv
  <1>2. QED
    BY CodeInvariant, <1>1, PTL

\* Nor does a call cache give it such code, but what was resolved before the sweep
\* and stored after it.
THEOREM CachedCodeIsFresh == Spec => []CachedIsFresh
  <1>1. CodeInv => CachedIsFresh
    BY DEF CodeInv, Resolved, EntryIsFresh, CachedIsFresh
  <1>2. QED
    BY CodeInvariant, <1>1, PTL

\* No translator works or has work while a title's memory and code are freed.
THEOREM PauseIsQuiet == Spec => []PausedIsQuiet
  <1>1. CodeInv => PausedIsQuiet
    BY DEF CodeInv, Quiet, PausedIsQuiet
  <1>2. QED
    BY CodeInvariant, <1>1, PTL

\* Translations have owners and symbols that are defined have holders at all times.
LEMMA Attended == Spec => [](CodeInv /\ Owned /\ Held)
  <1>1. Init => Owned /\ Held
    BY Defaults DEF Init, Owned, Held
  <1>2. CodeInv /\ Owned /\ Held /\ [Next]_vars => (Owned /\ Held)'
    <2>1. CodeInv /\ Owned /\ Held /\ Next => (Owned /\ Held)'
      BY OwnedStep, HeldStep DEF CodeInv
    <2>2. Owned /\ Held /\ UNCHANGED vars => (Owned /\ Held)'
      BY DEF Owned, Held, Owns, Declares, Defines, vars
    <2>3. QED
      BY <2>1, <2>2
  <1>3. QED
    BY CodeInvariant, <1>1, <1>2, PTL DEF Spec

\* A running thread that spins for an entry waits for another running one that compiles
\* it, and one that waits for a symbol for a running caller that is about to declare it.
WaitsEnd == \A t \in Threads \ Parked :
    /\ pc[t] = "spin" => \E u \in Threads \ Parked : u # t /\ Owns(u, at[t])
    /\ pc[t] = "await" /\ symbol[at[t]] = "defining" =>
          \E u \in Threads \ Parked : pc[u] = "siteDeclare" /\ site[u] = at[t]

\* No translation is waited for that nobody makes, and no circle of threads waits for
\* each other: the spin in EntryTable::GetOrCreate waits for a translation, that at
\* most for the symbol of its own function (Module::DefineSymbol), and the thread
\* that has the symbol, the translator of a caller, waits for nobody.  Nor does a
\* thread that runs wait for one that the end of the title has parked.
THEOREM WaitsEndHolds == Spec => []WaitsEnd
  <1>1. CodeInv /\ Owned /\ Held => WaitsEnd
    <2> SUFFICES
        ASSUME CodeInv, Owned, Held, NEW t \in Threads \ Parked, pc[t] \in {"spin", "await"}
        PROVE  /\ pc[t] = "spin" => \E u \in Threads \ Parked : u # t /\ Owns(u, at[t])
               /\ pc[t] = "await" /\ symbol[at[t]] = "defining" =>
                     \E u \in Threads \ Parked : pc[u] = "siteDeclare" /\ site[u] = at[t]
      BY DEF WaitsEnd
    <2> Parked = {}
      BY DEF CodeInv, TypeOK, Quiet, Busy, Parked, Threads
    <2>1. ASSUME pc[t] = "spin" PROVE \E u \in Threads : u # t /\ Owns(u, at[t])
      BY <2>1 DEF CodeInv, TypeOK, Owned, Owns, Compiling
    <2>2. ASSUME pc[t] = "await", symbol[at[t]] = "defining"
          PROVE  \E u \in Threads : pc[u] = "siteDeclare" /\ site[u] = at[t]
      <3>1. PICK u \in Threads : Declares(u, at[t]) \/ Defines(u, at[t])
        BY <2>2 DEF CodeInv, TypeOK, Held
      <3>2. CASE pc[u] = "siteDeclare" /\ site[u] = at[t]
        BY <3>2
      <3>3. CASE pc[u] \in {"declare", "scan", "emit", "siteDeclare"} /\ at[u] = at[t]
        <4>1. Owns(u, at[t]) /\ Owns(t, at[t])
          BY <2>2, <3>3 DEF Owns, Compiling
        <4>2. u = t
          BY <4>1 DEF CodeInv, TypeOK, Ownership
        <4>3. QED
          BY <2>2, <3>3, <4>2
      <3>4. QED
        BY <3>1, <3>2, <3>3 DEF Declares, Defines
    <2>3. QED
      BY <2>1, <2>2
  <1>2. QED
    BY Attended, <1>1, PTL

-----------------------------------------------------------------------------
(* The life of an entry *)

\* A thread that runs has the translation of n in hand.
Translated(n) == \E t \in Threads \ Parked : Owns(t, n)

Entry(n) == INSTANCE CodeEntry
                WITH status <- entry[n], function <- code[n], translating <- Translated(n)

\* While a title runs, an entry that is compiling has its translator; the end of the
\* title leaves none.
LEMMA TranslatedEntry ==
    ASSUME TypeOK, Quiet, Ownership, Owned, NEW n \in Names
    PROVE  Translated(n) <=> entry[n] = "compiling" /\ title # "parked"
  <1>1. CASE title = "parked"
    BY <1>1 DEF TypeOK, Quiet, Busy, Translated, Owns, Compiling, Parked, Threads
  <1>2. CASE title # "parked"
    BY <1>2 DEF Ownership, Owned, Translated, Owns, Parked
  <1>3. QED
    BY <1>1, <1>2

\* The same of the next state.
LEMMA TranslatedNext ==
    ASSUME TypeOK', Quiet', Ownership', Owned', NEW n \in Names
    PROVE  Translated(n)' <=> entry'[n] = "compiling" /\ title' # "parked"
  <1>1. CASE title' = "parked"
    BY <1>1 DEF TypeOK, Quiet, Busy, Translated, Owns, Compiling, Parked, Threads
  <1>2. CASE title' # "parked"
    BY <1>2 DEF Ownership, Owned, Translated, Owns, Parked
  <1>3. QED
    BY <1>1, <1>2

\* What a step may do to the entry of n, but for FlushCode.
Moves(n) == \/ entry'[n] = entry[n] /\ code'[n] = code[n]
            \/ entry[n] = "none" /\ entry'[n] = "compiling" /\ code'[n] = 0
            \/ entry[n] = "compiling" /\ entry'[n] = "ready" /\ code'[n] \in Nat
            \/ entry[n] = "compiling" /\ entry'[n] = "failed" /\ code'[n] = code[n]
            \/ entry[n] = "ready" /\ entry'[n] = "none" /\ code'[n] = code[n]

\* A sweep drops ready entries, and leaves the others as they are.
LEMMA SweptEntry ==
    ASSUME TypeOK, NEW n \in Names, NEW k \in Names, InvalidateCodeRange(k)
    PROVE  Moves(n)
  BY DEF TypeOK, InvalidateCodeRange, Dropped, Moves

\* A call changes no entry but one that it finds missing.
LEMMA CalledEntry ==
    ASSUME TypeOK, NEW n \in Names, NEW t, NEW k \in Names, GetOrCreate(t, k)
    PROVE  Moves(n)
  BY DEF TypeOK, GetOrCreate, NewEntry, CompilingEntry, ReadyEntry, FailedEntry, Moves

LEMMA EntryStep ==
    ASSUME TypeOK, TypeOK', Ownership, Next, ~FlushCode, NEW n \in Names
    PROVE  Moves(n)
  <1> USE Defaults
  <1>1. ASSUME UNCHANGED <<entry, code>> PROVE Moves(n)
    BY <1>1 DEF Moves
  <1>2. ASSUME NEW t \in Guests, NEW k \in Names, Sweep(t, k) \/ Call(t, k) PROVE Moves(n)
    BY <1>2, SweptEntry, CalledEntry DEF Sweep, Call
  <1>3. ASSUME NEW t \in Threads, SweepNext(t) PROVE Moves(n)
    <2>1. PICK k \in unswept[t] : InvalidateCodeRange(k)
      BY <1>3 DEF SweepNext
    <2>2. k \in Names
      BY <2>1 DEF TypeOK
    <2>3. QED
      BY <2>1, <2>2, SweptEntry
  <1>4. ASSUME NEW t \in Threads, Ahead(t) PROVE Moves(n)
    BY <1>4, CalledEntry DEF Ahead, TypeOK
  <1>5. ASSUME NEW t \in Threads, ScanNothing(t) PROVE Moves(n)
    <2>1. entry[at[t]] = "compiling" /\ at[t] \in Names
      BY <1>5 DEF TypeOK, Ownership, Compiling, ScanNothing
    <2>2. entry' = [entry EXCEPT ![at[t]] = "failed"] /\ code' = code
      BY <1>5 DEF ScanNothing
    <2>3. QED
      BY <2>1, <2>2 DEF TypeOK, Moves
  <1>6. ASSUME NEW t \in Threads, Install(t) PROVE Moves(n)
    <2>1. entry[at[t]] = "compiling" /\ at[t] \in Names
      BY <1>6 DEF TypeOK, Ownership, Compiling, Install
    <2>2. /\ entry' = [entry EXCEPT ![at[t]] = "ready"]
          /\ code' = [code EXCEPT ![at[t]] = symbolCode[at[t]]]
      BY <1>6 DEF Install
    <2>3. QED
      BY <2>1, <2>2 DEF TypeOK, Moves
  <1>7. ASSUME NEW t \in Threads, Step(t) PROVE Moves(n)
    <2>1. CASE SweepNext(t) \/ Ahead(t) \/ ScanNothing(t) \/ Install(t)
      BY <1>3, <1>4, <1>5, <1>6, <2>1
    <2>2. CASE ~(SweepNext(t) \/ Ahead(t) \/ ScanNothing(t) \/ Install(t))
      <3>1. UNCHANGED <<entry, code>>
        BY <1>7, <2>2 DEF Step, OnCodeSwept, Load, LookupNew, LookupOld, Declare, Define,
           DefineTaken, Await, Scan, DeclareSite, SiteDeclared, Finish, Retry
      <3>2. QED
        BY <1>1, <3>1
    <2>3. QED
      BY <2>1, <2>2
  <1>8. ASSUME \/ \E m \in Memory : Write(m)
               \/ \E t \in Translators, k \in Names : Take(t, k)
               \/ \E t \in Guests : Fill(t)
               \/ Pause \/ PauseDone \/ TerminateTitle
        PROVE  Moves(n)
    <2>1. UNCHANGED <<entry, code>>
      BY <1>8 DEF Write, Take, Fill, Pause, PauseDone, TerminateTitle
    <2>2. QED
      BY <1>1, <2>1
  <1>9. QED
    BY <1>2, <1>7, <1>8 DEF Next

\* No thread is at work while the guests are parked: the next step is FlushCode.
LEMMA ParkedStep ==
    ASSUME TypeOK, Quiet, Next
    PROVE  \/ FlushCode
           \/ TerminateTitle
           \/ title # "parked" /\ title' # "parked"
  <1>1. ASSUME title = "parked" PROVE FlushCode
    <2>1. \A t \in Threads \ Parked : pc[t] = "idle"
      BY <1>1 DEF TypeOK, Quiet, Busy, Parked, Threads
    <2>2. \A t \in Threads \ Parked : ~Step(t)
      BY <2>1 DEF Step, SweepNext, OnCodeSwept, Ahead, Load, LookupNew, LookupOld, Declare, Define,
         DefineTaken, Await, Scan, ScanNothing, DeclareSite, SiteDeclared, Finish, Retry, Install
    <2>3. QED
      BY <1>1, <2>2 DEF Next, Write, Take, Pause, PauseDone, TerminateTitle, Parked
  <1>2. ASSUME title # "parked", ~TerminateTitle PROVE title' # "parked"
    BY <1>2 DEF Next, Step, Write, Sweep, InvalidateCodeRange, Call, Take, Fill, Pause, PauseDone,
       FlushCode, SweepNext, OnCodeSwept, Ahead, Load, LookupNew, LookupOld, Declare, Define,
       DefineTaken, Await, Scan, ScanNothing, DeclareSite, SiteDeclared, Finish, Retry, Install
  <1>3. QED
    BY <1>1, <1>2

\* Every entry has the life that its callers rely on: the one thread that translates it
\* publishes or fails it, no sweep takes it from under that thread, a ready entry goes
\* only as a whole, and a failed one stays until the title ends.  FlushCode deletes
\* entries that are still compiling, too, but none that a thread would still publish
\* into: the translators have paused by then, and the guests are parked.
THEOREM ImplementsCodeEntry == ASSUME NEW n \in Names PROVE Spec => Entry(n)!Spec
  <1> DEFINE Inv == CodeInv /\ Owned /\ Held
  <1>1. Init => Entry(n)!Init
    BY DEF Init, Entry!Init, Translated, Owns, Compiling
  <1>2. Inv /\ Inv' /\ [Next]_vars => [Entry(n)!Next]_(Entry(n)!entryVars)
    <2> SUFFICES ASSUME Inv, Inv', [Next]_vars
                 PROVE  \/ Entry(n)!Next
                        \/ UNCHANGED <<entry[n], code[n], Translated(n)>>
      BY DEF Entry!entryVars
    <2> USE DEF CodeInv
    <2>1. Translated(n) <=> entry[n] = "compiling" /\ title # "parked"
      BY TranslatedEntry
    <2>2. Translated(n)' <=> entry'[n] = "compiling" /\ title' # "parked"
      BY TranslatedNext
    <2>3. CASE UNCHANGED vars
      BY <2>3 DEF vars, memoryVars, tableVars, queueVars, threadVars, localVars, guestVars,
         Translated, Owns, Parked
    <2>4. CASE FlushCode
      <3>1. entry'[n] = "none" /\ code'[n] = 0 /\ title = "parked" /\ title' = "running"
        BY <2>4 DEF FlushCode
      <3>2. ~Translated(n) /\ ~Translated(n)'
        BY <2>1, <2>2, <3>1
      <3>3. Entry(n)!Clear
        BY <3>1, <3>2 DEF Entry!Clear, Translated
      <3>4. QED
        BY <3>3 DEF Entry!Next
    <2>5. CASE TerminateTitle
      <3>1. entry' = entry /\ code' = code /\ title = "paused" /\ title' = "parked"
        BY <2>5 DEF TerminateTitle, tableVars
      <3>2. ~Translated(n)'
        BY <2>2, <3>1
      <3>3. CASE entry[n] = "compiling"
        <4>1. Entry(n)!Park
          BY <2>1, <3>1, <3>2, <3>3 DEF Entry!Park
        <4>2. QED
          BY <4>1 DEF Entry!Next
      <3>4. CASE entry[n] # "compiling"
        BY <2>1, <3>1, <3>2, <3>4 DEF Translated
      <3>5. QED
        BY <3>3, <3>4
    <2>6. CASE Next /\ ~FlushCode /\ title # "parked" /\ title' # "parked"
      <3>1. Translated(n) <=> entry[n] = "compiling"
        BY <2>1, <2>6
      <3>2. Translated(n)' <=> entry'[n] = "compiling"
        BY <2>2, <2>6
      <3>3. Moves(n)
        BY <2>6, EntryStep
      <3>4. CASE entry'[n] = entry[n] /\ code'[n] = code[n]
        BY <3>1, <3>2, <3>4 DEF Translated
      <3>5. CASE entry[n] = "none" /\ entry'[n] = "compiling" /\ code'[n] = 0
        BY <3>1, <3>2, <3>5 DEF Entry!Next, Entry!Create
      <3>6. CASE entry[n] = "compiling" /\ entry'[n] = "ready" /\ code'[n] \in Nat
        BY <3>1, <3>2, <3>6 DEF Entry!Next, Entry!Publish
      <3>7. CASE entry[n] = "compiling" /\ entry'[n] = "failed" /\ code'[n] = code[n]
        BY <3>1, <3>2, <3>7 DEF Entry!Next, Entry!Fail
      <3>8. CASE entry[n] = "ready" /\ entry'[n] = "none" /\ code'[n] = code[n]
        BY <3>1, <3>2, <3>8 DEF Entry!Next, Entry!Drop, Translated
      <3>9. QED
        BY <3>3, <3>4, <3>5, <3>6, <3>7, <3>8 DEF Moves
    <2>7. QED
      BY <2>3, <2>4, <2>5, <2>6, ParkedStep
  <1>3. QED
    BY Attended, <1>1, <1>2, PTL DEF Spec, Entry!Spec
=============================================================================
