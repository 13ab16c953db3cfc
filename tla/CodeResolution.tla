--------------------------- MODULE CodeResolution ---------------------------
(***************************************************************************)
(* How the processor resolves calls into code that a title writes itself:  *)
(* the table of entry points (cpu/entry_table.cc), the symbols of the      *)
(* dynamic module (cpu/module.cc), translation on guest threads and ahead  *)
(* of them on background threads, the sweeps by which a title announces    *)
(* new code, and the end of a title (cpu/processor.cc).                    *)
(*                                                                         *)
(* A name is a guest address that functions are called by; several names   *)
(* may be windows on the same memory.  The code in memory is a version,    *)
(* the number of times it was written, and 0 while there is none: the      *)
(* scanner finds no instruction there.  Version 0 also stands for the      *)
(* missing code of a function that was never translated.                   *)
(*                                                                         *)
(* A step is one critical section of the global lock or of                 *)
(* background_mutex_, or one access outside of both.                       *)
(***************************************************************************)
EXTENDS Integers, FiniteSets

CONSTANTS
    Names, Memory,        \* guest addresses, and the memory behind them
    MemoryOf,             \* CodeRangeKey: the memory behind each name
    Guests, Translators,  \* guest threads; background translator threads
    MaxAttempts,          \* kMaxAttempts, 4 in the code
    RecordCount,          \* kSweepRecordCount, 256 in the code
    MaxWrites, MaxSweeps  \* bounds on what the guest writes and sweeps

ASSUME CodeAssumption == /\ MemoryOf \in [Names -> Memory]
                         /\ Names # {} /\ Guests \cap Translators = {}
                         /\ MaxAttempts \in Nat \ {0} /\ RecordCount \in Nat \ {0}
                         /\ MaxWrites \in Nat /\ MaxSweeps \in Nat

VARIABLES
    memory,                \* the version of the code in each memory
    sweep_generation_,     \* the number of sweeps
    sweep_records_,        \* the last RecordCount of them: generation and memory
    entry,                 \* Entry::status of each name, "none" if it has no entry
    code,                  \* Entry::function: the version that was translated
    symbol, symbolCode,    \* Symbol::status in the module's map; the translated version
    background_queued_,    \* names queued for translation; the order is left open
    title,                 \* "running"; "pausing", "paused" and "parked" on its way to FlushCode
    pc, at,                \* where a thread stands, and the name it resolves or sweeps
    unswept,               \* the names it has yet to sweep
    generation, attempt,   \* locals of CompileEntry
    read,                  \* the oldest version that its translation has read
    site,                  \* the call target whose symbol it declares
    got,                   \* what a guest's resolution has returned
    cache,                 \* each guest's dynamic_call_cache
    swept,                 \* history: the version in memory at its last sweep
    forced                 \* history: the entry was installed by the last attempt

memoryVars == <<memory, sweep_generation_, sweep_records_, swept>>
tableVars  == <<entry, code, symbol, symbolCode, forced>>
queueVars  == <<background_queued_, title>>
localVars  == <<at, unswept, generation, attempt, read, site>>
threadVars == <<pc, localVars>>
guestVars  == <<got, cache>>
vars       == <<memoryVars, tableVars, queueVars, threadVars, guestVars>>

Threads == Guests \cup Translators

\* load to install: inside CompileEntry.  spin: in GetOrCreate, for another thread's
\* translation.  taken: a translator has taken a name from the queue.  got: before the
\* store into the call cache.  swept: between the calls of KeSweepIcacheRange.
Compiling == {"load", "lookup", "declare", "define", "await", "scan", "emit", "siteDeclare",
              "install"}
Labels    == Compiling \cup {"idle", "spin", "taken", "got", "swept"}

\* A host address: the version translated there, 0 for none.  History: late, if a
\* sweep came between its resolution and its use, or the entry was forced.
NoAddress == [version |-> 0, late |-> FALSE]

Busy            == {t \in Translators : pc[t] # "idle"}      \* background_busy_
Parked          == IF title = "parked" THEN Guests ELSE {}   \* suspended, for good
SameMemory(n)   == {m \in Names : MemoryOf[m] = MemoryOf[n]}
Goto(t, label)  == pc' = [pc EXCEPT ![t] = label]
AnyName         == CHOOSE n \in Names : TRUE

\* The locals of threads that are done.
Forget(threads) ==
    /\ at' = [t \in Threads |-> IF t \in threads THEN AnyName ELSE at[t]]
    /\ site' = [t \in Threads |-> IF t \in threads THEN AnyName ELSE site[t]]
    /\ unswept' = [t \in Threads |-> IF t \in threads THEN {} ELSE unswept[t]]
    /\ generation' = [t \in Threads |-> IF t \in threads THEN 0 ELSE generation[t]]
    /\ attempt' = [t \in Threads |-> IF t \in threads THEN 0 ELSE attempt[t]]
    /\ read' = [t \in Threads |-> IF t \in threads THEN 0 ELSE read[t]]

Init == /\ memory = [m \in Memory |-> 0] /\ swept = [m \in Memory |-> 0]
        /\ sweep_generation_ = 0 /\ sweep_records_ = {}
        /\ entry = [n \in Names |-> "none"] /\ code = [n \in Names |-> 0]
        /\ symbol = [n \in Names |-> "none"] /\ symbolCode = [n \in Names |-> 0]
        /\ forced = [n \in Names |-> FALSE]
        /\ background_queued_ = {} /\ title = "running"
        /\ pc = [t \in Threads |-> "idle"]
        /\ at = [t \in Threads |-> AnyName] /\ site = [t \in Threads |-> AnyName]
        /\ unswept = [t \in Threads |-> {}] /\ generation = [t \in Threads |-> 0]
        /\ attempt = [t \in Threads |-> 0] /\ read = [t \in Threads |-> 0]
        /\ got = [t \in Guests |-> NoAddress]
        /\ cache = [t \in Guests |-> [n \in Names |-> NoAddress]]

-----------------------------------------------------------------------------
(* The guest writes code and sweeps it. *)

Write(m) == /\ memory[m] < MaxWrites /\ title # "parked"
            /\ memory' = [memory EXCEPT ![m] = @ + 1]
            /\ UNCHANGED <<sweep_generation_, sweep_records_, swept, tableVars, queueVars,
                           threadVars, guestVars>>

\* QueueBackgroundTranslation of each name: refused while the title ends.
Queue(names) == background_queued_' = IF title = "running" THEN background_queued_ \cup names
                                                            ELSE background_queued_

\* What DeleteRange drops: the ready entries compiled from the memory of n, by their
\* address or, under another name, by the pieces that RecordDynamicCode keeps of
\* each.  An entry that is compiling or has failed is passed over.
Dropped(n) == {m \in SameMemory(n) : entry[m] = "ready"}

\* A mutation: the call caches are emptied of the swept range alone.
InvalidateRange(n) == cache' = [t \in Guests |-> [cache[t] EXCEPT ![n] = NoAddress]]

\* The call caches are emptied of the swept range and of each function dropped.
InvalidateDynamicCalls(n) ==
    cache' = [t \in Guests |-> [m \in Names |-> IF m \in Dropped(n) \cup {n} THEN NoAddress
                                                                         ELSE cache[t][m]]]

\* InvalidateCodeRange: record the sweep, drop what was compiled from the memory,
\* let the module forget it, translate it again ahead of its next call, and empty
\* the call caches.
InvalidateCodeRange(n) ==
    /\ sweep_generation_' = sweep_generation_ + 1
    /\ sweep_records_' = {r \in sweep_records_ : r.generation > sweep_generation_' - RecordCount}
                         \cup {[generation |-> sweep_generation_', memory |-> MemoryOf[n]]}
    /\ swept' = [swept EXCEPT ![MemoryOf[n]] = memory[MemoryOf[n]]]
    /\ entry' = [m \in Names |-> IF m \in Dropped(n) THEN "none" ELSE entry[m]]
    /\ symbol' = [m \in Names |-> IF m \in Dropped(n) THEN "none" ELSE symbol[m]]
    /\ Queue(Dropped(n))
    /\ InvalidateDynamicCalls(n)
    /\ got' = [t \in Guests |-> IF pc[t] = "got" /\ at[t] \in SameMemory(n)
                                THEN [version |-> got[t].version, late |-> TRUE] ELSE got[t]]
    /\ UNCHANGED <<memory, code, symbolCode, forced, title>>

\* KeSweepIcacheRange: the name it was given, then the kernel's and the user's name
\* of the same memory, each under the lock on its own.
Sweep(t, n) == /\ pc[t] = "idle" /\ sweep_generation_ < MaxSweeps
               /\ InvalidateCodeRange(n)
               /\ \E names \in SUBSET (SameMemory(n) \ {n}) :
                      unswept' = [unswept EXCEPT ![t] = names]
               /\ at' = [at EXCEPT ![t] = n]
               /\ Goto(t, "swept")
               /\ UNCHANGED <<generation, attempt, read, site>>

SweepNext(t) == /\ pc[t] = "swept"
                /\ \E n \in unswept[t] : /\ InvalidateCodeRange(n)
                                       /\ unswept' = [unswept EXCEPT ![t] = @ \ {n}]
                /\ UNCHANGED <<pc, at, generation, attempt, read, site>>

\* OnCodeSwept queues the name that the guest calls the code by; it may find none.
OnCodeSwept(t) == /\ pc[t] = "swept" /\ unswept[t] = {}
                  /\ \E names \in {{}} \cup {{n} : n \in SameMemory(at[t])} : Queue(names)
                  /\ Goto(t, "idle") /\ Forget({t})
                  /\ UNCHANGED <<memoryVars, tableVars, title, guestVars>>

-----------------------------------------------------------------------------
(* Resolving a name: EntryTable::GetOrCreate, and CompileEntry of a new entry. *)

\* The entry of n gives its result to threads, the version there: a guest stores it
\* in its call cache next, a translator is done.
Return(threads, n, late) ==
    /\ pc' = [t \in Threads |-> IF t \in threads THEN IF t \in Guests THEN "got" ELSE "idle"
                                                 ELSE pc[t]]
    /\ got' = [t \in Guests |-> IF t \in threads THEN [version |-> code'[n], late |-> late]
                                                 ELSE got[t]]

\* The four answers of GetOrCreate.
NewEntry(t, n) == /\ entry[n] = "none"
                  /\ entry' = [entry EXCEPT ![n] = "compiling"]
                  /\ code' = [code EXCEPT ![n] = 0]
                  /\ at' = [at EXCEPT ![t] = n] /\ attempt' = [attempt EXCEPT ![t] = 1]
                  /\ Goto(t, "load")
                  /\ UNCHANGED <<symbol, symbolCode, forced, unswept, generation, read, site, got>>

CompilingEntry(t, n) == /\ entry[n] = "compiling"
                        /\ at' = [at EXCEPT ![t] = n]
                        /\ Goto(t, "spin")
                        /\ UNCHANGED <<tableVars, unswept, generation, attempt, read, site, got>>

ReadyEntry(t, n) == /\ entry[n] = "ready"
                    /\ at' = [at EXCEPT ![t] = IF t \in Guests THEN n ELSE AnyName]
                    /\ UNCHANGED <<tableVars, unswept, generation, attempt, read, site>>
                    /\ Return({t}, n, forced[n])

FailedEntry(t, n) == /\ entry[n] = "failed"
                     /\ at' = [at EXCEPT ![t] = AnyName]
                     /\ Goto(t, "idle")
                     /\ UNCHANGED <<tableVars, unswept, generation, attempt, read, site, got>>

GetOrCreate(t, n) == \/ NewEntry(t, n) \/ CompilingEntry(t, n)
                     \/ ReadyEntry(t, n) \/ FailedEntry(t, n)

\* A call that the guest's call cache does not answer.
Call(t, n) == /\ pc[t] = "idle" /\ cache[t][n].version = 0
              /\ GetOrCreate(t, n)
              /\ UNCHANGED <<memoryVars, queueVars, cache>>

\* BackgroundTranslationMain: a name is taken, and then translated if it has no entry.
Take(t, n) == /\ pc[t] = "idle" /\ title = "running" /\ n \in background_queued_
              /\ background_queued_' = background_queued_ \ {n}
              /\ at' = [at EXCEPT ![t] = n]
              /\ Goto(t, "taken")
              /\ UNCHANGED <<memoryVars, tableVars, title, unswept, generation, attempt, read, site,
                             guestVars>>

Ahead(t) == /\ pc[t] = "taken"
            /\ GetOrCreate(t, at[t])
            /\ UNCHANGED <<memoryVars, queueVars, cache>>

Load(t) == /\ pc[t] = "load"
           /\ generation' = [generation EXCEPT ![t] = sweep_generation_]
           /\ Goto(t, "lookup")
           /\ UNCHANGED <<memoryVars, tableVars, queueVars, at, unswept, attempt, read, site,
                          guestVars>>

\* Module::DeclareSymbol; a new symbol starts out as "defining".
Create(n) == /\ symbol' = [symbol EXCEPT ![n] = "defining"]
             /\ symbolCode' = [symbolCode EXCEPT ![n] = 0]

LookupNew(t) == /\ pc[t] = "lookup" /\ symbol[at[t]] = "none"
                /\ Create(at[t])
                /\ Goto(t, "declare")
                /\ UNCHANGED <<memoryVars, entry, code, forced, queueVars, localVars, guestVars>>

LookupOld(t) == /\ pc[t] = "lookup" /\ symbol[at[t]] # "none"
                /\ Goto(t, "define")
                /\ UNCHANGED <<memoryVars, tableVars, queueVars, localVars, guestVars>>

\* Processor::LookupFunction goes on, without the lock.
Declare(t) == /\ pc[t] = "declare"
              /\ symbol' = [symbol EXCEPT ![at[t]] = "declared"]
              /\ Goto(t, "define")
              /\ UNCHANGED <<memoryVars, entry, code, symbolCode, forced, queueVars, localVars,
                             guestVars>>

\* Module::DefineSymbol: claim a declared symbol, or wait while another thread has it.
Define(t) == /\ pc[t] = "define" /\ symbol[at[t]] = "declared"
             /\ symbol' = [symbol EXCEPT ![at[t]] = "defining"]
             /\ Goto(t, "scan")
             /\ UNCHANGED <<memoryVars, entry, code, symbolCode, forced, queueVars, localVars,
                            guestVars>>

DefineTaken(t) == /\ pc[t] = "define" /\ symbol[at[t]] # "declared"
                  /\ Goto(t, "await")
                  /\ UNCHANGED <<memoryVars, tableVars, queueVars, localVars, guestVars>>

\* The symbol is no longer "defining": DemandFunction takes every status but
\* kFailed for success, kDeclared too.
Await(t) == /\ pc[t] = "await" /\ symbol[at[t]] # "defining"
            /\ Goto(t, "install")
            /\ UNCHANGED <<memoryVars, tableVars, queueVars, localVars, guestVars>>

\* The threads that spin for the entry of n while t translates it.
Spinning(n) == {t \in Threads : pc[t] = "spin" /\ at[t] = n}

\* DefineFunction finds the extent of the function.
Scan(t) == /\ pc[t] = "scan" /\ memory[MemoryOf[at[t]]] > 0
           /\ read' = [read EXCEPT ![t] = memory[MemoryOf[at[t]]]]
           /\ Goto(t, "emit")
           /\ UNCHANGED <<memoryVars, tableVars, queueVars, at, unswept, generation, attempt, site,
                          guestVars>>

\* A mutation: where there is no instruction yet, the scan waits for one.
ScanWaiting(t) == pc[t] = "scan" /\ memory[MemoryOf[at[t]]] = 0 /\ UNCHANGED vars

\* Where there is no instruction it fails, and with it the symbol, the entry, and
\* every thread's resolution.
ScanNothing(t) == LET done == Spinning(at[t]) \cup {t}
                  IN /\ pc[t] = "scan" /\ memory[MemoryOf[at[t]]] = 0
                     /\ symbol' = [symbol EXCEPT ![at[t]] = "failed"]
                     /\ entry' = [entry EXCEPT ![at[t]] = "failed"]
                     /\ pc' = [u \in Threads |-> IF u \in done THEN "idle" ELSE pc[u]]
                     /\ Forget(done)
                     /\ UNCHANGED <<memoryVars, code, symbolCode, forced, queueVars, guestVars>>

\* The code calls n, which has no symbol yet: PPCHIRBuilder::LookupFunction.
DeclareSite(t, n) == /\ pc[t] = "emit" /\ symbol[n] = "none"
                     /\ Create(n)
                     /\ site' = [site EXCEPT ![t] = n]
                     /\ Goto(t, "siteDeclare")
                     /\ UNCHANGED <<memoryVars, entry, code, forced, queueVars, at, unswept,
                                    generation, attempt, read, guestVars>>

SiteDeclared(t) == /\ pc[t] = "siteDeclare"
                   /\ symbol' = [symbol EXCEPT ![site[t]] = "declared"]
                   /\ Goto(t, "emit")
                   /\ UNCHANGED <<memoryVars, entry, code, symbolCode, forced, queueVars, localVars,
                                  guestVars>>

Finish(t) == /\ pc[t] = "emit"
             /\ symbolCode' = [symbolCode EXCEPT ![at[t]] = read[t]]
             /\ symbol' = [symbol EXCEPT ![at[t]] = "defined"]
             /\ Goto(t, "install")
             /\ UNCHANGED <<memoryVars, entry, code, forced, queueVars, localVars, guestVars>>

\* The memory was swept after generation g, or the records do not reach back to it.
SweptSince(g, m) == \/ sweep_generation_ - g > RecordCount
                    \/ \E r \in sweep_records_ : r.generation > g /\ r.memory = m

\* A mutation: the start-over keeps the symbol that the stale code is defined for.
RetryKeepingSymbol(t) == /\ pc[t] = "install" /\ attempt[t] < MaxAttempts
                         /\ SweptSince(generation[t], MemoryOf[at[t]])
                         /\ attempt' = [attempt EXCEPT ![t] = @ + 1]
                         /\ Goto(t, "load")
                         /\ UNCHANGED <<memoryVars, tableVars, queueVars, at, unswept, generation,
                                        read, site, guestVars>>

\* The end of CompileEntry, under the lock: start over if the code was swept while
\* it was read, or publish it, at the last attempt in any case.
Retry(t) == /\ pc[t] = "install" /\ attempt[t] < MaxAttempts
            /\ SweptSince(generation[t], MemoryOf[at[t]])
            /\ symbol' = [symbol EXCEPT ![at[t]] = "none"]
            /\ attempt' = [attempt EXCEPT ![t] = @ + 1]
            /\ Goto(t, "load")
            /\ UNCHANGED <<memoryVars, entry, code, symbolCode, forced, queueVars, at, unswept,
                           generation, read, site, guestVars>>

Install(t) == LET n == at[t]
                  stale == SweptSince(generation[t], MemoryOf[n])
                  done == Spinning(n) \cup {t}
              IN /\ pc[t] = "install" /\ (attempt[t] < MaxAttempts => ~stale)
                 /\ entry' = [entry EXCEPT ![n] = "ready"]
                 /\ code' = [code EXCEPT ![n] = symbolCode[n]]
                 /\ forced' = [forced EXCEPT ![n] = stale]
                 /\ Return(done, n, stale)
                 /\ Forget(done \cap Translators)
                 /\ UNCHANGED <<memoryVars, symbol, symbolCode, queueVars, cache>>

\* ResolveDynamicFunction stores what it has resolved, without the lock.
Fill(t) == /\ pc[t] = "got"
           /\ cache' = [cache EXCEPT ![t][at[t]] = got[t]]
           /\ got' = [got EXCEPT ![t] = NoAddress]
           /\ Goto(t, "idle") /\ Forget({t})
           /\ UNCHANGED <<memoryVars, tableVars, queueVars>>

-----------------------------------------------------------------------------
(* The end of a title: Emulator::TerminateTitle. *)

\* PauseBackgroundTranslation; it returns when no translator is busy.
Pause == /\ title = "running"
         /\ title' = "pausing" /\ background_queued_' = {}
         /\ UNCHANGED <<memoryVars, tableVars, threadVars, guestVars>>

\* A mutation: the pause does not wait for translations in flight.
PauseAtOnce == /\ title = "pausing"
               /\ title' = "paused"
               /\ UNCHANGED <<memoryVars, tableVars, background_queued_, threadVars, guestVars>>

PauseDone == /\ title = "pausing" /\ Busy = {}
             /\ title' = "paused"
             /\ UNCHANGED <<memoryVars, tableVars, background_queued_, threadVars, guestVars>>

\* KernelState::TerminateTitle: guest threads that do not end in time are suspended,
\* under the lock, where they stand, and never resumed.
TerminateTitle == /\ title = "paused"
                  /\ title' = "parked"
                  /\ UNCHANGED <<memoryVars, tableVars, background_queued_, threadVars, guestVars>>

\* The title's memory is freed, and FlushCode deletes the entries, those in translation
\* too.  The guests of the next title are new threads.
FlushCode == /\ title = "parked"
             /\ memory' = [m \in Memory |-> 0] /\ swept' = [m \in Memory |-> 0]
             /\ entry' = [n \in Names |-> "none"] /\ symbol' = [n \in Names |-> "none"]
             /\ code' = [n \in Names |-> 0] /\ symbolCode' = [n \in Names |-> 0]
             /\ forced' = [n \in Names |-> FALSE]
             /\ cache' = [t \in Guests |-> [n \in Names |-> NoAddress]]
             /\ got' = [t \in Guests |-> NoAddress]
             /\ pc' = [t \in Threads |-> IF t \in Guests THEN "idle" ELSE pc[t]]
             /\ Forget(Guests)
             /\ title' = "running"
             /\ UNCHANGED <<sweep_generation_, sweep_records_, background_queued_>>

-----------------------------------------------------------------------------
\* A step of a handler that is under way.
Step(t) == \/ SweepNext(t) \/ OnCodeSwept(t) \/ Ahead(t)
           \/ Load(t) \/ LookupNew(t) \/ LookupOld(t) \/ Declare(t)
           \/ Define(t) \/ DefineTaken(t) \/ Await(t) \/ Scan(t) \/ ScanNothing(t)
           \/ \E n \in Names : DeclareSite(t, n)
           \/ SiteDeclared(t) \/ Finish(t) \/ Retry(t) \/ Install(t)

Next == \/ \E m \in Memory : Write(m)
        \/ \E t \in Guests \ Parked, n \in Names : Sweep(t, n) \/ Call(t, n)
        \/ \E t \in Translators, n \in Names : Take(t, n)
        \/ \E t \in Threads \ Parked : Step(t)
        \/ \E t \in Guests \ Parked : Fill(t)
        \/ Pause \/ PauseDone \/ TerminateTitle \/ FlushCode

\* Every thread that is not parked is scheduled, so a handler under way goes on.  Nothing
\* is assumed of what guests call, write or sweep, or of when a title ends.
Fairness == /\ \A t \in Threads : WF_vars(t \notin Parked /\ Step(t))
            /\ \A t \in Guests : WF_vars(t \notin Parked /\ Fill(t))
            /\ WF_vars(PauseDone)

Spec == Init /\ [][Next]_vars /\ Fairness

-----------------------------------------------------------------------------
Addresses == [version : Nat, late : BOOLEAN]

\* Every variable has the type of what it stands for.
TypeOK ==
    /\ memory \in [Memory -> Nat] /\ swept \in [Memory -> Nat]
    /\ sweep_generation_ \in Nat
    /\ sweep_records_ \subseteq [generation : Nat, memory : Memory]
    /\ entry \in [Names -> {"none", "compiling", "ready", "failed"}]
    /\ code \in [Names -> Nat] /\ symbolCode \in [Names -> Nat]
    /\ symbol \in [Names -> {"none", "declared", "defining", "defined", "failed"}]
    /\ forced \in [Names -> BOOLEAN]
    /\ background_queued_ \subseteq Names
    /\ title \in {"running", "pausing", "paused", "parked"}
    /\ pc \in [Threads -> Labels]
    /\ at \in [Threads -> Names] /\ site \in [Threads -> Names]
    /\ unswept \in [Threads -> SUBSET Names]
    /\ generation \in [Threads -> Nat] /\ attempt \in [Threads -> Nat]
    /\ read \in [Threads -> Nat]
    /\ got \in [Guests -> Addresses] /\ cache \in [Guests -> [Names -> Addresses]]

\* What a call finds ready was compiled from the code as it was at the last sweep of
\* its memory, or from newer code, under whichever name it was swept and by
\* whichever thread it was translated; only the last attempt may give that up.
EntryIsFresh == \A n \in Names : entry[n] = "ready" /\ code[n] > 0 /\ ~forced[n]
                                     => code[n] >= swept[MemoryOf[n]]

\* So was what a guest calls through its cache, unless a sweep came between its
\* resolution and the store: the sweeps empty every cache in time.
CachedIsFresh == \A t \in Guests, n \in Names :
                    cache[t][n].version > 0 /\ ~cache[t][n].late
                        => cache[t][n].version >= swept[MemoryOf[n]]

\* While a title's memory is being freed no translator reads it and none is queued
\* to, though guests still sweep code then (emulator.cc:410).
PausedIsQuiet == title \in {"paused", "parked"} => Busy = {} /\ background_queued_ = {}

\* Every call and sweep ends, unless its thread is parked first, every translation ahead
\* does, and so does the wait for the translators at the end of a title: the waits for
\* an entry and for a symbol are no deadlock.
TranslationEnds == /\ \A t \in Guests : pc[t] # "idle" ~> pc[t] = "idle" \/ t \in Parked
                   /\ \A t \in Translators : pc[t] # "idle" ~> pc[t] = "idle"
                   /\ title = "pausing" ~> title = "paused"

\* After InvalidateCodeRange "the next call into it compiles what the guest has since
\* written there" (processor.h:153): no entry stays failed once its code is swept.
NextCallCompiles == \A n \in Names : entry[n] = "failed" => swept[MemoryOf[n]] = 0
=============================================================================
