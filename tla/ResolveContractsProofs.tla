------------------------ MODULE ResolveContractsProofs ------------------------
(***************************************************************************)
(* What holds of ResolveContracts for any number of pages, windows and      *)
(* threads: the watches, the copy, the contracts and the waits.            *)
(***************************************************************************)
EXTENDS ResolveContracts, TLAPS

USE DEF heapVars, sharedVars, dataVars, contractVars, guestVars, workerVars, ghostVars

-----------------------------------------------------------------------------
(* The heaps' operations, place by place *)

\* A window and a page make a place.
LEMMA PlaceOf == \A v \in Views, p \in Pages : <<v, p>> \in Places
  BY DEF Places

\* Enabling changes nothing but the fresh places of its window.
LEMMA EnableEffect ==
  ASSUME HeapTypeOK, NEW v \in Views, NEW S \in SUBSET Pages, EnableAccessCallbacks(v, S)
  PROVE  /\ HeapTypeOK'
         /\ armed' = armed
         /\ \A w \in Views, q \in Pages :
              <<w, q>> \in notify' <=> <<w, q>> \in notify \/ (w = v /\ q \in S)
         /\ \A w \in Views, q \in Pages :
              host'[<<w, q>>] = IF w = v /\ q \in S /\ <<w, q>> \notin notify
                                THEN "read" ELSE host[<<w, q>>]
  <1> DEFINE fresh == ({v} \X S) \ notify
  <1>1. /\ notify' = notify \cup fresh
        /\ host' = [x \in Places |-> IF x \in fresh THEN "read" ELSE host[x]]
        /\ armed' = armed
    BY DEF EnableAccessCallbacks
  <1>2. \A w \in Views, q \in Pages :
          <<w, q>> \in fresh <=> w = v /\ q \in S /\ <<w, q>> \notin notify
    OBVIOUS
  <1>3. fresh \subseteq Places
    BY DEF Places
  <1> HIDE DEF fresh
  <1>4. HeapTypeOK'
    BY <1>1, <1>3 DEF HeapTypeOK, Accesses
  <1>5. QED
    BY <1>1, <1>2, <1>4, PlaceOf

\* Arming hides the pages in every window.
LEMMA ArmEffect ==
  ASSUME HeapTypeOK, NEW S \in SUBSET Pages, ArmResolveReadWatch(S)
  PROVE  /\ HeapTypeOK'
         /\ notify' = notify
         /\ \A w \in Views, q \in Pages :
              <<w, q>> \in armed' <=> <<w, q>> \in armed \/ q \in S
         /\ \A w \in Views, q \in Pages :
              host'[<<w, q>>] = IF q \in S THEN "none" ELSE host[<<w, q>>]
  <1>1. /\ armed' = armed \cup (Views \X S)
        /\ host' = [x \in Places |-> IF x[2] \in S THEN "none" ELSE host[x]]
        /\ notify' = notify
    BY DEF ArmResolveReadWatch
  <1>2. \A w \in Views, q \in Pages : <<w, q>> \in Views \X S <=> q \in S
    OBVIOUS
  <1>3. Views \X S \subseteq Places
    BY DEF Places
  <1>4. HeapTypeOK'
    BY <1>1, <1>3 DEF HeapTypeOK, Accesses
  <1>5. \A w \in Views, q \in Pages : <<w, q>>[2] = q
    OBVIOUS
  <1>6. QED
    BY <1>1, <1>2, <1>4, <1>5, PlaceOf

\* Disarming gives one place back, for loads only if it is watched.
LEMMA DisarmEffect ==
  ASSUME HeapTypeOK, NEW v \in Views, NEW p \in Pages, DisarmReadWatch(v, p)
  PROVE  /\ HeapTypeOK'
         /\ notify' = notify /\ armed' = armed
         /\ \A x \in Places \ {<<v, p>>} : host'[x] = host[x]
         /\ host'[<<v, p>>] = IF <<v, p>> \in notify THEN "read" ELSE "all"
  BY PlaceOf DEF DisarmReadWatch, HeapTypeOK, Accesses

\* Unwatching makes the watched places of its window writable.
LEMMA UnwatchEffect ==
  ASSUME HeapTypeOK, NEW v \in Views, NEW S \in SUBSET Pages, Unwatch(v, S)
  PROVE  /\ HeapTypeOK'
         /\ armed' = armed
         /\ \A w \in Views, q \in Pages :
              <<w, q>> \in notify' <=> <<w, q>> \in notify /\ ~(w = v /\ q \in S)
         /\ \A w \in Views, q \in Pages :
              host'[<<w, q>>] = IF w = v /\ q \in S /\ <<w, q>> \in notify
                                THEN "all" ELSE host[<<w, q>>]
  <1> DEFINE watched == ({v} \X S) \cap notify
  <1>1. /\ notify' = notify \ watched
        /\ host' = [x \in Places |-> IF x \in watched THEN "all" ELSE host[x]]
        /\ armed' = armed
    BY DEF Unwatch
  <1>2. \A w \in Views, q \in Pages :
          <<w, q>> \in watched <=> w = v /\ q \in S /\ <<w, q>> \in notify
    OBVIOUS
  <1> HIDE DEF watched
  <1>3. HeapTypeOK'
    BY <1>1 DEF HeapTypeOK, Accesses
  <1>4. QED
    BY <1>1, <1>2, <1>3, PlaceOf

\* A widened range has the page, and no other page that the GPU has written.
LEMMA WidenedEffect ==
  ASSUME NEW p \in Pages
  PROVE  /\ Widened(p) \subseteq Pages
         /\ p \in Widened(p)
         /\ \A q \in Widened(p) : q # p => q \notin written
  BY DEF Widened, Between, Pages

-----------------------------------------------------------------------------
(* Types *)

\* There is a first page and a first window.
LEMMA Firsts == /\ 0 \in Pages /\ 1 \in Views /\ LastPage \in Nat /\ LastView \in Nat
                /\ Ranges \subseteq SUBSET Pages
  BY HeapAssumption DEF Pages, Views, Ranges

\* A thread's access is to a place.
LEMMA PlaceType == ASSUME TypeOK, NEW g \in Guests
                   PROVE  /\ Place(g) \in Places /\ Place(g) = <<view[g], page[g]>>
                          /\ view[g] \in Views /\ page[g] \in Pages
  BY DEF TypeOK, Place, Places

\* What a store to a watched place does.
LEMMA TriggersEffect ==
  ASSUME TypeOK, NEW g \in Guests, Triggers(g)
  PROVE  /\ HeapTypeOK'
         /\ armed' = armed
         /\ valid' = valid \ Widened(page[g])
         /\ written' = written \ Widened(page[g])
         /\ \A w \in Views, q \in Pages :
              <<w, q>> \in notify' <=>
                <<w, q>> \in notify /\ ~(w = view[g] /\ q \in Widened(page[g]))
         /\ \A w \in Views, q \in Pages :
              host'[<<w, q>>] =
                IF w = view[g] /\ q \in Widened(page[g]) /\ <<w, q>> \in notify
                THEN "all" ELSE host[<<w, q>>]
  <1>1. view[g] \in Views /\ page[g] \in Pages
    BY PlaceType
  <1>2. Widened(page[g]) \in SUBSET Pages
    BY <1>1, WidenedEffect
  <1>3. Unwatch(view[g], Widened(page[g])) /\ Invalidate(Widened(page[g]))
    BY DEF Triggers, TriggerCallbacks
  <1>4. HeapTypeOK
    BY DEF TypeOK
  <1>5. QED
    BY <1>1, <1>2, <1>3, <1>4, UnwatchEffect DEF Invalidate

\* The heaps keep their types when nothing is done to them.
LEMMA HeapSame == HeapTypeOK /\ UNCHANGED <<notify, host, armed>> => HeapTypeOK'
  BY DEF HeapTypeOK

\* Every step keeps the types.
LEMMA TypeStep == ASSUME TypeOK, Next PROVE TypeOK'
  <1> USE Firsts, HeapSame DEF TypeOK, SharedTypeOK, GuestLabels, WorkerLabels, Goto
  <1>1. ASSUME NEW g \in Guests, Begin(g) PROVE TypeOK'
    BY <1>1 DEF Begin
  <1>2. ASSUME NEW g \in Guests, Load(g) PROVE TypeOK'
    BY <1>2 DEF Load, EndAccess
  <1>3. ASSUME NEW g \in Guests, Store(g) PROVE TypeOK'
    BY <1>3 DEF Store, EndAccess
  <1>4. ASSUME NEW g \in Guests, Fault(g) PROVE TypeOK'
    BY <1>4 DEF Fault
  <1>5. ASSUME NEW g \in Guests, FaultOnArmed(g) PROVE TypeOK'
    <2>1. HeapTypeOK'
      BY <1>5 DEF FaultOnArmed, HeapTypeOK
    <2>2. QED
      BY <1>5, <2>1 DEF FaultOnArmed
  <1>6. ASSUME NEW g \in Guests, FaultOnWatched(g) PROVE TypeOK'
    <2>1. Triggers(g)
      BY <1>6 DEF FaultOnWatched, Triggers
    <2>2. HeapTypeOK' /\ SharedTypeOK'
      BY <2>1, TriggersEffect
    <2>3. queued' \subseteq Pages
      BY <2>1, PlaceType DEF Triggers
    <2>4. QED
      BY <2>1, <2>2, <2>3 DEF Triggers
  <1>7. ASSUME NEW g \in Guests, FaultOnUnwatched(g) PROVE TypeOK'
    BY <1>7 DEF FaultOnUnwatched
  <1>8. ASSUME NEW g \in Guests, FaultUnexpected(g) PROVE TypeOK'
    BY <1>8 DEF FaultUnexpected
  <1>9. ASSUME NEW g \in Guests, Ask(g) PROVE TypeOK'
    BY <1>9 DEF Ask
  <1>10. ASSUME NEW g \in Guests, NoneToAsk(g) PROVE TypeOK'
    BY <1>10 DEF NoneToAsk
  <1>11. ASSUME NEW g \in Guests, WakeServed(g) PROVE TypeOK'
    BY <1>11 DEF WakeServed
  <1>12. ASSUME NEW g \in Guests, WaitAgain(g) PROVE TypeOK'
    BY <1>12 DEF WaitAgain
  <1>13. ASSUME NEW g \in Guests, Disarm(g) PROVE TypeOK'
    <2>1. HeapTypeOK'
      BY <1>13, PlaceType, DisarmEffect DEF Disarm
    <2>2. late' \subseteq Places
      BY <1>13, PlaceType DEF Disarm
    <2>3. QED
      BY <1>13, <2>1, <2>2 DEF Disarm
  <1>14. ASSUME NEW g \in Guests, DisarmForStore(g) PROVE TypeOK'
    <2>1. Triggers(g)
      BY <1>14 DEF DisarmForStore, Triggers
    <2>2. HeapTypeOK' /\ SharedTypeOK'
      BY <2>1, TriggersEffect
    <2>3. queued' \subseteq Pages
      BY <2>1, PlaceType DEF Triggers
    <2>4. QED
      BY <2>1, <2>2, <2>3 DEF Triggers
  <1>15. ASSUME NEW g \in Guests, Post(g) PROVE TypeOK'
    BY <1>15 DEF Post
  <1>16. ASSUME Draw PROVE TypeOK'
    BY <1>16 DEF Draw, BeginJob, Missing
  <1>17. ASSUME NEW m \in {"resolve", "export"}, WrittenByGpu(m) PROVE TypeOK'
    <2>1. SharedTypeOK' /\ job' \in Ranges
      BY <1>17 DEF WrittenByGpu, MarkValid
    <2>2. gpu' \in [Pages -> Nat] /\ stamp' \in Nat /\ jobs' \in Nat
      BY <1>17 DEF WrittenByGpu, BeginJob
    <2>3. QED
      BY <1>17, <2>1, <2>2 DEF WrittenByGpu
  <1>18. ASSUME Poll PROVE TypeOK'
    BY <1>18 DEF Poll, BeginJob
  <1>19. ASSUME TakeRequests PROVE TypeOK'
    BY <1>19 DEF TakeRequests
  <1>20. ASSUME Awaited PROVE TypeOK'
    BY <1>20 DEF Awaited
  <1>21. ASSUME SkipRequest PROVE TypeOK'
    BY <1>21 DEF SkipRequest
  <1>22. ASSUME ServeRequest PROVE TypeOK'
    BY <1>22 DEF ServeRequest
  <1>23. ASSUME CopyOut PROVE TypeOK'
    <2>1. mem' \in [Pages -> Nat]
      BY <1>23 DEF CopyOut
    <2>2. QED
      BY <1>23, <2>1 DEF CopyOut
  <1>24. ASSUME Materialized PROVE TypeOK'
    BY <1>24 DEF Materialized
  <1>25. ASSUME NotMapped PROVE TypeOK'
    BY <1>25 DEF NotMapped
  <1>26. ASSUME Served PROVE TypeOK'
    BY <1>26 DEF Served
  <1>27. ASSUME NotifyAll PROVE TypeOK'
    BY <1>27 DEF NotifyAll, EndJob
  <1>28. ASSUME UploadChunk PROVE TypeOK'
    <2>1. SharedTypeOK' /\ job' \in Ranges /\ todo' \subseteq Pages
      BY <1>28 DEF UploadChunk, MarkValid
    <2>2. QED
      BY <1>28, <2>1 DEF UploadChunk
  <1>29. ASSUME UploadEnds PROVE TypeOK'
    BY <1>29 DEF UploadEnds, EndJob
  <1>30. ASSUME Enable PROVE TypeOK'
    <2>1. HeapTypeOK'
      BY <1>30, EnableEffect DEF Enable
    <2>2. next' \in Views
      BY <1>30 DEF Enable, Views
    <2>3. QED
      BY <1>30, <2>1, <2>2 DEF Enable
  <1>31. ASSUME EnableLast PROVE TypeOK'
    <2>1. HeapTypeOK'
      BY <1>31, EnableEffect DEF EnableLast
    <2>2. QED
      BY <1>31, <2>1 DEF EnableLast
  <1>32. ASSUME CopyIn PROVE TypeOK'
    BY <1>32 DEF CopyIn
  <1>33. ASSUME CopiedIn PROVE TypeOK'
    BY <1>33 DEF CopiedIn
  <1>34. ASSUME Register PROVE TypeOK'
    <2>1. kept' \subseteq Ranges /\ done' \subseteq Ranges
      BY <1>34 DEF Register, DropForJob, Keep
    <2>2. staged' \in [Ranges -> [Pages -> Nat]]
      BY <1>34 DEF Register, DropForJob, Keep
    <2>3. QED
      BY <1>34, <2>1, <2>2 DEF Register
  <1>35. ASSUME RegisterFails PROVE TypeOK'
    <2>1. kept' \subseteq Ranges /\ done' \subseteq Ranges
      BY <1>35 DEF RegisterFails, EndJob, DropForJob, Keep
    <2>2. staged' \in [Ranges -> [Pages -> Nat]]
      BY <1>35 DEF RegisterFails, EndJob, DropForJob, Keep
    <2>3. QED
      BY <1>35, <2>1, <2>2 DEF RegisterFails, EndJob
  <1>36. ASSUME Stage PROVE TypeOK'
    <2>1. staged' \in [Ranges -> [Pages -> Nat]]
      BY <1>36 DEF Stage
    <2>2. QED
      BY <1>36, <2>1 DEF Stage, GpuWritten
  <1>37. ASSUME StageNothing PROVE TypeOK'
    BY <1>37 DEF StageNothing, EndJob
  <1>38. ASSUME ArmRun PROVE TypeOK'
    <2>1. PICK run \in Ranges : ArmResolveReadWatch(run) /\ todo' = todo \ run
                                /\ late' = late \ (Views \X run)
      BY <1>38 DEF ArmRun
    <2>2. HeapTypeOK'
      BY <2>1, ArmEffect
    <2>3. QED
      BY <1>38, <2>1, <2>2 DEF ArmRun
  <1>39. ASSUME Armed PROVE TypeOK'
    BY <1>39 DEF Armed, EndJob
  <1>40. ASSUME Forget PROVE TypeOK'
    <2>1. kept' \subseteq Ranges /\ done' \subseteq Ranges
      BY <1>40 DEF Forget, EndJob, Keep
    <2>2. staged' \in [Ranges -> [Pages -> Nat]]
      BY <1>40 DEF Forget, EndJob, Keep
    <2>3. QED
      BY <1>40, <2>1, <2>2 DEF Forget, EndJob
  <1>41. QED
    BY <1>1, <1>2, <1>3, <1>4, <1>5, <1>6, <1>7, <1>8, <1>9, <1>10, <1>11, <1>12, <1>13, <1>14,
       <1>15, <1>16, <1>17, <1>18, <1>19, <1>20, <1>21, <1>22, <1>23, <1>24, <1>25, <1>26, <1>27,
       <1>28, <1>29, <1>30, <1>31, <1>32, <1>33, <1>34, <1>35, <1>36, <1>37, <1>38, <1>39,
       <1>40 DEF Next, Begins, Continues, Guest, Handle

-----------------------------------------------------------------------------
(* The watches *)

\* A watched place cannot be written, and a valid page is watched through
\* every window that the worker has come to.
Watching ==
  /\ \A v \in Views, p \in Pages : <<v, p>> \in notify => host[<<v, p>>] # "all"
  /\ \A p \in valid, v \in Views : <<v, p>> \in notify \/ Enabling(v, p)

\* Every step keeps the watches: a store gives up a range of pages on the GPU
\* and unwatches no more than that range.
LEMMA WatchStep == ASSUME TypeOK, Watching, Next PROVE Watching'
  <1> USE DEF Watching, Enabling
  <1>1. ASSUME NEW g \in Guests, Begin(g) PROVE Watching'
    BY <1>1 DEF Begin
  <1>2. ASSUME NEW g \in Guests, Load(g) PROVE Watching'
    BY <1>2 DEF Load, EndAccess
  <1>3. ASSUME NEW g \in Guests, Store(g) PROVE Watching'
    BY <1>3 DEF Store, EndAccess
  <1>4. ASSUME NEW g \in Guests, Fault(g) PROVE Watching'
    BY <1>4 DEF Fault
  <1>5. ASSUME NEW g \in Guests, FaultOnArmed(g) PROVE Watching'
    BY <1>5 DEF FaultOnArmed
  <1>6. ASSUME NEW g \in Guests, FaultOnWatched(g) PROVE Watching'
    <2>1. Triggers(g)
      BY <1>6 DEF FaultOnWatched, Triggers
    <2>2. /\ valid' \subseteq valid /\ gpc' = gpc /\ job' = job /\ next' = next
          /\ \A p \in valid' : p \in valid /\ p \notin Widened(page[g])
      BY <2>1, TriggersEffect DEF Triggers
    <2>3. valid \subseteq Pages
      BY DEF TypeOK, SharedTypeOK
    <2>4. QED
      BY <2>1, <2>2, <2>3, TriggersEffect
  <1>7. ASSUME NEW g \in Guests, FaultOnUnwatched(g) PROVE Watching'
    BY <1>7 DEF FaultOnUnwatched
  <1>8. ASSUME NEW g \in Guests, FaultUnexpected(g) PROVE Watching'
    BY <1>8 DEF FaultUnexpected
  <1>9. ASSUME NEW g \in Guests, Ask(g) PROVE Watching'
    BY <1>9 DEF Ask
  <1>10. ASSUME NEW g \in Guests, NoneToAsk(g) PROVE Watching'
    BY <1>10 DEF NoneToAsk
  <1>11. ASSUME NEW g \in Guests, WakeServed(g) PROVE Watching'
    BY <1>11 DEF WakeServed
  <1>12. ASSUME NEW g \in Guests, WaitAgain(g) PROVE Watching'
    BY <1>12 DEF WaitAgain
  <1>13. ASSUME NEW g \in Guests, Disarm(g) PROVE Watching'
    <2>1. DisarmReadWatch(view[g], page[g]) /\ HeapTypeOK
      BY <1>13 DEF Disarm, TypeOK
    <2>2. /\ notify' = notify
          /\ \A x \in Places \ {Place(g)} : host'[x] = host[x]
          /\ Place(g) \in notify => host'[Place(g)] = "read"
      BY <2>1, PlaceType, DisarmEffect
    <2>3. QED
      BY <1>13, <2>2, PlaceOf DEF Disarm
  <1>14. ASSUME NEW g \in Guests, DisarmForStore(g) PROVE Watching'
    <2>1. Triggers(g)
      BY <1>14 DEF DisarmForStore, Triggers
    <2>2. /\ valid' \subseteq valid /\ gpc' = gpc /\ job' = job /\ next' = next
          /\ \A p \in valid' : p \in valid /\ p \notin Widened(page[g])
      BY <2>1, TriggersEffect DEF Triggers
    <2>3. valid \subseteq Pages
      BY DEF TypeOK, SharedTypeOK
    <2>4. QED
      BY <2>1, <2>2, <2>3, TriggersEffect
  <1>15. ASSUME NEW g \in Guests, Post(g) PROVE Watching'
    BY <1>15 DEF Post
  <1>16. ASSUME Draw PROVE Watching'
    BY <1>16 DEF Draw, BeginJob
  <1>17. ASSUME NEW m \in {"resolve", "export"}, WrittenByGpu(m) PROVE Watching'
    <2>1. /\ valid' = valid \cup job' /\ next' = 1 /\ gpc' = "enable" /\ gpc = "idle"
          /\ UNCHANGED heapVars
      BY <1>17 DEF WrittenByGpu, BeginJob, MarkValid
    <2>2. \A v \in Views : 1 <= v
      BY DEF Views
    <2>3. QED
      BY <2>1, <2>2
  <1>18. ASSUME Poll PROVE Watching'
    BY <1>18 DEF Poll, BeginJob
  <1>19. ASSUME TakeRequests PROVE Watching'
    BY <1>19 DEF TakeRequests
  <1>20. ASSUME Awaited PROVE Watching'
    BY <1>20 DEF Awaited
  <1>21. ASSUME SkipRequest PROVE Watching'
    BY <1>21 DEF SkipRequest
  <1>22. ASSUME ServeRequest PROVE Watching'
    BY <1>22 DEF ServeRequest
  <1>23. ASSUME CopyOut PROVE Watching'
    BY <1>23 DEF CopyOut
  <1>24. ASSUME Materialized PROVE Watching'
    BY <1>24 DEF Materialized
  <1>25. ASSUME NotMapped PROVE Watching'
    BY <1>25 DEF NotMapped
  <1>26. ASSUME Served PROVE Watching'
    BY <1>26 DEF Served
  <1>27. ASSUME NotifyAll PROVE Watching'
    BY <1>27 DEF NotifyAll, EndJob
  <1>28. ASSUME UploadChunk PROVE Watching'
    <2>1. /\ valid' = valid \cup job' /\ next' = 1 /\ gpc' = "enable" /\ gpc = "upload"
          /\ UNCHANGED heapVars
      BY <1>28 DEF UploadChunk, MarkValid
    <2>2. \A v \in Views : 1 <= v
      BY DEF Views
    <2>3. QED
      BY <2>1, <2>2
  <1>29. ASSUME UploadEnds PROVE Watching'
    BY <1>29 DEF UploadEnds, EndJob
  <1>30. ASSUME Enable PROVE Watching'
    <2>1. /\ EnableAccessCallbacks(next, job) /\ HeapTypeOK /\ job \in SUBSET Pages
          /\ next \in Views /\ valid \subseteq Pages
      BY <1>30 DEF Enable, TypeOK, SharedTypeOK
    <2>2. /\ \A w \in Views, q \in Pages :
               <<w, q>> \in notify' <=> <<w, q>> \in notify \/ (w = next /\ q \in job)
          /\ \A w \in Views, q \in Pages :
               host'[<<w, q>>] = IF w = next /\ q \in job /\ <<w, q>> \notin notify
                                 THEN "read" ELSE host[<<w, q>>]
      BY <2>1, EnableEffect
    <2>4. \A v \in Views, p \in Pages : <<v, p>> \in notify' => host'[<<v, p>>] /= "all"
      BY <2>2
    <2>5. \A v \in Views : next <= v => v = next \/ next' <= v
      BY <1>30, <2>1, HeapAssumption DEF Enable, Views
    <2>6. QED
      BY <1>30, <2>1, <2>2, <2>4, <2>5 DEF Enable
  <1>31. ASSUME EnableLast PROVE Watching'
    <2>1. /\ EnableAccessCallbacks(next, job) /\ HeapTypeOK /\ job \in SUBSET Pages
          /\ next \in Views /\ valid \subseteq Pages
      BY <1>31 DEF EnableLast, TypeOK, SharedTypeOK
    <2>2. /\ \A w \in Views, q \in Pages :
               <<w, q>> \in notify' <=> <<w, q>> \in notify \/ (w = next /\ q \in job)
          /\ \A w \in Views, q \in Pages :
               host'[<<w, q>>] = IF w = next /\ q \in job /\ <<w, q>> \notin notify
                                 THEN "read" ELSE host[<<w, q>>]
      BY <2>1, EnableEffect
    <2>4. \A v \in Views, p \in Pages : <<v, p>> \in notify' => host'[<<v, p>>] /= "all"
      BY <2>2
    <2>5. \A v \in Views : next <= v => v = next
      BY <1>31, <2>1, HeapAssumption DEF EnableLast, Views
    <2>6. QED
      BY <1>31, <2>1, <2>2, <2>4, <2>5 DEF EnableLast
  <1>32. ASSUME CopyIn PROVE Watching'
    BY <1>32 DEF CopyIn
  <1>33. ASSUME CopiedIn PROVE Watching'
    BY <1>33 DEF CopiedIn
  <1>34. ASSUME Register PROVE Watching'
    BY <1>34 DEF Register
  <1>35. ASSUME RegisterFails PROVE Watching'
    BY <1>35 DEF RegisterFails, EndJob
  <1>36. ASSUME Stage PROVE Watching'
    BY <1>36 DEF Stage
  <1>37. ASSUME StageNothing PROVE Watching'
    BY <1>37 DEF StageNothing, EndJob
  <1>38. ASSUME ArmRun PROVE Watching'
    <2>1. PICK run \in Ranges : ArmResolveReadWatch(run)
      BY <1>38 DEF ArmRun
    <2>2. HeapTypeOK /\ run \in SUBSET Pages
      BY Firsts DEF TypeOK
    <2>3. /\ notify' = notify
          /\ \A w \in Views, q \in Pages :
               host'[<<w, q>>] = IF q \in run THEN "none" ELSE host[<<w, q>>]
      BY <2>1, <2>2, ArmEffect
    <2>4. QED
      BY <1>38, <2>3 DEF ArmRun
  <1>39. ASSUME Armed PROVE Watching'
    BY <1>39 DEF Armed, EndJob
  <1>40. ASSUME Forget PROVE Watching'
    BY <1>40 DEF Forget, EndJob
  <1>41. QED
    BY <1>1, <1>2, <1>3, <1>4, <1>5, <1>6, <1>7, <1>8, <1>9, <1>10, <1>11, <1>12, <1>13, <1>14,
       <1>15, <1>16, <1>17, <1>18, <1>19, <1>20, <1>21, <1>22, <1>23, <1>24, <1>25, <1>26, <1>27,
       <1>28, <1>29, <1>30, <1>31, <1>32, <1>33, <1>34, <1>35, <1>36, <1>37, <1>38, <1>39,
       <1>40 DEF Next, Begins, Continues, Guest, Handle

\* Every page that counts as valid faults when it is stored to.
LEMMA Noticed == TypeOK /\ Watching => WatchedWhileValid
  BY DEF TypeOK, SharedTypeOK, Watching, WatchedWhileValid

-----------------------------------------------------------------------------
(* The copy *)

\* The worker works on pages that are to be uploaded.
Uploads == gpc \in {"upload", "copyin"} \/ (gpc = "enable" /\ mode = "upload")

\* What is left to upload is not the GPU's, and what is being watched after an
\* upload is yet to be copied.
Marking ==
  /\ written \subseteq valid
  /\ Uploads => left \cap written = {}
  /\ gpc = "copyin" => mode = "upload" /\ todo \cap written = {}
  /\ gpc = "enable" /\ mode = "upload" => todo = job /\ job \cap written = {}
  /\ gpc = "enable" /\ mode # "upload" => job \cap valid \subseteq written

\* Every step keeps the marks.
LEMMA MarkStep == ASSUME TypeOK, Marking, Next PROVE Marking'
  <1> USE DEF Marking, Uploads
  <1>1. ASSUME NEW g \in Guests, Begin(g) PROVE Marking'
    BY <1>1 DEF Begin
  <1>2. ASSUME NEW g \in Guests, Load(g) PROVE Marking'
    BY <1>2 DEF Load, EndAccess
  <1>3. ASSUME NEW g \in Guests, Store(g) PROVE Marking'
    BY <1>3 DEF Store, EndAccess
  <1>4. ASSUME NEW g \in Guests, Fault(g) PROVE Marking'
    BY <1>4 DEF Fault
  <1>5. ASSUME NEW g \in Guests, FaultOnArmed(g) PROVE Marking'
    BY <1>5 DEF FaultOnArmed
  <1>6. ASSUME NEW g \in Guests, FaultOnWatched(g) PROVE Marking'
    <2>1. Triggers(g)
      BY <1>6 DEF FaultOnWatched, Triggers
    <2>2. valid' = valid \ Widened(page[g]) /\ written' = written \ Widened(page[g])
      BY <2>1, TriggersEffect
    <2>3. QED
      BY <2>1, <2>2 DEF Triggers
  <1>7. ASSUME NEW g \in Guests, FaultOnUnwatched(g) PROVE Marking'
    BY <1>7 DEF FaultOnUnwatched
  <1>8. ASSUME NEW g \in Guests, FaultUnexpected(g) PROVE Marking'
    BY <1>8 DEF FaultUnexpected
  <1>9. ASSUME NEW g \in Guests, Ask(g) PROVE Marking'
    BY <1>9 DEF Ask
  <1>10. ASSUME NEW g \in Guests, NoneToAsk(g) PROVE Marking'
    BY <1>10 DEF NoneToAsk
  <1>11. ASSUME NEW g \in Guests, WakeServed(g) PROVE Marking'
    BY <1>11 DEF WakeServed
  <1>12. ASSUME NEW g \in Guests, WaitAgain(g) PROVE Marking'
    BY <1>12 DEF WaitAgain
  <1>13. ASSUME NEW g \in Guests, Disarm(g) PROVE Marking'
    BY <1>13 DEF Disarm
  <1>14. ASSUME NEW g \in Guests, DisarmForStore(g) PROVE Marking'
    <2>1. Triggers(g)
      BY <1>14 DEF DisarmForStore, Triggers
    <2>2. valid' = valid \ Widened(page[g]) /\ written' = written \ Widened(page[g])
      BY <2>1, TriggersEffect
    <2>3. QED
      BY <2>1, <2>2 DEF Triggers
  <1>15. ASSUME NEW g \in Guests, Post(g) PROVE Marking'
    BY <1>15 DEF Post
  <1>16. ASSUME Draw PROVE Marking'
    BY <1>16 DEF Draw, BeginJob, Missing
  <1>17. ASSUME NEW m \in {"resolve", "export"}, WrittenByGpu(m) PROVE Marking'
    BY <1>17 DEF WrittenByGpu, BeginJob, MarkValid
  <1>18. ASSUME Poll PROVE Marking'
    BY <1>18 DEF Poll, BeginJob
  <1>19. ASSUME TakeRequests PROVE Marking'
    BY <1>19 DEF TakeRequests
  <1>20. ASSUME Awaited PROVE Marking'
    BY <1>20 DEF Awaited
  <1>21. ASSUME SkipRequest PROVE Marking'
    BY <1>21 DEF SkipRequest
  <1>22. ASSUME ServeRequest PROVE Marking'
    BY <1>22 DEF ServeRequest
  <1>23. ASSUME CopyOut PROVE Marking'
    BY <1>23 DEF CopyOut
  <1>24. ASSUME Materialized PROVE Marking'
    BY <1>24 DEF Materialized
  <1>25. ASSUME NotMapped PROVE Marking'
    BY <1>25 DEF NotMapped
  <1>26. ASSUME Served PROVE Marking'
    BY <1>26 DEF Served
  <1>27. ASSUME NotifyAll PROVE Marking'
    BY <1>27 DEF NotifyAll, EndJob
  <1>28. ASSUME UploadChunk PROVE Marking'
    BY <1>28 DEF UploadChunk, MarkValid
  <1>29. ASSUME UploadEnds PROVE Marking'
    BY <1>29 DEF UploadEnds, EndJob
  <1>30. ASSUME Enable PROVE Marking'
    BY <1>30 DEF Enable
  <1>31. ASSUME EnableLast PROVE Marking'
    BY <1>31 DEF EnableLast
  <1>32. ASSUME CopyIn PROVE Marking'
    BY <1>32 DEF CopyIn
  <1>33. ASSUME CopiedIn PROVE Marking'
    BY <1>33 DEF CopiedIn
  <1>34. ASSUME Register PROVE Marking'
    BY <1>34 DEF Register
  <1>35. ASSUME RegisterFails PROVE Marking'
    BY <1>35 DEF RegisterFails, EndJob
  <1>36. ASSUME Stage PROVE Marking'
    BY <1>36 DEF Stage
  <1>37. ASSUME StageNothing PROVE Marking'
    BY <1>37 DEF StageNothing, EndJob
  <1>38. ASSUME ArmRun PROVE Marking'
    BY <1>38 DEF ArmRun
  <1>39. ASSUME Armed PROVE Marking'
    BY <1>39 DEF Armed, EndJob
  <1>40. ASSUME Forget PROVE Marking'
    BY <1>40 DEF Forget, EndJob
  <1>41. QED
    BY <1>1, <1>2, <1>3, <1>4, <1>5, <1>6, <1>7, <1>8, <1>9, <1>10, <1>11, <1>12, <1>13, <1>14,
       <1>15, <1>16, <1>17, <1>18, <1>19, <1>20, <1>21, <1>22, <1>23, <1>24, <1>25, <1>26, <1>27,
       <1>28, <1>29, <1>30, <1>31, <1>32, <1>33, <1>34, <1>35, <1>36, <1>37, <1>38, <1>39,
       <1>40 DEF Next, Begins, Continues, Guest, Handle

\* Every step keeps the copy current: only a page that faults no more can be
\* written, and such a page is not valid or is yet to be copied.
LEMMA CopyStep ==
  ASSUME TypeOK, Watching, Marking, CopyIsCurrent, Next
  PROVE  CopyIsCurrent'
  <1> USE DEF CopyIsCurrent, Uploading
  <1>1. ASSUME NEW g \in Guests, Begin(g) PROVE CopyIsCurrent'
    BY <1>1 DEF Begin
  <1>2. ASSUME NEW g \in Guests, Load(g) PROVE CopyIsCurrent'
    BY <1>2 DEF Load, EndAccess
  <1>3. ASSUME NEW g \in Guests, Store(g) PROVE CopyIsCurrent'
    <2>1. /\ page[g] \in Pages /\ view[g] \in Views
          /\ host[<<view[g], page[g]>>] = "all"
      BY <1>3, PlaceType DEF Store, Place
    <2>2. page[g] \in valid => Enabling(view[g], page[g])
      BY <2>1, Noticed DEF WatchedWhileValid
    <2>3. page[g] \in valid \ written => Uploading(page[g])
      BY <2>2 DEF Enabling, Marking
    <2>4. \A p \in Pages \ {page[g]} : mem'[p] = mem[p]
      BY <1>3, <2>1 DEF Store, TypeOK
    <2>5. valid \subseteq Pages
      BY DEF TypeOK, SharedTypeOK
    <2>6. QED
      BY <1>3, <2>3, <2>4, <2>5 DEF Store
  <1>4. ASSUME NEW g \in Guests, Fault(g) PROVE CopyIsCurrent'
    BY <1>4 DEF Fault
  <1>5. ASSUME NEW g \in Guests, FaultOnArmed(g) PROVE CopyIsCurrent'
    BY <1>5 DEF FaultOnArmed
  <1>6. ASSUME NEW g \in Guests, FaultOnWatched(g) PROVE CopyIsCurrent'
    <2>1. Triggers(g)
      BY <1>6 DEF FaultOnWatched, Triggers
    <2>2. valid' = valid \ Widened(page[g]) /\ written' = written \ Widened(page[g])
      BY <2>1, TriggersEffect
    <2>3. QED
      BY <2>1, <2>2 DEF Triggers
  <1>7. ASSUME NEW g \in Guests, FaultOnUnwatched(g) PROVE CopyIsCurrent'
    BY <1>7 DEF FaultOnUnwatched
  <1>8. ASSUME NEW g \in Guests, FaultUnexpected(g) PROVE CopyIsCurrent'
    BY <1>8 DEF FaultUnexpected
  <1>9. ASSUME NEW g \in Guests, Ask(g) PROVE CopyIsCurrent'
    BY <1>9 DEF Ask
  <1>10. ASSUME NEW g \in Guests, NoneToAsk(g) PROVE CopyIsCurrent'
    BY <1>10 DEF NoneToAsk
  <1>11. ASSUME NEW g \in Guests, WakeServed(g) PROVE CopyIsCurrent'
    BY <1>11 DEF WakeServed
  <1>12. ASSUME NEW g \in Guests, WaitAgain(g) PROVE CopyIsCurrent'
    BY <1>12 DEF WaitAgain
  <1>13. ASSUME NEW g \in Guests, Disarm(g) PROVE CopyIsCurrent'
    BY <1>13 DEF Disarm
  <1>14. ASSUME NEW g \in Guests, DisarmForStore(g) PROVE CopyIsCurrent'
    <2>1. Triggers(g)
      BY <1>14 DEF DisarmForStore, Triggers
    <2>2. valid' = valid \ Widened(page[g]) /\ written' = written \ Widened(page[g])
      BY <2>1, TriggersEffect
    <2>3. QED
      BY <2>1, <2>2 DEF Triggers
  <1>15. ASSUME NEW g \in Guests, Post(g) PROVE CopyIsCurrent'
    BY <1>15 DEF Post
  <1>16. ASSUME Draw PROVE CopyIsCurrent'
    BY <1>16 DEF Draw, BeginJob
  <1>17. ASSUME NEW m \in {"resolve", "export"}, WrittenByGpu(m) PROVE CopyIsCurrent'
    <2>1. /\ gpc = "idle" /\ gpc' = "enable"
          /\ valid' = valid \cup job' /\ written' = written \cup job'
          /\ UNCHANGED <<mem, clobbered>>
      BY <1>17 DEF WrittenByGpu, BeginJob, MarkValid
    <2>2. \A q \in Pages : q \in job' \/ gpu'[q] = gpu[q]
      BY <1>17 DEF WrittenByGpu
    <2>3. valid \subseteq Pages
      BY DEF TypeOK, SharedTypeOK
    <2>4. QED
      BY <2>1, <2>2, <2>3
  <1>18. ASSUME Poll PROVE CopyIsCurrent'
    BY <1>18 DEF Poll, BeginJob
  <1>19. ASSUME TakeRequests PROVE CopyIsCurrent'
    BY <1>19 DEF TakeRequests
  <1>20. ASSUME Awaited PROVE CopyIsCurrent'
    BY <1>20 DEF Awaited
  <1>21. ASSUME SkipRequest PROVE CopyIsCurrent'
    BY <1>21 DEF SkipRequest
  <1>22. ASSUME ServeRequest PROVE CopyIsCurrent'
    BY <1>22 DEF ServeRequest
  <1>23. ASSUME CopyOut PROVE CopyIsCurrent'
    <2>1. PICK p \in todo : /\ mem' = [mem EXCEPT ![p] = staged[job][p]]
                           /\ clobbered' = IF p \in written THEN clobbered
                                          ELSE clobbered \cup {p}
      BY <1>23 DEF CopyOut
    <2>2. \A q \in Pages : q = p \/ mem'[q] = mem[q]
      BY <2>1 DEF TypeOK
    <2>3. valid \subseteq Pages
      BY DEF TypeOK, SharedTypeOK
    <2>4. QED
      BY <1>23, <2>1, <2>2, <2>3 DEF CopyOut
  <1>24. ASSUME Materialized PROVE CopyIsCurrent'
    BY <1>24 DEF Materialized
  <1>25. ASSUME NotMapped PROVE CopyIsCurrent'
    BY <1>25 DEF NotMapped
  <1>26. ASSUME Served PROVE CopyIsCurrent'
    BY <1>26 DEF Served
  <1>27. ASSUME NotifyAll PROVE CopyIsCurrent'
    BY <1>27 DEF NotifyAll, EndJob
  <1>28. ASSUME UploadChunk PROVE CopyIsCurrent'
    <2>1. /\ gpc = "upload" /\ gpc' = "enable" /\ mode' = "upload" /\ todo' = job'
          /\ valid' = valid \cup job' /\ written' = written \ job'
          /\ UNCHANGED <<gpu, mem, clobbered>>
      BY <1>28 DEF UploadChunk, MarkValid
    <2>2. QED
      BY <2>1
  <1>29. ASSUME UploadEnds PROVE CopyIsCurrent'
    BY <1>29 DEF UploadEnds, EndJob
  <1>30. ASSUME Enable PROVE CopyIsCurrent'
    BY <1>30 DEF Enable
  <1>31. ASSUME EnableLast PROVE CopyIsCurrent'
    BY <1>31 DEF EnableLast, Marking
  <1>32. ASSUME CopyIn PROVE CopyIsCurrent'
    <2>1. PICK p \in todo : /\ gpu' = [gpu EXCEPT ![p] = mem[p]]
                           /\ todo' = todo \ {p}
      BY <1>32 DEF CopyIn
    <2>2. gpu'[p] = mem[p] /\ \A q \in Pages : q = p \/ gpu'[q] = gpu[q]
      BY <2>1 DEF TypeOK
    <2>3. valid \subseteq Pages
      BY DEF TypeOK, SharedTypeOK
    <2>4. QED
      BY <1>32, <2>1, <2>2, <2>3 DEF CopyIn
  <1>33. ASSUME CopiedIn PROVE CopyIsCurrent'
    BY <1>33 DEF CopiedIn
  <1>34. ASSUME Register PROVE CopyIsCurrent'
    BY <1>34 DEF Register
  <1>35. ASSUME RegisterFails PROVE CopyIsCurrent'
    BY <1>35 DEF RegisterFails, EndJob
  <1>36. ASSUME Stage PROVE CopyIsCurrent'
    BY <1>36 DEF Stage
  <1>37. ASSUME StageNothing PROVE CopyIsCurrent'
    BY <1>37 DEF StageNothing, EndJob
  <1>38. ASSUME ArmRun PROVE CopyIsCurrent'
    BY <1>38 DEF ArmRun
  <1>39. ASSUME Armed PROVE CopyIsCurrent'
    BY <1>39 DEF Armed, EndJob
  <1>40. ASSUME Forget PROVE CopyIsCurrent'
    BY <1>40 DEF Forget, EndJob
  <1>41. QED
    BY <1>1, <1>2, <1>3, <1>4, <1>5, <1>6, <1>7, <1>8, <1>9, <1>10, <1>11, <1>12, <1>13, <1>14,
       <1>15, <1>16, <1>17, <1>18, <1>19, <1>20, <1>21, <1>22, <1>23, <1>24, <1>25, <1>26, <1>27,
       <1>28, <1>29, <1>30, <1>31, <1>32, <1>33, <1>34, <1>35, <1>36, <1>37, <1>38, <1>39,
       <1>40 DEF Next, Begins, Continues, Guest, Handle

-----------------------------------------------------------------------------
(* The waits *)

\* Every step keeps the waits heard: a request is in the queue before the
\* thread waits, and the worker wakes all after it has taken any.
LEMMA HeardStep == ASSUME TypeOK, WaitersAreHeard, Next PROVE WaitersAreHeard'
  <1> USE DEF WaitersAreHeard, TypeOK, Goto
  <1>1. ASSUME NEW g \in Guests, Begin(g) PROVE WaitersAreHeard'
    BY <1>1 DEF Begin
  <1>2. ASSUME NEW g \in Guests, Load(g) PROVE WaitersAreHeard'
    BY <1>2 DEF Load, EndAccess
  <1>3. ASSUME NEW g \in Guests, Store(g) PROVE WaitersAreHeard'
    BY <1>3 DEF Store, EndAccess
  <1>4. ASSUME NEW g \in Guests, Fault(g) PROVE WaitersAreHeard'
    BY <1>4 DEF Fault
  <1>5. ASSUME NEW g \in Guests, FaultOnArmed(g) PROVE WaitersAreHeard'
    BY <1>5 DEF FaultOnArmed
  <1>6. ASSUME NEW g \in Guests, FaultOnWatched(g) PROVE WaitersAreHeard'
    BY <1>6 DEF FaultOnWatched, Triggers
  <1>7. ASSUME NEW g \in Guests, FaultOnUnwatched(g) PROVE WaitersAreHeard'
    BY <1>7 DEF FaultOnUnwatched
  <1>8. ASSUME NEW g \in Guests, FaultUnexpected(g) PROVE WaitersAreHeard'
    BY <1>8 DEF FaultUnexpected
  <1>9. ASSUME NEW g \in Guests, Ask(g) PROVE WaitersAreHeard'
    BY <1>9 DEF Ask
  <1>10. ASSUME NEW g \in Guests, NoneToAsk(g) PROVE WaitersAreHeard'
    BY <1>10 DEF NoneToAsk
  <1>11. ASSUME NEW g \in Guests, WakeServed(g) PROVE WaitersAreHeard'
    BY <1>11 DEF WakeServed
  <1>12. ASSUME NEW g \in Guests, WaitAgain(g) PROVE WaitersAreHeard'
    BY <1>12 DEF WaitAgain
  <1>13. ASSUME NEW g \in Guests, Disarm(g) PROVE WaitersAreHeard'
    BY <1>13 DEF Disarm
  <1>14. ASSUME NEW g \in Guests, DisarmForStore(g) PROVE WaitersAreHeard'
    BY <1>14 DEF DisarmForStore, Triggers
  <1>15. ASSUME NEW g \in Guests, Post(g) PROVE WaitersAreHeard'
    BY <1>15 DEF Post
  <1>16. ASSUME Draw PROVE WaitersAreHeard'
    BY <1>16 DEF Draw, BeginJob
  <1>17. ASSUME NEW m \in {"resolve", "export"}, WrittenByGpu(m) PROVE WaitersAreHeard'
    BY <1>17 DEF WrittenByGpu, BeginJob
  <1>18. ASSUME Poll PROVE WaitersAreHeard'
    BY <1>18 DEF Poll, BeginJob
  <1>19. ASSUME TakeRequests PROVE WaitersAreHeard'
    BY <1>19 DEF TakeRequests
  <1>20. ASSUME Awaited PROVE WaitersAreHeard'
    BY <1>20 DEF Awaited
  <1>21. ASSUME SkipRequest PROVE WaitersAreHeard'
    BY <1>21 DEF SkipRequest
  <1>22. ASSUME ServeRequest PROVE WaitersAreHeard'
    BY <1>22 DEF ServeRequest
  <1>23. ASSUME CopyOut PROVE WaitersAreHeard'
    BY <1>23 DEF CopyOut
  <1>24. ASSUME Materialized PROVE WaitersAreHeard'
    BY <1>24 DEF Materialized
  <1>25. ASSUME NotMapped PROVE WaitersAreHeard'
    BY <1>25 DEF NotMapped
  <1>26. ASSUME Served PROVE WaitersAreHeard'
    BY <1>26 DEF Served
  <1>27. ASSUME NotifyAll PROVE WaitersAreHeard'
    BY <1>27 DEF NotifyAll, EndJob
  <1>28. ASSUME UploadChunk PROVE WaitersAreHeard'
    BY <1>28 DEF UploadChunk
  <1>29. ASSUME UploadEnds PROVE WaitersAreHeard'
    BY <1>29 DEF UploadEnds, EndJob
  <1>30. ASSUME Enable PROVE WaitersAreHeard'
    BY <1>30 DEF Enable
  <1>31. ASSUME EnableLast PROVE WaitersAreHeard'
    BY <1>31 DEF EnableLast
  <1>32. ASSUME CopyIn PROVE WaitersAreHeard'
    BY <1>32 DEF CopyIn
  <1>33. ASSUME CopiedIn PROVE WaitersAreHeard'
    BY <1>33 DEF CopiedIn
  <1>34. ASSUME Register PROVE WaitersAreHeard'
    BY <1>34 DEF Register
  <1>35. ASSUME RegisterFails PROVE WaitersAreHeard'
    BY <1>35 DEF RegisterFails, EndJob
  <1>36. ASSUME Stage PROVE WaitersAreHeard'
    BY <1>36 DEF Stage
  <1>37. ASSUME StageNothing PROVE WaitersAreHeard'
    BY <1>37 DEF StageNothing, EndJob
  <1>38. ASSUME ArmRun PROVE WaitersAreHeard'
    BY <1>38 DEF ArmRun
  <1>39. ASSUME Armed PROVE WaitersAreHeard'
    BY <1>39 DEF Armed, EndJob
  <1>40. ASSUME Forget PROVE WaitersAreHeard'
    BY <1>40 DEF Forget, EndJob
  <1>41. QED
    BY <1>1, <1>2, <1>3, <1>4, <1>5, <1>6, <1>7, <1>8, <1>9, <1>10, <1>11, <1>12, <1>13, <1>14,
       <1>15, <1>16, <1>17, <1>18, <1>19, <1>20, <1>21, <1>22, <1>23, <1>24, <1>25, <1>26, <1>27,
       <1>28, <1>29, <1>30, <1>31, <1>32, <1>33, <1>34, <1>35, <1>36, <1>37, <1>38, <1>39,
       <1>40 DEF Next, Begins, Continues, Guest, Handle

-----------------------------------------------------------------------------
(* The contracts *)

\* A buffer holds what its contract's pages held; contracts that are kept do
\* not overlap; and the GPU's contents of its own pages are some store's, which
\* no buffer has while they are being marked.
Keeping ==
  /\ \A p \in Pages : mem[p] <= stamp /\ gpu[p] <= stamp
  /\ \A p \in written : gpu[p] > 0
  /\ \A k \in Ranges, p \in Pages : staged[k][p] <= stamp
  /\ \A k \in Ranges, p \in Pages : staged[k][p] # 0 => p \in k
  /\ gpc = "enable" /\ mode # "upload" =>
       \A k \in Ranges, p \in job \cap written : staged[k][p] # gpu[p]
  /\ \A k, l \in kept : k = l \/ k \cap l = {}
  /\ gpc = "stage" => \A k \in kept : k \cap job = {}
  /\ gpc = "copyout" => job \in kept /\ todo \subseteq job

\* Every step keeps the contracts apart and their contents old.
LEMMA KeepStep == ASSUME TypeOK, Marking, Keeping, Next PROVE Keeping'
  <1> USE DEF Keeping
  <1>1. ASSUME NEW g \in Guests, Begin(g) PROVE Keeping'
    BY <1>1 DEF Begin
  <1>2. ASSUME NEW g \in Guests, Load(g) PROVE Keeping'
    BY <1>2 DEF Load, EndAccess
  <1>3. ASSUME NEW g \in Guests, Store(g) PROVE Keeping'
    <2>1. /\ stamp' = stamp + 1 /\ stamp \in Nat
          /\ UNCHANGED <<gpu, written, staged, kept, gpc, mode, job, todo>>
      BY <1>3 DEF Store, TypeOK
    <2>2. \A p \in Pages : mem'[p] <= stamp'
      BY <1>3, <2>1 DEF Store, TypeOK
    <2>3. \A p \in Pages : gpu'[p] <= stamp'
      BY <2>1 DEF TypeOK
    <2>4. \A k \in Ranges, p \in Pages : staged'[k][p] <= stamp'
      BY <2>1 DEF TypeOK
    <2>5. QED
      BY <2>1, <2>2, <2>3, <2>4
  <1>4. ASSUME NEW g \in Guests, Fault(g) PROVE Keeping'
    BY <1>4 DEF Fault
  <1>5. ASSUME NEW g \in Guests, FaultOnArmed(g) PROVE Keeping'
    BY <1>5 DEF FaultOnArmed
  <1>6. ASSUME NEW g \in Guests, FaultOnWatched(g) PROVE Keeping'
    <2>1. Triggers(g)
      BY <1>6 DEF FaultOnWatched, Triggers
    <2>2. written' \subseteq written
      BY <2>1, TriggersEffect
    <2>3. QED
      BY <2>1, <2>2 DEF Triggers
  <1>7. ASSUME NEW g \in Guests, FaultOnUnwatched(g) PROVE Keeping'
    BY <1>7 DEF FaultOnUnwatched
  <1>8. ASSUME NEW g \in Guests, FaultUnexpected(g) PROVE Keeping'
    BY <1>8 DEF FaultUnexpected
  <1>9. ASSUME NEW g \in Guests, Ask(g) PROVE Keeping'
    BY <1>9 DEF Ask
  <1>10. ASSUME NEW g \in Guests, NoneToAsk(g) PROVE Keeping'
    BY <1>10 DEF NoneToAsk
  <1>11. ASSUME NEW g \in Guests, WakeServed(g) PROVE Keeping'
    BY <1>11 DEF WakeServed
  <1>12. ASSUME NEW g \in Guests, WaitAgain(g) PROVE Keeping'
    BY <1>12 DEF WaitAgain
  <1>13. ASSUME NEW g \in Guests, Disarm(g) PROVE Keeping'
    BY <1>13 DEF Disarm
  <1>14. ASSUME NEW g \in Guests, DisarmForStore(g) PROVE Keeping'
    <2>1. Triggers(g)
      BY <1>14 DEF DisarmForStore, Triggers
    <2>2. written' \subseteq written
      BY <2>1, TriggersEffect
    <2>3. QED
      BY <2>1, <2>2 DEF Triggers
  <1>15. ASSUME NEW g \in Guests, Post(g) PROVE Keeping'
    BY <1>15 DEF Post
  <1>16. ASSUME Draw PROVE Keeping'
    BY <1>16 DEF Draw, BeginJob
  <1>17. ASSUME NEW m \in {"resolve", "export"}, WrittenByGpu(m) PROVE Keeping'
    <2>1. PICK r \in Ranges :
            /\ job' = r /\ written' = written \cup r
            /\ gpu' = [p \in Pages |-> IF p \in r THEN stamp + 1 ELSE gpu[p]]
      BY <1>17 DEF WrittenByGpu, MarkValid
    <2>2. /\ stamp' = stamp + 1 /\ stamp \in Nat /\ gpc' = "enable"
          /\ UNCHANGED <<mem, staged, kept>>
      BY <1>17 DEF WrittenByGpu, TypeOK
    <2>3. \A p \in Pages : mem'[p] <= stamp' /\ gpu'[p] <= stamp'
      BY <2>1, <2>2 DEF TypeOK
    <2>4. \A k \in Ranges, p \in Pages : staged'[k][p] <= stamp
      BY <2>2
    <2>5. \A k \in Ranges, p \in Pages : staged'[k][p] <= stamp'
      BY <2>2, <2>4 DEF TypeOK
    <2>6. \A p \in r : gpu'[p] = stamp + 1
      BY <2>1, Firsts
    <2>7. \A k \in Ranges, p \in r : staged'[k][p] /= gpu'[p]
      BY <2>2, <2>4, <2>6, Firsts DEF TypeOK
    <2>8. \A p \in written' : gpu'[p] > 0
      <3>1. written \subseteq Pages /\ r \subseteq Pages
        BY Firsts DEF TypeOK, SharedTypeOK
      <3>2. \A p \in Pages \ r : gpu'[p] = gpu[p]
        BY <2>1
      <3>3. QED
        BY <2>1, <2>2, <2>6, <3>1, <3>2
    <2>9. QED
      BY <2>1, <2>2, <2>3, <2>5, <2>7, <2>8
  <1>18. ASSUME Poll PROVE Keeping'
    BY <1>18 DEF Poll, BeginJob
  <1>19. ASSUME TakeRequests PROVE Keeping'
    BY <1>19 DEF TakeRequests
  <1>20. ASSUME Awaited PROVE Keeping'
    BY <1>20 DEF Awaited
  <1>21. ASSUME SkipRequest PROVE Keeping'
    BY <1>21 DEF SkipRequest
  <1>22. ASSUME ServeRequest PROVE Keeping'
    <2>1. PICK k \in taken : /\ k \in kept /\ job' = k
                            /\ todo' = {p \in k : staged[k][p] /= 0}
      BY <1>22 DEF ServeRequest
    <2>2. QED
      BY <1>22, <2>1 DEF ServeRequest
  <1>23. ASSUME CopyOut PROVE Keeping'
    <2>1. PICK p \in todo : mem' = [mem EXCEPT ![p] = staged[job][p]]
      BY <1>23 DEF CopyOut
    <2>2. job \in Ranges /\ p \in Pages
      BY <1>23, <2>1 DEF CopyOut, TypeOK
    <2>3. \A q \in Pages : mem'[q] <= stamp
      BY <2>1, <2>2 DEF TypeOK
    <2>4. QED
      BY <1>23, <2>3 DEF CopyOut
  <1>24. ASSUME Materialized PROVE Keeping'
    BY <1>24 DEF Materialized
  <1>25. ASSUME NotMapped PROVE Keeping'
    BY <1>25 DEF NotMapped
  <1>26. ASSUME Served PROVE Keeping'
    BY <1>26 DEF Served
  <1>27. ASSUME NotifyAll PROVE Keeping'
    BY <1>27 DEF NotifyAll, EndJob
  <1>28. ASSUME UploadChunk PROVE Keeping'
    BY <1>28 DEF UploadChunk, MarkValid
  <1>29. ASSUME UploadEnds PROVE Keeping'
    BY <1>29 DEF UploadEnds, EndJob
  <1>30. ASSUME Enable PROVE Keeping'
    BY <1>30 DEF Enable
  <1>31. ASSUME EnableLast PROVE Keeping'
    BY <1>31 DEF EnableLast
  <1>32. ASSUME CopyIn PROVE Keeping'
    <2>1. PICK p \in todo : gpu' = [gpu EXCEPT ![p] = mem[p]]
      BY <1>32 DEF CopyIn
    <2>2. p \in Pages /\ p \notin written
      BY <1>32, <2>1 DEF CopyIn, TypeOK, Marking
    <2>3. \A q \in Pages : gpu'[q] <= stamp
      BY <2>1, <2>2 DEF TypeOK
    <2>4. \A q \in written : gpu'[q] = gpu[q]
      BY <2>1, <2>2 DEF TypeOK, SharedTypeOK
    <2>5. QED
      BY <1>32, <2>3, <2>4 DEF CopyIn
  <1>33. ASSUME CopiedIn PROVE Keeping'
    BY <1>33 DEF CopiedIn
  <1>34. ASSUME Register PROVE Keeping'
    <2>1. PICK keep \in SUBSET kept : /\ \A k \in keep : k \cap job = {}
                                     /\ Keep(keep)
      BY <1>34 DEF Register, DropForJob
    <2>2. /\ kept' = keep
          /\ staged' = [r \in Ranges |->
                         IF r \in keep THEN staged[r] ELSE [p \in Pages |-> 0]]
      BY <2>1 DEF Keep
    <2>3. \A k \in Ranges, p \in Pages : staged'[k][p] = staged[k][p] \/ staged'[k][p] = 0
      BY <2>2
    <2>4. \A k \in Ranges, p \in Pages : staged'[k][p] <= stamp
      BY <2>3 DEF TypeOK
    <2>5. \A k \in Ranges, p \in Pages : staged'[k][p] /= 0 => p \in k
      BY <2>3
    <2>6. \A k, l \in kept' : k = l \/ k \cap l = {}
      BY <2>2
    <2>7. \A k \in kept' : k \cap job = {}
      BY <2>1, <2>2
    <2>8. QED
      BY <1>34, <2>4, <2>5, <2>6, <2>7 DEF Register
  <1>35. ASSUME RegisterFails PROVE Keeping'
    <2>1. PICK keep \in SUBSET kept : /\ \A k \in keep : k \cap job = {}
                                     /\ Keep(keep)
      BY <1>35 DEF RegisterFails, EndJob, DropForJob
    <2>2. /\ kept' = keep
          /\ staged' = [r \in Ranges |->
                         IF r \in keep THEN staged[r] ELSE [p \in Pages |-> 0]]
      BY <2>1 DEF Keep
    <2>3. \A k \in Ranges, p \in Pages : staged'[k][p] = staged[k][p] \/ staged'[k][p] = 0
      BY <2>2
    <2>4. \A k \in Ranges, p \in Pages : staged'[k][p] <= stamp
      BY <2>3 DEF TypeOK
    <2>5. \A k \in Ranges, p \in Pages : staged'[k][p] /= 0 => p \in k
      BY <2>3
    <2>6. \A k, l \in kept' : k = l \/ k \cap l = {}
      BY <2>2
    <2>7. \A k \in kept' : k \cap job = {}
      BY <2>1, <2>2
    <2>8. QED
      BY <1>35, <2>4, <2>5, <2>6, <2>7 DEF RegisterFails, EndJob
  <1>36. ASSUME Stage PROVE Keeping'
    <2>1. /\ kept' = kept \cup {job} /\ gpc = "stage" /\ gpc' = "arm" /\ job \in Ranges
          /\ staged' = [staged EXCEPT ![job] =
                [p \in Pages |-> IF p \in GpuWritten(job) THEN gpu[p] ELSE 0]]
          /\ UNCHANGED <<mem, gpu, stamp, written, mode, job>>
      BY <1>36 DEF Stage, TypeOK
    <2>2. \A k \in Ranges, p \in Pages :
            staged'[k][p] = IF k /= job THEN staged[k][p]
                            ELSE IF p \in GpuWritten(job) THEN gpu[p] ELSE 0
      BY <2>1 DEF TypeOK
    <2>3. \A k \in Ranges, p \in Pages : staged'[k][p] <= stamp
      BY <2>2 DEF TypeOK
    <2>4. \A k \in Ranges, p \in Pages : staged'[k][p] /= 0 => p \in k
      BY <2>2 DEF GpuWritten
    <2>5. \A k, l \in kept' : k = l \/ k \cap l = {}
      BY <2>1
    <2>6. QED
      BY <2>1, <2>3, <2>4, <2>5
  <1>37. ASSUME StageNothing PROVE Keeping'
    BY <1>37 DEF StageNothing, EndJob
  <1>38. ASSUME ArmRun PROVE Keeping'
    BY <1>38 DEF ArmRun
  <1>39. ASSUME Armed PROVE Keeping'
    BY <1>39 DEF Armed, EndJob
  <1>40. ASSUME Forget PROVE Keeping'
    <2>1. PICK keep \in SUBSET kept : /\ \A k \in keep : k \cap job = {}
                                     /\ Keep(keep)
      BY <1>40 DEF Forget, EndJob
    <2>2. /\ kept' = keep
          /\ staged' = [r \in Ranges |->
                         IF r \in keep THEN staged[r] ELSE [p \in Pages |-> 0]]
      BY <2>1 DEF Keep
    <2>3. \A k \in Ranges, p \in Pages : staged'[k][p] = staged[k][p] \/ staged'[k][p] = 0
      BY <2>2
    <2>4. \A k \in Ranges, p \in Pages : staged'[k][p] <= stamp
      BY <2>3 DEF TypeOK
    <2>5. \A k \in Ranges, p \in Pages : staged'[k][p] /= 0 => p \in k
      BY <2>3
    <2>6. \A k, l \in kept' : k = l \/ k \cap l = {}
      BY <2>2
    <2>7. \A k \in kept' : k \cap job = {}
      BY <2>1, <2>2
    <2>8. QED
      BY <1>40, <2>4, <2>5, <2>6, <2>7 DEF Forget, EndJob
  <1>41. QED
    BY <1>1, <1>2, <1>3, <1>4, <1>5, <1>6, <1>7, <1>8, <1>9, <1>10, <1>11, <1>12, <1>13, <1>14,
       <1>15, <1>16, <1>17, <1>18, <1>19, <1>20, <1>21, <1>22, <1>23, <1>24, <1>25, <1>26, <1>27,
       <1>28, <1>29, <1>30, <1>31, <1>32, <1>33, <1>34, <1>35, <1>36, <1>37, <1>38, <1>39,
       <1>40 DEF Next, Begins, Continues, Guest, Handle

\* The pages that a range newly marked covers are not owed.
LEMMA MarkedNotOwed ==
  ASSUME TypeOK, Marking, Keeping, NEW p \in job, gpc = "enable"
  PROVE  ~Owed(p)
  <1>1. mode # "upload" /\ p \in written =>
          \A k \in kept : staged[k][p] # gpu[p]
    BY DEF Keeping, TypeOK
  <1>2. mode = "upload" => p \notin written
    BY DEF Marking
  <1>3. QED
    BY <1>1, <1>2 DEF Owed, GpuWritten

\* A page is owed only if one buffer has its bytes.
LEMMA OwedOnce ==
  ASSUME TypeOK, Keeping, NEW p \in written, NEW k \in kept, NEW l \in kept,
         staged[k][p] = gpu[p], staged[l][p] # 0
  PROVE  k = l
  <1>1. p \in Pages /\ k \in Ranges /\ l \in Ranges /\ gpu[p] # 0
    BY DEF TypeOK, SharedTypeOK, Keeping
  <1>2. p \in k /\ p \in l
    BY <1>1 DEF Keeping
  <1>3. QED
    BY <1>2 DEF Keeping

-----------------------------------------------------------------------------
(* What is owed *)

\* A step can only make pages owed that the worker has yet to arm, and no page
\* that is not owed already becomes so otherwise.
LEMMA OwedStep ==
  ASSUME TypeOK, Watching, Marking, Keeping, Next, NEW p \in Pages, Owed(p)'
  PROVE  Owed(p) \/ (gpc' = "arm" /\ p \in todo')
  <1> USE DEF Owed, GpuWritten
  <1>1. ASSUME NEW g \in Guests, Begin(g) PROVE Owed(p) \/ (gpc' = "arm" /\ p \in todo')
    BY <1>1 DEF Begin
  <1>2. ASSUME NEW g \in Guests, Load(g) PROVE Owed(p) \/ (gpc' = "arm" /\ p \in todo')
    BY <1>2 DEF Load, EndAccess
  <1>3. ASSUME NEW g \in Guests, Store(g) PROVE Owed(p) \/ (gpc' = "arm" /\ p \in todo')
    <2>1. CASE p /= page[g]
      <3>1. mem'[p] = mem[p]
        BY <1>3, <2>1 DEF Store, TypeOK
      <3>2. QED
        BY <1>3, <3>1 DEF Store
    <2>2. CASE p = page[g]
      <3>1. p \in valid /\ host[<<view[g], p>>] = "all" /\ view[g] \in Views
        BY <1>3, <2>2, PlaceType DEF Store
      <3>2. gpc = "enable" /\ p \in job
        BY <3>1, Noticed DEF WatchedWhileValid, Enabling
      <3>3. mode = "upload" => p \notin written
        BY <3>2 DEF Marking
      <3>4. mode /= "upload" /\ p \in written => \A k \in kept : staged[k][p] /= gpu[p]
        BY <3>2 DEF Keeping, TypeOK
      <3>5. QED
        BY <1>3, <3>3, <3>4 DEF Store
    <2>3. QED
      BY <2>1, <2>2
  <1>4. ASSUME NEW g \in Guests, Fault(g) PROVE Owed(p) \/ (gpc' = "arm" /\ p \in todo')
    BY <1>4 DEF Fault
  <1>5. ASSUME NEW g \in Guests, FaultOnArmed(g) PROVE Owed(p) \/ (gpc' = "arm" /\ p \in todo')
    BY <1>5 DEF FaultOnArmed
  <1>6. ASSUME NEW g \in Guests, FaultOnWatched(g) PROVE Owed(p) \/ (gpc' = "arm" /\ p \in todo')
    <2>1. Triggers(g)
      BY <1>6 DEF FaultOnWatched, Triggers
    <2>2. written' \subseteq written /\ valid' \subseteq valid
      BY <2>1, TriggersEffect
    <2>3. QED
      BY <2>1, <2>2 DEF Triggers
  <1>7. ASSUME NEW g \in Guests, FaultOnUnwatched(g) PROVE Owed(p) \/ (gpc' = "arm" /\ p \in todo')
    BY <1>7 DEF FaultOnUnwatched
  <1>8. ASSUME NEW g \in Guests, FaultUnexpected(g) PROVE Owed(p) \/ (gpc' = "arm" /\ p \in todo')
    BY <1>8 DEF FaultUnexpected
  <1>9. ASSUME NEW g \in Guests, Ask(g) PROVE Owed(p) \/ (gpc' = "arm" /\ p \in todo')
    BY <1>9 DEF Ask
  <1>10. ASSUME NEW g \in Guests, NoneToAsk(g) PROVE Owed(p) \/ (gpc' = "arm" /\ p \in todo')
    BY <1>10 DEF NoneToAsk
  <1>11. ASSUME NEW g \in Guests, WakeServed(g) PROVE Owed(p) \/ (gpc' = "arm" /\ p \in todo')
    BY <1>11 DEF WakeServed
  <1>12. ASSUME NEW g \in Guests, WaitAgain(g) PROVE Owed(p) \/ (gpc' = "arm" /\ p \in todo')
    BY <1>12 DEF WaitAgain
  <1>13. ASSUME NEW g \in Guests, Disarm(g) PROVE Owed(p) \/ (gpc' = "arm" /\ p \in todo')
    BY <1>13 DEF Disarm
  <1>14. ASSUME NEW g \in Guests, DisarmForStore(g) PROVE Owed(p) \/ (gpc' = "arm" /\ p \in todo')
    <2>1. Triggers(g)
      BY <1>14 DEF DisarmForStore, Triggers
    <2>2. written' \subseteq written /\ valid' \subseteq valid
      BY <2>1, TriggersEffect
    <2>3. QED
      BY <2>1, <2>2 DEF Triggers
  <1>15. ASSUME NEW g \in Guests, Post(g) PROVE Owed(p) \/ (gpc' = "arm" /\ p \in todo')
    BY <1>15 DEF Post
  <1>16. ASSUME Draw PROVE Owed(p) \/ (gpc' = "arm" /\ p \in todo')
    BY <1>16 DEF Draw, BeginJob
  <1>17. ASSUME NEW m \in {"resolve", "export"}, WrittenByGpu(m) PROVE Owed(p) \/ (gpc' = "arm" /\ p \in todo')
    <2>1. PICK r \in Ranges :
            /\ written' = written \cup r /\ valid' = valid \cup r
            /\ gpu' = [q \in Pages |-> IF q \in r THEN stamp + 1 ELSE gpu[q]]
      BY <1>17 DEF WrittenByGpu, MarkValid
    <2>2. UNCHANGED <<mem, staged, kept, done>>
      BY <1>17 DEF WrittenByGpu
    <2>3. CASE p \in r
      <3>1. \A k \in kept : staged[k][p] <= stamp /\ staged[k][p] \in Nat
        BY DEF Keeping, TypeOK
      <3>2. gpu'[p] = stamp + 1 /\ stamp \in Nat
        BY <2>1, <2>3 DEF TypeOK
      <3>3. \A k \in kept : staged[k][p] /= gpu'[p]
        BY <3>1, <3>2
      <3>4. QED
        BY <2>2, <3>3
    <2>4. CASE p \notin r
      BY <2>1, <2>2, <2>4
    <2>5. QED
      BY <2>3, <2>4
  <1>18. ASSUME Poll PROVE Owed(p) \/ (gpc' = "arm" /\ p \in todo')
    BY <1>18 DEF Poll, BeginJob
  <1>19. ASSUME TakeRequests PROVE Owed(p) \/ (gpc' = "arm" /\ p \in todo')
    BY <1>19 DEF TakeRequests
  <1>20. ASSUME Awaited PROVE Owed(p) \/ (gpc' = "arm" /\ p \in todo')
    BY <1>20 DEF Awaited
  <1>21. ASSUME SkipRequest PROVE Owed(p) \/ (gpc' = "arm" /\ p \in todo')
    BY <1>21 DEF SkipRequest
  <1>22. ASSUME ServeRequest PROVE Owed(p) \/ (gpc' = "arm" /\ p \in todo')
    BY <1>22 DEF ServeRequest
  <1>23. ASSUME CopyOut PROVE Owed(p) \/ (gpc' = "arm" /\ p \in todo')
    <2>1. PICK q \in todo : mem' = [mem EXCEPT ![q] = staged[job][q]]
      BY <1>23 DEF CopyOut
    <2>2. UNCHANGED <<valid, written, gpu, staged, kept, done>>
      BY <1>23 DEF CopyOut
    <2>3. CASE p /= q
      BY <2>1, <2>2, <2>3 DEF TypeOK
    <2>4. CASE p = q
      <3>1. mem'[p] = staged[job][p]
        BY <2>1, <2>4 DEF TypeOK
      <3>2. PICK k \in kept \ done : staged[k][p] = gpu[p]
        BY <2>2
      <3>3. p \in written /\ gpu[p] /= mem'[p]
        BY <2>2
      <3>4. job \in kept /\ p \in job /\ k /= job
        BY <1>23, <2>4, <3>1, <3>2, <3>3 DEF CopyOut, Keeping
      <3>5. gpu[p] /= 0
        BY <3>3 DEF Keeping, TypeOK, SharedTypeOK
      <3>6. p \in k
        BY <3>2, <3>5 DEF Keeping, TypeOK
      <3>7. QED
        BY <3>2, <3>4, <3>6 DEF Keeping
    <2>5. QED
      BY <2>3, <2>4
  <1>24. ASSUME Materialized PROVE Owed(p) \/ (gpc' = "arm" /\ p \in todo')
    BY <1>24 DEF Materialized
  <1>25. ASSUME NotMapped PROVE Owed(p) \/ (gpc' = "arm" /\ p \in todo')
    BY <1>25 DEF NotMapped
  <1>26. ASSUME Served PROVE Owed(p) \/ (gpc' = "arm" /\ p \in todo')
    BY <1>26 DEF Served
  <1>27. ASSUME NotifyAll PROVE Owed(p) \/ (gpc' = "arm" /\ p \in todo')
    BY <1>27 DEF NotifyAll, EndJob
  <1>28. ASSUME UploadChunk PROVE Owed(p) \/ (gpc' = "arm" /\ p \in todo')
    BY <1>28 DEF UploadChunk, MarkValid
  <1>29. ASSUME UploadEnds PROVE Owed(p) \/ (gpc' = "arm" /\ p \in todo')
    BY <1>29 DEF UploadEnds, EndJob
  <1>30. ASSUME Enable PROVE Owed(p) \/ (gpc' = "arm" /\ p \in todo')
    BY <1>30 DEF Enable
  <1>31. ASSUME EnableLast PROVE Owed(p) \/ (gpc' = "arm" /\ p \in todo')
    BY <1>31 DEF EnableLast
  <1>32. ASSUME CopyIn PROVE Owed(p) \/ (gpc' = "arm" /\ p \in todo')
    <2>1. PICK q \in todo : gpu' = [gpu EXCEPT ![q] = mem[q]]
      BY <1>32 DEF CopyIn
    <2>2. gpu'[q] = mem[q] /\ \A r \in Pages : r = q \/ gpu'[r] = gpu[r]
      BY <2>1 DEF TypeOK
    <2>3. QED
      BY <1>32, <2>2 DEF CopyIn
  <1>33. ASSUME CopiedIn PROVE Owed(p) \/ (gpc' = "arm" /\ p \in todo')
    BY <1>33 DEF CopiedIn
  <1>34. ASSUME Register PROVE Owed(p) \/ (gpc' = "arm" /\ p \in todo')
    <2>1. PICK keep \in SUBSET kept : Keep(keep)
      BY <1>34 DEF Register, DropForJob
    <2>2. /\ kept' = keep /\ done' = done \cap keep
          /\ \A k \in keep : staged'[k] = staged[k]
      BY <2>1 DEF Keep, TypeOK
    <2>3. QED
      BY <1>34, <2>2 DEF Register
  <1>35. ASSUME RegisterFails PROVE Owed(p) \/ (gpc' = "arm" /\ p \in todo')
    <2>1. PICK keep \in SUBSET kept : Keep(keep)
      BY <1>35 DEF RegisterFails, EndJob, DropForJob
    <2>2. /\ kept' = keep /\ done' = done \cap keep
          /\ \A k \in keep : staged'[k] = staged[k]
      BY <2>1 DEF Keep, TypeOK
    <2>3. QED
      BY <1>35, <2>2 DEF RegisterFails, EndJob
  <1>36. ASSUME Stage PROVE Owed(p) \/ (gpc' = "arm" /\ p \in todo')
    <2>1. /\ kept' = kept \cup {job} /\ gpc' = "arm" /\ job \in Ranges
          /\ done' = done \ {job} /\ todo' = GpuWritten(job)
          /\ staged' = [staged EXCEPT ![job] =
                [q \in Pages |-> IF q \in GpuWritten(job) THEN gpu[q] ELSE 0]]
          /\ UNCHANGED <<mem, gpu, stamp, written, valid>>
      BY <1>36 DEF Stage, TypeOK
    <2>2. PICK k \in kept' \ done' : staged'[k][p] = gpu[p]
      BY <2>1
    <2>3. p \in written /\ p \in valid /\ gpu[p] /= 0
      BY <2>1 DEF Keeping, TypeOK, SharedTypeOK
    <2>4. CASE k /= job
      BY <2>1, <2>2, <2>4 DEF TypeOK
    <2>5. CASE k = job
      <3>1. staged'[k][p] = IF p \in GpuWritten(job) THEN gpu[p] ELSE 0
        BY <2>1, <2>5 DEF TypeOK
      <3>2. QED
        BY <2>1, <2>2, <2>3, <3>1
    <2>6. QED
      BY <2>4, <2>5
  <1>37. ASSUME StageNothing PROVE Owed(p) \/ (gpc' = "arm" /\ p \in todo')
    BY <1>37 DEF StageNothing, EndJob
  <1>38. ASSUME ArmRun PROVE Owed(p) \/ (gpc' = "arm" /\ p \in todo')
    BY <1>38 DEF ArmRun
  <1>39. ASSUME Armed PROVE Owed(p) \/ (gpc' = "arm" /\ p \in todo')
    BY <1>39 DEF Armed, EndJob
  <1>40. ASSUME Forget PROVE Owed(p) \/ (gpc' = "arm" /\ p \in todo')
    <2>1. PICK keep \in SUBSET kept : Keep(keep)
      BY <1>40 DEF Forget, EndJob
    <2>2. /\ kept' = keep /\ done' = done \cap keep
          /\ \A k \in keep : staged'[k] = staged[k]
      BY <2>1 DEF Keep, TypeOK
    <2>3. QED
      BY <1>40, <2>2 DEF Forget, EndJob
  <1>41. QED
    BY <1>1, <1>2, <1>3, <1>4, <1>5, <1>6, <1>7, <1>8, <1>9, <1>10, <1>11, <1>12, <1>13, <1>14,
       <1>15, <1>16, <1>17, <1>18, <1>19, <1>20, <1>21, <1>22, <1>23, <1>24, <1>25, <1>26, <1>27,
       <1>28, <1>29, <1>30, <1>31, <1>32, <1>33, <1>34, <1>35, <1>36, <1>37, <1>38, <1>39,
       <1>40 DEF Next, Begins, Continues, Guest, Handle

\* Every step keeps what is owed hidden: a page leaves the worker's list when
\* it is armed, enabling touches no page that is owed, and unwatching only
\* pages that are owed no more.
LEMMA HideStep ==
  ASSUME TypeOK, Watching, Marking, Keeping, OwedIsHidden, Next
  PROVE  OwedIsHidden'
  <1> DEFINE Hidden(p) == \A v \in Views : host[<<v, p>>] = "none" \/ <<v, p>> \in late
             Pending(p) == gpc = "arm" /\ p \in todo
  <1> SUFFICES ASSUME NEW p \in Pages, Owed(p)', ~Pending(p)'
               PROVE  Hidden(p)'
    BY DEF OwedIsHidden
  <1>a. Owed(p)
    BY OwedStep
  <1>b. Hidden(p) \/ Pending(p)
    BY <1>a DEF OwedIsHidden
  <1> HIDE DEF Hidden, Pending
  <1> USE <1>b DEF Hidden, Pending
  <1>1. ASSUME NEW g \in Guests, Begin(g) PROVE Hidden(p)'
    BY <1>1 DEF Begin
  <1>2. ASSUME NEW g \in Guests, Load(g) PROVE Hidden(p)'
    BY <1>2 DEF Load, EndAccess
  <1>3. ASSUME NEW g \in Guests, Store(g) PROVE Hidden(p)'
    BY <1>3 DEF Store, EndAccess
  <1>4. ASSUME NEW g \in Guests, Fault(g) PROVE Hidden(p)'
    BY <1>4 DEF Fault
  <1>5. ASSUME NEW g \in Guests, FaultOnArmed(g) PROVE Hidden(p)'
    BY <1>5 DEF FaultOnArmed
  <1>6. ASSUME NEW g \in Guests, FaultOnWatched(g) PROVE Hidden(p)'
    <2>1. Triggers(g) /\ gpc' = gpc /\ todo' = todo /\ late' = late
      BY <1>6 DEF FaultOnWatched, Triggers
    <2>2. p \notin Widened(page[g])
      BY <2>1, TriggersEffect DEF Owed, GpuWritten
    <2>3. \A v \in Views : host'[<<v, p>>] = host[<<v, p>>]
      BY <2>1, <2>2, TriggersEffect
    <2>4. QED
      BY <1>b, <2>1, <2>3 DEF Hidden, Pending
  <1>7. ASSUME NEW g \in Guests, FaultOnUnwatched(g) PROVE Hidden(p)'
    BY <1>7 DEF FaultOnUnwatched
  <1>8. ASSUME NEW g \in Guests, FaultUnexpected(g) PROVE Hidden(p)'
    BY <1>8 DEF FaultUnexpected
  <1>9. ASSUME NEW g \in Guests, Ask(g) PROVE Hidden(p)'
    BY <1>9 DEF Ask
  <1>10. ASSUME NEW g \in Guests, NoneToAsk(g) PROVE Hidden(p)'
    BY <1>10 DEF NoneToAsk
  <1>11. ASSUME NEW g \in Guests, WakeServed(g) PROVE Hidden(p)'
    BY <1>11 DEF WakeServed
  <1>12. ASSUME NEW g \in Guests, WaitAgain(g) PROVE Hidden(p)'
    BY <1>12 DEF WaitAgain
  <1>13. ASSUME NEW g \in Guests, Disarm(g) PROVE Hidden(p)'
    <2>1. /\ DisarmReadWatch(view[g], page[g]) /\ HeapTypeOK
          /\ gpc' = gpc /\ todo' = todo
          /\ late' = IF Owed(page[g]) THEN late \cup {Place(g)} ELSE late
      BY <1>13 DEF Disarm, TypeOK
    <2>2. \A x \in Places \ {Place(g)} : host'[x] = host[x]
      BY <2>1, PlaceType, DisarmEffect
    <2>3. Hidden(p)
      BY <1>b, <2>1 DEF Pending
    <2>4. ASSUME NEW v \in Views PROVE host'[<<v, p>>] = "none" \/ <<v, p>> \in late'
      <3>1. CASE <<v, p>> = Place(g)
        BY <1>a, <2>1, <3>1 DEF Place
      <3>2. CASE <<v, p>> /= Place(g)
        BY <2>1, <2>2, <2>3, <3>2, PlaceOf DEF Hidden
      <3>3. QED
        BY <3>1, <3>2
    <2>5. QED
      BY <2>4 DEF Hidden
  <1>14. ASSUME NEW g \in Guests, DisarmForStore(g) PROVE Hidden(p)'
    <2>1. Triggers(g) /\ gpc' = gpc /\ todo' = todo /\ late' = late
      BY <1>14 DEF DisarmForStore, Triggers
    <2>2. p \notin Widened(page[g])
      BY <2>1, TriggersEffect DEF Owed, GpuWritten
    <2>3. \A v \in Views : host'[<<v, p>>] = host[<<v, p>>]
      BY <2>1, <2>2, TriggersEffect
    <2>4. QED
      BY <1>b, <2>1, <2>3 DEF Hidden, Pending
  <1>15. ASSUME NEW g \in Guests, Post(g) PROVE Hidden(p)'
    BY <1>15 DEF Post
  <1>16. ASSUME Draw PROVE Hidden(p)'
    BY <1>16 DEF Draw, BeginJob
  <1>17. ASSUME NEW m \in {"resolve", "export"}, WrittenByGpu(m) PROVE Hidden(p)'
    BY <1>17 DEF WrittenByGpu, BeginJob
  <1>18. ASSUME Poll PROVE Hidden(p)'
    BY <1>18 DEF Poll, BeginJob
  <1>19. ASSUME TakeRequests PROVE Hidden(p)'
    BY <1>19 DEF TakeRequests
  <1>20. ASSUME Awaited PROVE Hidden(p)'
    BY <1>20 DEF Awaited
  <1>21. ASSUME SkipRequest PROVE Hidden(p)'
    BY <1>21 DEF SkipRequest
  <1>22. ASSUME ServeRequest PROVE Hidden(p)'
    BY <1>22 DEF ServeRequest
  <1>23. ASSUME CopyOut PROVE Hidden(p)'
    BY <1>23 DEF CopyOut
  <1>24. ASSUME Materialized PROVE Hidden(p)'
    BY <1>24 DEF Materialized
  <1>25. ASSUME NotMapped PROVE Hidden(p)'
    BY <1>25 DEF NotMapped
  <1>26. ASSUME Served PROVE Hidden(p)'
    BY <1>26 DEF Served
  <1>27. ASSUME NotifyAll PROVE Hidden(p)'
    BY <1>27 DEF NotifyAll, EndJob
  <1>28. ASSUME UploadChunk PROVE Hidden(p)'
    BY <1>28 DEF UploadChunk
  <1>29. ASSUME UploadEnds PROVE Hidden(p)'
    BY <1>29 DEF UploadEnds, EndJob
  <1>30. ASSUME Enable PROVE Hidden(p)'
    <2>1. /\ EnableAccessCallbacks(next, job) /\ HeapTypeOK /\ job \in SUBSET Pages
          /\ next \in Views /\ late' = late /\ gpc = "enable"
      BY <1>30 DEF Enable, TypeOK
    <2>2. p \notin job
      BY <1>a, <2>1, MarkedNotOwed
    <2>3. \A v \in Views : host'[<<v, p>>] = host[<<v, p>>]
      BY <2>1, <2>2, EnableEffect
    <2>4. QED
      BY <1>b, <2>1, <2>3 DEF Hidden, Pending
  <1>31. ASSUME EnableLast PROVE Hidden(p)'
    <2>1. /\ EnableAccessCallbacks(next, job) /\ HeapTypeOK /\ job \in SUBSET Pages
          /\ next \in Views /\ late' = late /\ gpc = "enable"
      BY <1>31 DEF EnableLast, TypeOK
    <2>2. p \notin job
      BY <1>a, <2>1, MarkedNotOwed
    <2>3. \A v \in Views : host'[<<v, p>>] = host[<<v, p>>]
      BY <2>1, <2>2, EnableEffect
    <2>4. QED
      BY <1>b, <2>1, <2>3 DEF Hidden, Pending
  <1>32. ASSUME CopyIn PROVE Hidden(p)'
    BY <1>32 DEF CopyIn
  <1>33. ASSUME CopiedIn PROVE Hidden(p)'
    BY <1>33 DEF CopiedIn
  <1>34. ASSUME Register PROVE Hidden(p)'
    BY <1>34 DEF Register
  <1>35. ASSUME RegisterFails PROVE Hidden(p)'
    BY <1>35 DEF RegisterFails, EndJob
  <1>36. ASSUME Stage PROVE Hidden(p)'
    BY <1>36 DEF Stage
  <1>37. ASSUME StageNothing PROVE Hidden(p)'
    BY <1>37 DEF StageNothing, EndJob
  <1>38. ASSUME ArmRun PROVE Hidden(p)'
    <2>1. PICK run \in Ranges : /\ ArmResolveReadWatch(run) /\ todo' = todo \ run
                                /\ late' = late \ (Views \X run) /\ gpc' = gpc
      BY <1>38 DEF ArmRun
    <2>2. HeapTypeOK /\ run \in SUBSET Pages
      BY Firsts DEF TypeOK
    <2>3. \A v \in Views : host'[<<v, p>>] = IF p \in run THEN "none" ELSE host[<<v, p>>]
      BY <2>1, <2>2, ArmEffect
    <2>4. p \in run \/ Hidden(p)
      BY <1>b, <2>1 DEF Pending
    <2>5. \A v \in Views : <<v, p>> \in late => p \in run \/ <<v, p>> \in late'
      BY <2>1
    <2>6. QED
      BY <2>3, <2>4, <2>5 DEF Hidden
  <1>39. ASSUME Armed PROVE Hidden(p)'
    BY <1>39 DEF Armed, EndJob
  <1>40. ASSUME Forget PROVE Hidden(p)'
    BY <1>40 DEF Forget, EndJob
  <1>41. QED
    BY <1>1, <1>2, <1>3, <1>4, <1>5, <1>6, <1>7, <1>8, <1>9, <1>10, <1>11, <1>12, <1>13, <1>14,
       <1>15, <1>16, <1>17, <1>18, <1>19, <1>20, <1>21, <1>22, <1>23, <1>24, <1>25, <1>26, <1>27,
       <1>28, <1>29, <1>30, <1>31, <1>32, <1>33, <1>34, <1>35, <1>36, <1>37, <1>38, <1>39,
       <1>40 DEF Next, Begins, Continues, Guest, Handle


-----------------------------------------------------------------------------
(* The faults *)

\* A thread has its place in hand when it has taken the read watch off.
InHand(h) == pc[h] \in {"callback", "waiting", "woken", "disarm"}

\* A place that is hidden has a read watch, or a thread that gives it back.
Tended ==
  \A v \in Views, p \in Pages :
    host[<<v, p>>] = "none" =>
      \/ <<v, p>> \in armed
      \/ \E h \in Guests : InHand(h) /\ Place(h) = <<v, p>>

\* Every step keeps the hidden places tended.
LEMMA TendStep == ASSUME TypeOK, Tended, Next PROVE Tended'
  <1> DEFINE Tends(v, p) == \/ <<v, p>> \in armed
                            \/ \E h \in Guests : InHand(h) /\ Place(h) = <<v, p>>
  <1> SUFFICES ASSUME NEW v \in Views, NEW p \in Pages, host'[<<v, p>>] = "none"
               PROVE  Tends(v, p)'
    BY DEF Tended
  <1>a. host[<<v, p>>] = "none" => Tends(v, p)
    BY DEF Tended
  <1>1. ASSUME NEW g \in Guests, Begin(g) PROVE Tends(v, p)'
    <2>1. /\ host' = host /\ armed' = armed
          /\ \A h \in Guests \ {g} : pc'[h] = pc[h] /\ Place(h)' = Place(h)
          /\ ~InHand(g)
      BY <1>1 DEF Begin, TypeOK, Goto, InHand, Place
    <2>2. QED
      BY <1>a, <2>1 DEF InHand
  <1>2. ASSUME NEW g \in Guests, Load(g) PROVE Tends(v, p)'
    <2>1. /\ host' = host /\ armed' = armed
          /\ \A h \in Guests \ {g} : pc'[h] = pc[h] /\ Place(h)' = Place(h)
          /\ ~InHand(g)
      BY <1>2 DEF Load, EndAccess, TypeOK, Goto, InHand, Place
    <2>2. QED
      BY <1>a, <2>1 DEF InHand
  <1>3. ASSUME NEW g \in Guests, Store(g) PROVE Tends(v, p)'
    <2>1. /\ host' = host /\ armed' = armed
          /\ \A h \in Guests \ {g} : pc'[h] = pc[h] /\ Place(h)' = Place(h)
          /\ ~InHand(g)
      BY <1>3 DEF Store, EndAccess, TypeOK, Goto, InHand, Place
    <2>2. QED
      BY <1>a, <2>1 DEF InHand
  <1>4. ASSUME NEW g \in Guests, Fault(g) PROVE Tends(v, p)'
    <2>1. /\ host' = host /\ armed' = armed
          /\ \A h \in Guests \ {g} : pc'[h] = pc[h] /\ Place(h)' = Place(h)
          /\ ~InHand(g)
      BY <1>4 DEF Fault, TypeOK, Goto, InHand, Place
    <2>2. QED
      BY <1>a, <2>1 DEF InHand
  <1>5. ASSUME NEW g \in Guests, FaultOnArmed(g) PROVE Tends(v, p)'
    <2>1. /\ host' = host /\ armed' = armed \ {Place(g)}
          /\ \A h \in Guests : InHand(h) => InHand(h)'
          /\ \A h \in Guests : Place(h)' = Place(h)
          /\ InHand(g)'
      BY <1>5 DEF FaultOnArmed, TypeOK, Goto, InHand, Place
    <2>2. QED
      BY <1>a, <2>1
  <1>6. ASSUME NEW g \in Guests, FaultOnWatched(g) PROVE Tends(v, p)'
    <2>1. /\ Triggers(g)
          /\ \A h \in Guests \ {g} : pc'[h] = pc[h] /\ Place(h)' = Place(h)
      BY <1>6 DEF FaultOnWatched, Triggers, TypeOK, Goto, Place
    <2>2. /\ armed' = armed
          /\ host'[<<v, p>>] = IF v = view[g] /\ p \in Widened(page[g]) /\ <<v, p>> \in notify
                               THEN "all" ELSE host[<<v, p>>]
      BY <2>1, TriggersEffect
    <2>3. host[<<v, p>>] = "none"
      BY <2>2
    <2>4. ~InHand(g)
      BY <1>6 DEF FaultOnWatched, InHand
    <2>5. QED
      BY <1>a, <2>1, <2>2, <2>3, <2>4 DEF InHand
  <1>7. ASSUME NEW g \in Guests, FaultOnUnwatched(g) PROVE Tends(v, p)'
    <2>1. /\ host' = host /\ armed' = armed
          /\ \A h \in Guests \ {g} : pc'[h] = pc[h] /\ Place(h)' = Place(h)
          /\ ~InHand(g)
      BY <1>7 DEF FaultOnUnwatched, TypeOK, Goto, InHand, Place
    <2>2. QED
      BY <1>a, <2>1 DEF InHand
  <1>8. ASSUME NEW g \in Guests, FaultUnexpected(g) PROVE Tends(v, p)'
    <2>1. /\ host' = host /\ armed' = armed
          /\ \A h \in Guests \ {g} : pc'[h] = pc[h] /\ Place(h)' = Place(h)
          /\ ~InHand(g)
      BY <1>8 DEF FaultUnexpected, TypeOK, Goto, InHand, Place
    <2>2. QED
      BY <1>a, <2>1 DEF InHand
  <1>9. ASSUME NEW g \in Guests, Ask(g) PROVE Tends(v, p)'
    <2>1. /\ host' = host /\ armed' = armed
          /\ \A h \in Guests : InHand(h) => InHand(h)' /\ Place(h)' = Place(h)
      BY <1>9 DEF Ask, TypeOK, Goto, InHand, Place
    <2>2. QED
      BY <1>a, <2>1
  <1>10. ASSUME NEW g \in Guests, NoneToAsk(g) PROVE Tends(v, p)'
    <2>1. /\ host' = host /\ armed' = armed
          /\ \A h \in Guests : InHand(h) => InHand(h)' /\ Place(h)' = Place(h)
      BY <1>10 DEF NoneToAsk, TypeOK, Goto, InHand, Place
    <2>2. QED
      BY <1>a, <2>1
  <1>11. ASSUME NEW g \in Guests, WakeServed(g) PROVE Tends(v, p)'
    <2>1. /\ host' = host /\ armed' = armed
          /\ \A h \in Guests : InHand(h) => InHand(h)' /\ Place(h)' = Place(h)
      BY <1>11 DEF WakeServed, TypeOK, Goto, InHand, Place
    <2>2. QED
      BY <1>a, <2>1
  <1>12. ASSUME NEW g \in Guests, WaitAgain(g) PROVE Tends(v, p)'
    <2>1. /\ host' = host /\ armed' = armed
          /\ \A h \in Guests : InHand(h) => InHand(h)' /\ Place(h)' = Place(h)
      BY <1>12 DEF WaitAgain, TypeOK, Goto, InHand, Place
    <2>2. QED
      BY <1>a, <2>1
  <1>13. ASSUME NEW g \in Guests, Disarm(g) PROVE Tends(v, p)'
    <2>1. /\ DisarmReadWatch(view[g], page[g]) /\ HeapTypeOK
          /\ \A h \in Guests \ {g} : pc'[h] = pc[h] /\ Place(h)' = Place(h)
      BY <1>13 DEF Disarm, TypeOK, Goto, Place
    <2>2. /\ armed' = armed
          /\ \A x \in Places \ {Place(g)} : host'[x] = host[x]
          /\ host'[Place(g)] \in {"read", "all"}
      BY <2>1, PlaceType, DisarmEffect
    <2>3. Place(g) /= <<v, p>> /\ host[<<v, p>>] = "none"
      BY <2>2, PlaceOf
    <2>4. QED
      BY <1>a, <2>1, <2>2, <2>3 DEF InHand
  <1>14. ASSUME NEW g \in Guests, DisarmForStore(g) PROVE Tends(v, p)'
    <2>1. /\ Triggers(g)
          /\ \A h \in Guests \ {g} : pc'[h] = pc[h] /\ Place(h)' = Place(h)
      BY <1>14 DEF DisarmForStore, Triggers, TypeOK, Goto, Place
    <2>2. /\ armed' = armed
          /\ host'[<<v, p>>] = IF v = view[g] /\ p \in Widened(page[g]) /\ <<v, p>> \in notify
                               THEN "all" ELSE host[<<v, p>>]
      BY <2>1, TriggersEffect
    <2>3. host[<<v, p>>] = "none"
      BY <2>2
    <2>4. Place(g) /= <<v, p>>
      <3>1. <<view[g], page[g]>> \in notify /\ page[g] \in Pages
        BY <1>14, PlaceType DEF DisarmForStore, Place
      <3>2. v = view[g] /\ p = page[g] => host'[<<v, p>>] = "all"
        BY <2>2, <3>1, WidenedEffect
      <3>3. QED
        BY <3>2 DEF Place
    <2>5. QED
      BY <1>a, <2>1, <2>2, <2>3, <2>4 DEF InHand
  <1>15. ASSUME NEW g \in Guests, Post(g) PROVE Tends(v, p)'
    <2>1. /\ host' = host /\ armed' = armed
          /\ \A h \in Guests : InHand(h) => InHand(h)' /\ Place(h)' = Place(h)
      BY <1>15 DEF Post, TypeOK, Goto, InHand, Place
    <2>2. QED
      BY <1>a, <2>1
  <1>16. ASSUME Draw PROVE Tends(v, p)'
    BY <1>16, <1>a DEF Draw, BeginJob, InHand, Place
  <1>17. ASSUME NEW m \in {"resolve", "export"}, WrittenByGpu(m) PROVE Tends(v, p)'
    BY <1>17, <1>a DEF WrittenByGpu, BeginJob, InHand, Place
  <1>18. ASSUME Poll PROVE Tends(v, p)'
    BY <1>18, <1>a DEF Poll, BeginJob, InHand, Place
  <1>19. ASSUME TakeRequests PROVE Tends(v, p)'
    BY <1>19, <1>a DEF TakeRequests, InHand, Place
  <1>20. ASSUME Awaited PROVE Tends(v, p)'
    BY <1>20, <1>a DEF Awaited, InHand, Place
  <1>21. ASSUME SkipRequest PROVE Tends(v, p)'
    BY <1>21, <1>a DEF SkipRequest, InHand, Place
  <1>22. ASSUME ServeRequest PROVE Tends(v, p)'
    BY <1>22, <1>a DEF ServeRequest, InHand, Place
  <1>23. ASSUME CopyOut PROVE Tends(v, p)'
    BY <1>23, <1>a DEF CopyOut, InHand, Place
  <1>24. ASSUME Materialized PROVE Tends(v, p)'
    BY <1>24, <1>a DEF Materialized, InHand, Place
  <1>25. ASSUME NotMapped PROVE Tends(v, p)'
    BY <1>25, <1>a DEF NotMapped, InHand, Place
  <1>26. ASSUME Served PROVE Tends(v, p)'
    BY <1>26, <1>a DEF Served, InHand, Place
  <1>27. ASSUME NotifyAll PROVE Tends(v, p)'
    <2>1. /\ host' = host /\ armed' = armed
          /\ \A h \in Guests : InHand(h) => InHand(h)' /\ Place(h)' = Place(h)
      BY <1>27 DEF NotifyAll, EndJob, TypeOK, Goto, InHand, Place
    <2>2. QED
      BY <1>a, <2>1
  <1>28. ASSUME UploadChunk PROVE Tends(v, p)'
    BY <1>28, <1>a DEF UploadChunk, InHand, Place
  <1>29. ASSUME UploadEnds PROVE Tends(v, p)'
    BY <1>29, <1>a DEF UploadEnds, EndJob, InHand, Place
  <1>30. ASSUME Enable PROVE Tends(v, p)'
    <2>1. /\ EnableAccessCallbacks(next, job) /\ HeapTypeOK /\ job \in SUBSET Pages
          /\ next \in Views /\ UNCHANGED <<pc, view, page>>
      BY <1>30 DEF Enable, TypeOK
    <2>2. armed' = armed /\ host[<<v, p>>] = "none"
      BY <2>1, EnableEffect
    <2>3. QED
      BY <1>a, <2>1, <2>2 DEF InHand, Place
  <1>31. ASSUME EnableLast PROVE Tends(v, p)'
    <2>1. /\ EnableAccessCallbacks(next, job) /\ HeapTypeOK /\ job \in SUBSET Pages
          /\ next \in Views /\ UNCHANGED <<pc, view, page>>
      BY <1>31 DEF EnableLast, TypeOK
    <2>2. armed' = armed /\ host[<<v, p>>] = "none"
      BY <2>1, EnableEffect
    <2>3. QED
      BY <1>a, <2>1, <2>2 DEF InHand, Place
  <1>32. ASSUME CopyIn PROVE Tends(v, p)'
    BY <1>32, <1>a DEF CopyIn, InHand, Place
  <1>33. ASSUME CopiedIn PROVE Tends(v, p)'
    BY <1>33, <1>a DEF CopiedIn, InHand, Place
  <1>34. ASSUME Register PROVE Tends(v, p)'
    BY <1>34, <1>a DEF Register, InHand, Place
  <1>35. ASSUME RegisterFails PROVE Tends(v, p)'
    BY <1>35, <1>a DEF RegisterFails, EndJob, InHand, Place
  <1>36. ASSUME Stage PROVE Tends(v, p)'
    BY <1>36, <1>a DEF Stage, InHand, Place
  <1>37. ASSUME StageNothing PROVE Tends(v, p)'
    BY <1>37, <1>a DEF StageNothing, EndJob, InHand, Place
  <1>38. ASSUME ArmRun PROVE Tends(v, p)'
    <2>1. PICK run \in Ranges : ArmResolveReadWatch(run) /\ UNCHANGED <<pc, view, page>>
      BY <1>38 DEF ArmRun
    <2>2. HeapTypeOK /\ run \in SUBSET Pages
      BY Firsts DEF TypeOK
    <2>3. /\ <<v, p>> \in armed' <=> <<v, p>> \in armed \/ p \in run
          /\ host'[<<v, p>>] = IF p \in run THEN "none" ELSE host[<<v, p>>]
      BY <2>1, <2>2, ArmEffect
    <2>4. QED
      BY <1>a, <2>1, <2>3 DEF InHand, Place
  <1>39. ASSUME Armed PROVE Tends(v, p)'
    BY <1>39, <1>a DEF Armed, EndJob, InHand, Place
  <1>40. ASSUME Forget PROVE Tends(v, p)'
    BY <1>40, <1>a DEF Forget, EndJob, InHand, Place
  <1>41. QED
    BY <1>1, <1>2, <1>3, <1>4, <1>5, <1>6, <1>7, <1>8, <1>9, <1>10, <1>11, <1>12, <1>13, <1>14,
       <1>15, <1>16, <1>17, <1>18, <1>19, <1>20, <1>21, <1>22, <1>23, <1>24, <1>25, <1>26, <1>27,
       <1>28, <1>29, <1>30, <1>31, <1>32, <1>33, <1>34, <1>35, <1>36, <1>37, <1>38, <1>39,
       <1>40 DEF Next, Begins, Continues, Guest, Handle

\* Only a store to a page makes the GPU's bytes there count no more, and not if
\* they are owed and hidden, for then the place has a read watch or a thread
\* that is about to collect them.
LEMMA DataStep ==
  ASSUME TypeOK, Marking, OwedIsHidden, Tended, Next, NEW p \in written \ written'
  PROVE  \E g \in Guests : MayTake(g, p)
  <1>a. p \in Pages
    BY DEF TypeOK, SharedTypeOK
  <1>1. ASSUME NEW g \in Guests, Begin(g) PROVE \E x \in Guests : MayTake(x, p)
    BY <1>1 DEF Begin
  <1>2. ASSUME NEW g \in Guests, Load(g) PROVE \E x \in Guests : MayTake(x, p)
    BY <1>2 DEF Load, EndAccess
  <1>3. ASSUME NEW g \in Guests, Store(g) PROVE \E x \in Guests : MayTake(x, p)
    BY <1>3 DEF Store, EndAccess
  <1>4. ASSUME NEW g \in Guests, Fault(g) PROVE \E x \in Guests : MayTake(x, p)
    BY <1>4 DEF Fault
  <1>5. ASSUME NEW g \in Guests, FaultOnArmed(g) PROVE \E x \in Guests : MayTake(x, p)
    BY <1>5 DEF FaultOnArmed
  <1>6. ASSUME NEW g \in Guests, FaultOnWatched(g) PROVE \E x \in Guests : MayTake(x, p)
    <2>1. Triggers(g)
      BY <1>6 DEF FaultOnWatched, Triggers
    <2>2. p \in Widened(page[g]) /\ page[g] \in Pages
      BY <2>1, TriggersEffect, PlaceType
    <2>3. page[g] = p
      BY <2>2, WidenedEffect
    <2>4. Owed(p) /\ ~(gpc = "arm" /\ p \in todo) /\ Place(g) \notin late =>
            \E h \in Guests : InHand(h) /\ Place(h) = Place(g)
      <3>1. Place(g) = <<view[g], p>> /\ view[g] \in Views /\ Place(g) \notin armed
        BY <1>6, <2>3, PlaceType DEF FaultOnWatched
      <3>2. QED
        BY <1>a, <3>1 DEF OwedIsHidden, Tended
    <2>5. MayTake(g, p)
      BY <1>6, <2>3, <2>4 DEF MayTake, FaultOnWatched, InHand
    <2>6. QED
      BY <2>5
  <1>7. ASSUME NEW g \in Guests, FaultOnUnwatched(g) PROVE \E x \in Guests : MayTake(x, p)
    BY <1>7 DEF FaultOnUnwatched
  <1>8. ASSUME NEW g \in Guests, FaultUnexpected(g) PROVE \E x \in Guests : MayTake(x, p)
    BY <1>8 DEF FaultUnexpected
  <1>9. ASSUME NEW g \in Guests, Ask(g) PROVE \E x \in Guests : MayTake(x, p)
    BY <1>9 DEF Ask
  <1>10. ASSUME NEW g \in Guests, NoneToAsk(g) PROVE \E x \in Guests : MayTake(x, p)
    BY <1>10 DEF NoneToAsk
  <1>11. ASSUME NEW g \in Guests, WakeServed(g) PROVE \E x \in Guests : MayTake(x, p)
    BY <1>11 DEF WakeServed
  <1>12. ASSUME NEW g \in Guests, WaitAgain(g) PROVE \E x \in Guests : MayTake(x, p)
    BY <1>12 DEF WaitAgain
  <1>13. ASSUME NEW g \in Guests, Disarm(g) PROVE \E x \in Guests : MayTake(x, p)
    BY <1>13 DEF Disarm
  <1>14. ASSUME NEW g \in Guests, DisarmForStore(g) PROVE \E x \in Guests : MayTake(x, p)
    <2>1. Triggers(g)
      BY <1>14 DEF DisarmForStore, Triggers
    <2>2. p \in Widened(page[g]) /\ page[g] \in Pages
      BY <2>1, TriggersEffect, PlaceType
    <2>3. page[g] = p
      BY <2>2, WidenedEffect
    <2>4. pc[g] = "disarm" /\ store[g]
      BY <1>14 DEF DisarmForStore
    <2>5. MayTake(g, p)
      BY <2>3, <2>4 DEF MayTake
    <2>6. QED
      BY <2>5
  <1>15. ASSUME NEW g \in Guests, Post(g) PROVE \E x \in Guests : MayTake(x, p)
    BY <1>15 DEF Post
  <1>16. ASSUME Draw PROVE \E x \in Guests : MayTake(x, p)
    BY <1>16 DEF Draw, BeginJob
  <1>17. ASSUME NEW m \in {"resolve", "export"}, WrittenByGpu(m) PROVE \E x \in Guests : MayTake(x, p)
    BY <1>17 DEF WrittenByGpu, BeginJob, MarkValid
  <1>18. ASSUME Poll PROVE \E x \in Guests : MayTake(x, p)
    BY <1>18 DEF Poll, BeginJob
  <1>19. ASSUME TakeRequests PROVE \E x \in Guests : MayTake(x, p)
    BY <1>19 DEF TakeRequests
  <1>20. ASSUME Awaited PROVE \E x \in Guests : MayTake(x, p)
    BY <1>20 DEF Awaited
  <1>21. ASSUME SkipRequest PROVE \E x \in Guests : MayTake(x, p)
    BY <1>21 DEF SkipRequest
  <1>22. ASSUME ServeRequest PROVE \E x \in Guests : MayTake(x, p)
    BY <1>22 DEF ServeRequest
  <1>23. ASSUME CopyOut PROVE \E x \in Guests : MayTake(x, p)
    BY <1>23 DEF CopyOut
  <1>24. ASSUME Materialized PROVE \E x \in Guests : MayTake(x, p)
    BY <1>24 DEF Materialized
  <1>25. ASSUME NotMapped PROVE \E x \in Guests : MayTake(x, p)
    BY <1>25 DEF NotMapped
  <1>26. ASSUME Served PROVE \E x \in Guests : MayTake(x, p)
    BY <1>26 DEF Served
  <1>27. ASSUME NotifyAll PROVE \E x \in Guests : MayTake(x, p)
    BY <1>27 DEF NotifyAll, EndJob
  <1>28. ASSUME UploadChunk PROVE \E x \in Guests : MayTake(x, p)
    BY <1>28 DEF UploadChunk, MarkValid, Marking, Uploads
  <1>29. ASSUME UploadEnds PROVE \E x \in Guests : MayTake(x, p)
    BY <1>29 DEF UploadEnds, EndJob
  <1>30. ASSUME Enable PROVE \E x \in Guests : MayTake(x, p)
    BY <1>30 DEF Enable
  <1>31. ASSUME EnableLast PROVE \E x \in Guests : MayTake(x, p)
    BY <1>31 DEF EnableLast
  <1>32. ASSUME CopyIn PROVE \E x \in Guests : MayTake(x, p)
    BY <1>32 DEF CopyIn
  <1>33. ASSUME CopiedIn PROVE \E x \in Guests : MayTake(x, p)
    BY <1>33 DEF CopiedIn
  <1>34. ASSUME Register PROVE \E x \in Guests : MayTake(x, p)
    BY <1>34 DEF Register
  <1>35. ASSUME RegisterFails PROVE \E x \in Guests : MayTake(x, p)
    BY <1>35 DEF RegisterFails, EndJob
  <1>36. ASSUME Stage PROVE \E x \in Guests : MayTake(x, p)
    BY <1>36 DEF Stage
  <1>37. ASSUME StageNothing PROVE \E x \in Guests : MayTake(x, p)
    BY <1>37 DEF StageNothing, EndJob
  <1>38. ASSUME ArmRun PROVE \E x \in Guests : MayTake(x, p)
    BY <1>38 DEF ArmRun
  <1>39. ASSUME Armed PROVE \E x \in Guests : MayTake(x, p)
    BY <1>39 DEF Armed, EndJob
  <1>40. ASSUME Forget PROVE \E x \in Guests : MayTake(x, p)
    BY <1>40 DEF Forget, EndJob
  <1>41. QED
    BY <1>1, <1>2, <1>3, <1>4, <1>5, <1>6, <1>7, <1>8, <1>9, <1>10, <1>11, <1>12, <1>13, <1>14,
       <1>15, <1>16, <1>17, <1>18, <1>19, <1>20, <1>21, <1>22, <1>23, <1>24, <1>25, <1>26, <1>27,
       <1>28, <1>29, <1>30, <1>31, <1>32, <1>33, <1>34, <1>35, <1>36, <1>37, <1>38, <1>39,
       <1>40 DEF Next, Begins, Continues, Guest, Handle

-----------------------------------------------------------------------------
(* The theorems *)

\* All that the steps keep.
IInv ==
  /\ TypeOK /\ Watching /\ Marking /\ CopyIsCurrent /\ WaitersAreHeard /\ Keeping
  /\ OwedIsHidden /\ Tended

\* Nothing is valid, kept or hidden at first.
LEMMA Initially == Init => IInv
  <1> SUFFICES ASSUME Init PROVE IInv
    OBVIOUS
  <1> USE DEF Init, HeapInit, SharedInit
  <1>1. HeapTypeOK /\ \A x \in Places : host[x] = "all"
    BY DEF HeapTypeOK, Accesses
  <1>2. TypeOK
    BY <1>1, Firsts DEF TypeOK, SharedTypeOK, GuestLabels, WorkerLabels
  <1>3. Watching /\ Marking /\ CopyIsCurrent /\ WaitersAreHeard
    BY DEF Watching, Marking, Uploads, CopyIsCurrent, WaitersAreHeard
  <1>4. Keeping
    BY DEF Keeping
  <1>5. OwedIsHidden /\ Tended
    BY <1>1, PlaceOf DEF OwedIsHidden, Owed, GpuWritten, Tended
  <1>6. QED
    BY <1>2, <1>3, <1>4, <1>5 DEF IInv

\* A step that changes nothing breaks nothing.
LEMMA Stutter == IInv /\ UNCHANGED vars => IInv'
  <1> SUFFICES ASSUME IInv, UNCHANGED vars PROVE IInv'
    OBVIOUS
  <1> USE DEF IInv, vars
  <1>1. TypeOK'
    BY DEF TypeOK, HeapTypeOK, SharedTypeOK
  <1>2. Watching' /\ Marking' /\ CopyIsCurrent' /\ WaitersAreHeard'
    BY DEF Watching, Enabling, Marking, Uploads, CopyIsCurrent, Uploading, WaitersAreHeard
  <1>3. Keeping' /\ OwedIsHidden' /\ Tended'
    BY DEF Keeping, OwedIsHidden, Owed, GpuWritten, Tended, InHand, Place
  <1>4. QED
    BY <1>1, <1>2, <1>3

\* What the steps keep holds always.
LEMMA Always == Spec => []IInv
  <1>1. IInv /\ [Next]_vars => IInv'
    BY Stutter, TypeStep, WatchStep, MarkStep, CopyStep, HeardStep, KeepStep,
       HideStep, TendStep DEF IInv
  <1>2. QED
    BY <1>1, Initially, PTL DEF Spec

\* Every variable keeps its type, for any number of pages, windows and threads.
THEOREM ContractTypes == Spec => []TypeOK
  BY Always, PTL DEF IInv

\* EnableAccessCallbacks, TriggerCallbacks and the callback of the shared memory
\* agree: no page is valid on the GPU that a store could change unnoticed.
THEOREM StoresAreNoticed == Spec => []WatchedWhileValid
  <1>1. IInv => WatchedWhileValid
    BY Noticed DEF IInv
  <1>2. QED
    BY <1>1, Always, PTL

\* MakeRangeValid marks a page before the upload reads it, so that a store in
\* between makes it invalid again: the GPU's copy is never silently old.
THEOREM CopyStaysCurrent == Spec => []CopyIsCurrent
  BY Always, PTL DEF IInv

\* The faulting thread queues its request before it waits, and the worker wakes
\* all after it has taken any: a request not yet in hand is in the queue.
THEOREM WaitsAreHeard == Spec => []WaitersAreHeard
  BY Always, PTL DEF IInv

\* RegisterResolveContract arms whatever it owes, and nothing but a thread that
\* disarms late shows those bytes to the guest.
THEOREM OwedStaysHidden == Spec => []OwedIsHidden
  BY Always, PTL DEF IInv

\* The range that a store gives up is never widened over bytes that the GPU has
\* written, nor does an upload take their place; and bytes that are owed are
\* given up only where a read watch was taken off first.
THEOREM GpuDataIsKept == Spec => GpuDataKept
  <1>1. IInv /\ Next => \A p \in written \ written' : \E g \in Guests : MayTake(g, p)
    BY DataStep DEF IInv
  <1>2. QED
    BY <1>1, Always, PTL DEF Spec, GpuDataKept

=============================================================================
