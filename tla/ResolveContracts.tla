--------------------------- MODULE ResolveContracts ---------------------------
(***************************************************************************)
(* The guest's memory and the GPU's copy of it, kept together by page       *)
(* faults.  The worker thread of the command processor uploads the pages   *)
(* that a draw reads and that are not valid, and marks those that a        *)
(* resolve or a memory export stores to.  It watches both, so that a later *)
(* store of the guest faults and makes them invalid.                       *)
(*                                                                         *)
(* The bytes of a resolve are owed to the guest's memory, not copied: a    *)
(* contract (vulkan_command_processor.cc) keeps them in a buffer, and read *)
(* watches on its pages make the first access fault.  The faulting thread  *)
(* asks the worker to copy the bytes, waits for it, and takes the          *)
(* protection away.                                                        *)
(*                                                                         *)
(* Contents are stamps: each store, of a guest or of the GPU, writes a new  *)
(* one.  The GPU executes what the worker records in order, so that a store *)
(* of the GPU and the copy into a buffer take effect when recorded.        *)
(***************************************************************************)
EXTENDS SharedMemory, FiniteSets

CONSTANTS
  Guests,      \* the guest's threads
  MaxAccesses, \* bound on the accesses the guest's threads begin
  MaxJobs      \* bound on the draws, resolves, exports and waits of the worker

ASSUME ContractAssumption ==
  /\ MaxAccesses \in Nat
  /\ MaxJobs \in Nat

\* A contract's key is its range of pages.
Ranges == {r \in SUBSET Pages : \E a, b \in r : r = a .. b}

VARIABLES
  mem,        \* the guest's memory: its pages' contents
  gpu,        \* the GPU's copy
  stamp,      \* the last stamp given
  kept,       \* the keys of resolve_contracts_
  done,       \* those that are materialized
  staged,     \* the contents in a contract's buffer, 0 outside its valid_runs
  queued,     \* the pages of resolve_contract_invalidations_
  requests,   \* resolve_contract_materialize_requests_
  taken,      \* the requests that the worker serves
  pc,         \* where a guest's thread is
  view,       \* its access: the window,
  page,       \* the page,
  store,      \* and whether it stores
  key,        \* the contract it waits for
  gpc,        \* where the worker is
  mode,       \* what it makes valid: an "upload", a "resolve", an "export"
  job,        \* the range it works on
  todo,       \* its pages that are still to be copied or armed
  left,       \* the pages that are still to be uploaded
  next,       \* the window it enables next
  accesses,   \* the accesses begun
  jobs,       \* the jobs begun
  late,       \* the places disarmed while their page was owed
  again,      \* the threads that woke to find their contract not materialized
  clobbered   \* the guest's own pages that a contract was copied over

dataVars == <<mem, gpu, stamp>>
contractVars == <<kept, done, staged, queued>>
guestVars == <<pc, view, page, store, key, accesses>>
workerVars == <<gpc, mode, job, todo, left, next, taken, jobs>>
ghostVars == <<late, again, clobbered>>
vars == <<heapVars, sharedVars, dataVars, contractVars, requests, guestVars,
          workerVars, ghostVars>>

GuestLabels ==
  {"idle", "access", "fault", "callback", "waiting", "woken", "disarm",
   "crashed"}
WorkerLabels ==
  {"idle", "await", "serve", "copyout", "notify", "upload", "enable", "copyin",
   "register", "stage", "arm", "forget", "polling"}

\* Every variable has its type: contents are stamps, keys are ranges of pages,
\* and each thread is at one of the code's steps.
TypeOK ==
  /\ HeapTypeOK
  /\ SharedTypeOK
  /\ mem \in [Pages -> Nat] /\ gpu \in [Pages -> Nat] /\ stamp \in Nat
  /\ kept \subseteq Ranges /\ done \subseteq Ranges
  /\ staged \in [Ranges -> [Pages -> Nat]]
  /\ queued \subseteq Pages
  /\ requests \subseteq Ranges /\ taken \subseteq Ranges
  /\ pc \in [Guests -> GuestLabels]
  /\ view \in [Guests -> Views] /\ page \in [Guests -> Pages]
  /\ store \in [Guests -> BOOLEAN]
  /\ key \in [Guests -> SUBSET Pages]
  /\ gpc \in WorkerLabels /\ mode \in {"upload", "resolve", "export"}
  /\ job \subseteq Pages /\ todo \subseteq Pages /\ left \subseteq Pages
  /\ gpc \in {"copyout", "enable", "register", "stage", "arm"} =>
       job \in Ranges
  /\ next \in Views /\ accesses \in Nat /\ jobs \in Nat
  /\ late \subseteq Places
  /\ again \subseteq Guests
  /\ clobbered \subseteq Pages

Init ==
  /\ HeapInit
  /\ SharedInit
  /\ mem = [p \in Pages |-> 0] /\ gpu = [p \in Pages |-> 0] /\ stamp = 0
  /\ kept = {} /\ done = {} /\ queued = {} /\ requests = {} /\ taken = {}
  /\ staged = [r \in Ranges |-> [p \in Pages |-> 0]]
  /\ pc = [g \in Guests |-> "idle"]
  /\ view = [g \in Guests |-> 1] /\ page = [g \in Guests |-> 0]
  /\ store = [g \in Guests |-> FALSE]
  /\ key = [g \in Guests |-> {}]
  /\ gpc = "idle" /\ mode = "upload"
  /\ job = {} /\ todo = {} /\ left = {} /\ next = 1
  /\ accesses = 0 /\ jobs = 0 /\ late = {} /\ again = {}
  /\ clobbered = {}

-----------------------------------------------------------------------------
\* resolve_contracts_mutex_: the worker holds it over several steps, the
\* guests only within one.
MutexFree == gpc \notin {"serve", "copyout", "stage", "arm"}

\* The contents of page p are in no place but the GPU's copy and a buffer
\* that a contract still keeps.
Owed(p) ==
  /\ p \in GpuWritten({p})
  /\ mem[p] # gpu[p]
  /\ \E k \in kept \ done : staged[k][p] = gpu[p]

Place(g) == <<view[g], page[g]>>

\* The contracts with the keys K stay, the others are destroyed.
Keep(K) ==
  /\ kept' = K
  /\ done' = done \cap K
  /\ staged' = [r \in Ranges |->
                 IF r \in K THEN staged[r] ELSE [p \in Pages |-> 0]]

Goto(g, label) == pc' = [pc EXCEPT ![g] = label]

\* The access is over; what it was is of no account any more.
EndAccess(g) ==
  /\ Goto(g, "idle")
  /\ view' = [view EXCEPT ![g] = 1]
  /\ page' = [page EXCEPT ![g] = 0]
  /\ store' = [store EXCEPT ![g] = FALSE]

\* A guest's thread comes to a load or a store.
Begin(g) ==
  /\ pc[g] = "idle"
  /\ accesses < MaxAccesses
  /\ accesses' = accesses + 1
  /\ \E v \in Views, p \in Pages, s \in BOOLEAN :
       /\ view' = [view EXCEPT ![g] = v]
       /\ page' = [page EXCEPT ![g] = p]
       /\ store' = [store EXCEPT ![g] = s]
  /\ Goto(g, "access")
  /\ UNCHANGED <<heapVars, sharedVars, dataVars, contractVars, requests, key,
                 workerVars, ghostVars>>

Load(g) ==
  /\ pc[g] = "access" /\ ~store[g]
  /\ host[Place(g)] # "none"
  /\ EndAccess(g)
  /\ UNCHANGED <<heapVars, sharedVars, dataVars, contractVars, requests, key,
                 accesses, workerVars, ghostVars>>

Store(g) ==
  /\ pc[g] = "access" /\ store[g]
  /\ host[Place(g)] = "all"
  /\ stamp' = stamp + 1
  /\ mem' = [mem EXCEPT ![page[g]] = stamp + 1]
  /\ EndAccess(g)
  /\ UNCHANGED <<heapVars, sharedVars, gpu, contractVars, requests, key,
                 accesses,
                 workerVars, ghostVars>>

\* The host's protection stops it, and its handler asks for the global lock.
Fault(g) ==
  /\ pc[g] = "access"
  /\ host[Place(g)] = "none" \/ (store[g] /\ host[Place(g)] # "all")
  /\ Goto(g, "fault")
  /\ UNCHANGED <<heapVars, sharedVars, dataVars, contractVars, requests, view,
                 page, store, key, accesses, workerVars, ghostVars>>

\* The place has a read watch: it is taken off, and the lock is left.
FaultOnArmed(g) ==
  /\ pc[g] = "fault"
  /\ Place(g) \in armed
  /\ armed' = armed \ {Place(g)}
  /\ Goto(g, "callback")
  /\ UNCHANGED <<notify, host, sharedVars, dataVars, contractVars, requests,
                 view, page, store, key, accesses, workerVars, ghostVars>>

\* A store to a watched place.
Triggers(g) ==
  /\ TriggerCallbacks(view[g], page[g])
  /\ queued' = queued \cup {page[g]}
  /\ Goto(g, "access")
  /\ UNCHANGED <<dataVars, kept, done, staged, requests, view, page, store,
                 key,
                 accesses, workerVars, ghostVars>>

FaultOnWatched(g) ==
  /\ pc[g] = "fault"
  /\ Place(g) \notin armed /\ store[g]
  /\ Place(g) \in notify
  /\ Triggers(g)

\* Another thread has taken the watch off in the meantime: try again.
FaultOnUnwatched(g) ==
  /\ pc[g] = "fault"
  /\ Place(g) \notin armed /\ store[g]
  /\ Place(g) \notin notify
  /\ Goto(g, "access")
  /\ UNCHANGED <<heapVars, sharedVars, dataVars, contractVars, requests, view,
                 page, store, key, accesses, workerVars, ghostVars>>

\* A load that finds no read watch any more: the handler does not take it,
\* and the program ends.
FaultUnexpected(g) ==
  /\ pc[g] = "fault"
  /\ Place(g) \notin armed /\ ~store[g]
  /\ Goto(g, "crashed")
  /\ UNCHANGED <<heapVars, sharedVars, dataVars, contractVars, requests, view,
                 page, store, key, accesses, workerVars, ghostVars>>

\* MaterializeResolveContractForGuest: ask for a contract on the page.
Ask(g) ==
  /\ pc[g] = "callback" /\ MutexFree
  /\ \E k \in kept \ done :
       /\ page[g] \in k
       /\ key' = [key EXCEPT ![g] = k]
       /\ requests' = requests \cup {k}
  /\ again' = again \ {g}
  /\ Goto(g, "waiting")
  /\ UNCHANGED <<heapVars, sharedVars, dataVars, contractVars, view, page,
                 store,
                 accesses, workerVars, late, clobbered>>

NoneToAsk(g) ==
  /\ pc[g] = "callback" /\ MutexFree
  /\ \A k \in kept \ done : page[g] \notin k
  /\ Goto(g, "disarm")
  /\ UNCHANGED <<heapVars, sharedVars, dataVars, contractVars, requests, view,
                 page, store, key, accesses, workerVars, ghostVars>>

\* The condition of its wait, looked at again after notify_all.
WakeServed(g) ==
  /\ pc[g] = "woken" /\ MutexFree
  /\ key[g] \notin kept \ done
  /\ Goto(g, "disarm")
  /\ key' = [key EXCEPT ![g] = {}]
  /\ UNCHANGED <<heapVars, sharedVars, dataVars, contractVars, requests, view,
                 page, store, accesses, workerVars, ghostVars>>

WaitAgain(g) ==
  /\ pc[g] = "woken" /\ MutexFree
  /\ key[g] \in kept \ done
  /\ Goto(g, "waiting")
  /\ again' = again \cup {g}
  /\ UNCHANGED <<heapVars, sharedVars, dataVars, contractVars, requests, view,
                 page, store, key, accesses, workerVars, late, clobbered>>

\* With the global lock again: the protection is restored for the retry.
Disarm(g) ==
  /\ pc[g] = "disarm"
  /\ ~store[g] \/ Place(g) \notin notify
  /\ DisarmReadWatch(view[g], page[g])
  /\ late' = IF Owed(page[g]) THEN late \cup {Place(g)} ELSE late
  /\ Goto(g, "access")
  /\ UNCHANGED <<sharedVars, dataVars, contractVars, requests, view, page,
                 store,
                 key, accesses, workerVars, again, clobbered>>

\* A store goes on to the write watch that the place also has, and that makes
\* it writable.
DisarmForStore(g) ==
  /\ pc[g] = "disarm"
  /\ store[g] /\ Place(g) \in notify
  /\ Triggers(g)

\* A guest stores the value that the worker polls for.
Post(g) ==
  /\ pc[g] = "idle" /\ gpc = "polling"
  /\ gpc' = "idle"
  /\ UNCHANGED <<heapVars, sharedVars, dataVars, contractVars, requests,
                 guestVars, mode, job, todo, left, next, taken, jobs,
                 ghostVars>>

Handle(g) ==
  \/ Load(g) \/ Store(g) \/ Fault(g) \/ FaultOnArmed(g) \/ FaultOnWatched(g)
  \/ FaultOnUnwatched(g) \/ FaultUnexpected(g) \/ Ask(g) \/ NoneToAsk(g)
  \/ WakeServed(g) \/ WaitAgain(g) \/ Disarm(g) \/ DisarmForStore(g)

Guest(g) == Begin(g) \/ Handle(g) \/ Post(g)

-----------------------------------------------------------------------------
\* The worker is idle; what it worked on is of no account any more.
EndJob ==
  /\ gpc' = "idle" /\ mode' = "upload"
  /\ job' = {} /\ todo' = {} /\ left' = {} /\ next' = 1

\* ServiceResolveContractMaterializations, when idle and before each job. If a
\* request still counts, the mutex is left while the GPU's queue drains.
TakeRequests ==
  /\ gpc = "idle" /\ requests # {}
  /\ taken' = requests /\ requests' = {}
  /\ gpc' = IF requests \cap (kept \ done) = {} THEN "serve" ELSE "await"
  /\ UNCHANGED <<heapVars, sharedVars, dataVars, contractVars, guestVars, mode,
                 job, todo, left, next, jobs, ghostVars>>

Awaited ==
  /\ gpc = "await"
  /\ gpc' = "serve"
  /\ UNCHANGED <<heapVars, sharedVars, dataVars, contractVars, requests,
                 guestVars, mode, job, todo, left, next, taken, jobs,
                 ghostVars>>

\* The contract has gone or is materialized already.
SkipRequest ==
  /\ gpc = "serve"
  /\ \E k \in taken : k \notin kept \ done /\ taken' = taken \ {k}
  /\ UNCHANGED <<heapVars, sharedVars, dataVars, contractVars, requests,
                 guestVars, gpc, mode, job, todo, left, next, jobs, ghostVars>>

ServeRequest ==
  /\ gpc = "serve"
  /\ \E k \in taken :
       /\ k \in kept \ done
       /\ taken' = taken \ {k}
       /\ job' = k
       /\ todo' = {p \in k : staged[k][p] # 0}
  /\ gpc' = "copyout"
  /\ UNCHANGED <<heapVars, sharedVars, dataVars, contractVars, requests,
                 guestVars, mode, left, next, jobs, ghostVars>>

\* One page of the copy, which goes around every watch and protection.
CopyOut ==
  /\ gpc = "copyout"
  /\ \E p \in todo :
       /\ mem' = [mem EXCEPT ![p] = staged[job][p]]
       /\ todo' = todo \ {p}
       /\ clobbered' = IF p \in written THEN clobbered ELSE clobbered \cup {p}
  /\ UNCHANGED <<heapVars, sharedVars, gpu, stamp, contractVars, requests,
                 guestVars, gpc, mode, job, left, next, taken, jobs, late,
                 again>>

Materialized ==
  /\ gpc = "copyout" /\ todo = {}
  /\ done' = done \cup {job}
  /\ gpc' = "serve"
  /\ UNCHANGED <<heapVars, sharedVars, dataVars, kept, staged, queued,
                 requests,
                 guestVars, mode, job, todo, left, next, taken, jobs,
                 ghostVars>>

\* The buffer cannot be mapped: the contract counts as materialized all the
\* same, and its bytes never come.
NotMapped ==
  /\ gpc = "serve"
  /\ \E k \in taken :
       /\ k \in kept \ done
       /\ taken' = taken \ {k}
       /\ done' = done \cup {k}
  /\ UNCHANGED <<heapVars, sharedVars, dataVars, kept, staged, queued,
                 requests,
                 guestVars, gpc, mode, job, todo, left, next, jobs, ghostVars>>

\* A mutant: no one is told.
ServedUntold ==
  /\ gpc = "serve" /\ taken = {}
  /\ EndJob
  /\ UNCHANGED <<heapVars, sharedVars, dataVars, contractVars, requests,
                 guestVars, taken, jobs, ghostVars>>

Served ==
  /\ gpc = "serve" /\ taken = {}
  /\ gpc' = "notify"
  /\ UNCHANGED <<heapVars, sharedVars, dataVars, contractVars, requests,
                 guestVars, mode, job, todo, left, next, taken, jobs,
                 ghostVars>>

NotifyAll ==
  /\ gpc = "notify"
  /\ pc' = [g \in Guests |-> IF pc[g] = "waiting" THEN "woken" ELSE pc[g]]
  /\ EndJob
  /\ UNCHANGED <<heapVars, sharedVars, dataVars, contractVars, requests, view,
                 page, store, key, accesses, taken, jobs, ghostVars>>

\* BeginSubmission has served the requests it found; a job begins.
BeginJob ==
  /\ gpc = "idle" /\ requests = {}
  /\ jobs < MaxJobs
  /\ jobs' = jobs + 1

\* SharedMemory::RequestRange, for the range a draw reads.
Draw ==
  /\ BeginJob
  /\ \E r \in Ranges : Missing(r) # {} /\ left' = Missing(r)
  /\ gpc' = "upload"
  /\ UNCHANGED <<heapVars, sharedVars, dataVars, contractVars, requests,
                 guestVars, mode, job, todo, next, taken, ghostVars>>

\* UploadRanges: as much of the first missing range as a buffer has room for.
UploadChunk ==
  /\ gpc = "upload"
  /\ \E chunk \in Ranges :
       /\ chunk \subseteq left
       /\ \A p \in left, q \in chunk : p < q => \E c \in chunk : c <= p
       /\ MarkValid(chunk, FALSE)
       /\ job' = chunk /\ todo' = chunk
       /\ left' = left \ chunk
  /\ mode' = "upload" /\ next' = 1
  /\ gpc' = "enable"
  /\ UNCHANGED <<heapVars, dataVars, contractVars, requests, guestVars, taken,
                 jobs, ghostVars>>

\* Nothing is left, or there is no room in any buffer.
UploadEnds ==
  /\ gpc = "upload"
  /\ EndJob
  /\ UNCHANGED <<heapVars, sharedVars, dataVars, contractVars, requests,
                 guestVars, taken, jobs, ghostVars>>

\* The end of MakeRangeValid: one window, under the lock for itself.
Enable ==
  /\ gpc = "enable" /\ next < LastView
  /\ EnableAccessCallbacks(next, job)
  /\ next' = next + 1
  /\ UNCHANGED <<sharedVars, dataVars, contractVars, requests, guestVars, gpc,
                 mode, job, todo, left, taken, jobs, ghostVars>>

EnableLast ==
  /\ gpc = "enable" /\ next = LastView
  /\ EnableAccessCallbacks(next, job)
  /\ next' = 1
  /\ gpc' = IF mode = "upload" THEN "copyin"
            ELSE IF mode = "resolve" THEN "register" ELSE "forget"
  /\ UNCHANGED <<sharedVars, dataVars, contractVars, requests, guestVars, mode,
                 job, todo, left, taken, jobs, ghostVars>>

\* One page of the copy into the upload buffer.
CopyIn ==
  /\ gpc = "copyin"
  /\ \E p \in todo :
       /\ gpu' = [gpu EXCEPT ![p] = mem[p]]
       /\ todo' = todo \ {p}
  /\ UNCHANGED <<heapVars, sharedVars, mem, stamp, contractVars, requests,
                 guestVars, gpc, mode, job, left, next, taken, jobs,
                 ghostVars>>

CopiedIn ==
  /\ gpc = "copyin" /\ todo = {}
  /\ gpc' = "upload"
  /\ UNCHANGED <<heapVars, sharedVars, dataVars, contractVars, requests,
                 guestVars, mode, job, todo, left, next, taken, jobs,
                 ghostVars>>

\* RangeWrittenByGpu for a resolve or a memory export.
WrittenByGpu(m) ==
  /\ BeginJob
  /\ \E r \in Ranges :
       /\ job' = r
       /\ gpu' = [p \in Pages |-> IF p \in r THEN stamp + 1 ELSE gpu[p]]
       /\ MarkValid(r, TRUE)
  /\ stamp' = stamp + 1
  /\ mode' = m /\ next' = 1
  /\ gpc' = "enable"
  /\ UNCHANGED <<heapVars, mem, contractVars, requests, guestVars, todo, left,
                 taken, ghostVars>>

\* RegisterResolveContract takes the mutex and drops the contracts that the
\* queued stores touch, those that overlap, and those it has no room for. It
\* fails when there is no buffer.
DropForJob ==
  LET live == {k \in kept : k \cap queued = {}}
      others == {k \in live : k # job /\ k \cap job = {}}
  IN  \E evicted \in SUBSET others :
        /\ job \in live => evicted = {}
        /\ Keep(others \ evicted)

Register ==
  /\ gpc = "register"
  /\ DropForJob
  /\ queued' = {}
  /\ gpc' = "stage"
  /\ UNCHANGED <<heapVars, sharedVars, dataVars, requests, guestVars, mode,
                 job,
                 todo, left, next, taken, jobs, ghostVars>>

RegisterFails ==
  /\ gpc = "register"
  /\ DropForJob
  /\ queued' = {}
  /\ EndJob
  /\ UNCHANGED <<heapVars, sharedVars, dataVars, requests, guestVars, taken,
                 jobs, ghostVars>>

\* What the GPU has written, and no store has hit since, is copied.
Stage ==
  /\ gpc = "stage"
  /\ GpuWritten(job) # {}
  /\ staged' =
       [staged EXCEPT ![job] =
          [p \in Pages |-> IF p \in GpuWritten(job) THEN gpu[p] ELSE 0]]
  /\ kept' = kept \cup {job}
  /\ done' = done \ {job}
  /\ todo' = GpuWritten(job)
  /\ gpc' = "arm"
  /\ UNCHANGED <<heapVars, sharedVars, dataVars, queued, requests, guestVars,
                 mode, job, left, next, taken, jobs, ghostVars>>

StageNothing ==
  /\ gpc = "stage"
  /\ GpuWritten(job) = {}
  /\ EndJob
  /\ UNCHANGED <<heapVars, sharedVars, dataVars, contractVars, requests,
                 guestVars, taken, jobs, ghostVars>>

\* One run of pages is armed through every window, under the global lock.
MaximalRun(run, S) ==
  /\ run \subseteq S
  /\ \A r \in Ranges : run \subseteq r /\ r \subseteq S => r = run

ArmRun ==
  /\ gpc = "arm"
  /\ \E run \in Ranges :
       /\ MaximalRun(run, todo)
       /\ ArmResolveReadWatch(run)
       /\ todo' = todo \ run
       /\ late' = late \ (Views \X run)
  /\ UNCHANGED <<sharedVars, dataVars, contractVars, requests, guestVars, gpc,
                 mode, job, left, next, taken, jobs, again, clobbered>>

Armed ==
  /\ gpc = "arm" /\ todo = {}
  /\ EndJob
  /\ UNCHANGED <<heapVars, sharedVars, dataVars, contractVars, requests,
                 guestVars, taken, jobs, ghostVars>>

\* A memory export drops the contracts it overlaps.
Forget ==
  /\ gpc = "forget"
  /\ Keep({k \in kept : k \cap job = {}})
  /\ EndJob
  /\ UNCHANGED <<heapVars, sharedVars, dataVars, queued, requests, guestVars,
                 taken, jobs, ghostVars>>

\* PM4_WAIT_REG_MEM: the worker polls the guest's memory and serves no one.
Poll ==
  /\ BeginJob
  /\ gpc' = "polling"
  /\ UNCHANGED <<heapVars, sharedVars, dataVars, contractVars, requests,
                 guestVars, mode, job, todo, left, next, taken, ghostVars>>

Begins == Draw \/ WrittenByGpu("resolve") \/ WrittenByGpu("export") \/ Poll

Continues ==
  \/ TakeRequests \/ Awaited \/ SkipRequest \/ ServeRequest \/ CopyOut
  \/ Materialized \/ NotMapped \/ Served \/ NotifyAll \/ UploadChunk
  \/ UploadEnds \/ Enable
  \/ EnableLast \/ CopyIn \/ CopiedIn \/ Register \/ RegisterFails \/ Stage
  \/ StageNothing \/ ArmRun \/ Armed \/ Forget

Running == \A g \in Guests : pc[g] # "crashed"

Next == Running /\ (Begins \/ Continues \/ \E g \in Guests : Guest(g))

\* The worker goes on with what it has begun and serves requests when idle; a
\* guest's thread goes on with its access. No one need begin anything.
Fairness ==
  /\ WF_vars(Running /\ Continues)
  /\ \A g \in Guests : WF_vars(Running /\ Handle(g))

Spec == Init /\ [][Next]_vars /\ Fairness

-----------------------------------------------------------------------------
\* The worker is yet to watch this place, having marked its page valid.
Enabling(v, p) == gpc = "enable" /\ p \in job /\ next <= v

\* It has marked the page valid before it copies it.
Uploading(p) ==
  mode = "upload" /\ gpc \in {"enable", "copyin"} /\ p \in todo

\* No page that counts as valid on the GPU can be written by the guest, through
\* any window, without a fault, but where the worker is about to watch it: the
\* callback never gives up a watch and keeps the page valid.
WatchedWhileValid ==
  \A p \in valid, v \in Views : host[<<v, p>>] = "all" => Enabling(v, p)

\* What the GPU would read of a page that the guest wrote last is what the
\* guest wrote, but for a page that a contract was copied over too late.
CopyIsCurrent ==
  \A p \in valid \ written : gpu[p] = mem[p] \/ Uploading(p) \/ p \in clobbered

\* As long as bytes of a resolve are owed to a page, the guest can read it
\* through no window, but where a thread has disarmed it late.
OwedIsHidden ==
  \A p \in Pages :
    Owed(p) /\ ~(gpc = "arm" /\ p \in todo) =>
      \A v \in Views : host[<<v, p>>] = "none" \/ <<v, p>> \in late

\* Thread g is storing to page p; and if bytes are owed to it that the store
\* does not collect, another thread is about to, or has let the guest in too
\* early, or the worker has yet to arm the page.
MayTake(g, p) ==
  /\ pc[g] \in {"fault", "disarm"} /\ store[g] /\ page[g] = p
  /\ pc[g] = "fault" /\ Owed(p) =>
       \/ Place(g) \in late
       \/ gpc = "arm" /\ p \in todo
       \/ \E h \in Guests \ {g} :
            /\ Place(h) = Place(g)
            /\ pc[h] \in {"callback", "waiting", "woken", "disarm"}

\* Only a store to a page makes the GPU's own bytes there count no more, never
\* a store to a page nearby whose range is widened, and never a new upload; nor
\* does it pass by bytes that are owed and hidden.
GpuDataKept ==
  [][\A p \in written \ written' : \E g \in Guests : MayTake(g, p)]_vars

\* A thread that waits for a contract has its request in the queue, or the
\* worker is serving and will wake it, unless it has been woken once already
\* and found its contract not materialized: registered anew in the meantime.
WaitersAreHeard ==
  \A g \in Guests :
    pc[g] = "waiting" =>
      \/ key[g] \in requests
      \/ gpc \in {"await", "serve", "copyout", "notify"}
      \/ g \in again

WorkerLeavesPolls == []<>(gpc # "polling")

\* A thread that waits for a contract goes on with its access in the end,
\* unless the worker polls memory for ever.
WaiterGoesOn ==
  WorkerLeavesPolls =>
    \A g \in Guests : pc[g] = "waiting" ~> (pc[g] = "disarm" \/ ~Running)

=============================================================================
