SPECIFICATION Spec
CONSTANTS
    event = event
    mutant = mutant
    NoThread = NoThread
    Threads = {t1, t2, t3}
    ManualEvents = {}
    AutoEvents = {event}
    Semaphores = {semaphore}
    Mutants = {mutant}
    MaxCount = 2
    MaxHold = 2
    HandleLists <- BothOrders
    StrayRelease = FALSE
SYMMETRY Symmetry
INVARIANTS
    NoMissedWakeup
    MutantExclusion
    HolderCanProceed
CHECK_DEADLOCK FALSE
