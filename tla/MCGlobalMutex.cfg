SPECIFICATION FairSpec
CONSTANTS
    Threads = {t1, t2, t3, t4}
    NoThread = NoThread
    SpinCount = 2
    MaxRecursion = 2
INVARIANTS
    MutualExclusion
    NoLostWakeup
    OwnerIsHolder
    HolderIsOwner
PROPERTIES
    ImplementsRegion
    Handover
