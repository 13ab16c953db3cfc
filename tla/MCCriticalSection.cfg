SPECIFICATION FairSpec
CONSTANTS
    Threads = {t1, t2, t3, t4, t5}
    NoThread = NoThread
    SpinCount = 2
    MaxRecursion = 3
INVARIANTS
    OneOwner
    OneClaim
PROPERTIES
    Handover
