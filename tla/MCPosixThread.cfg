SPECIFICATION FairSpec
CONSTANTS
    MaxSuspend = 2
    MaxInFlight = 2
INVARIANTS
    SuspendAccounting
    SuspendedIsParked
    DeadIsSignaled
PROPERTIES
    ResumedRuns
    JoinEnds
CHECK_DEADLOCK FALSE
