SPECIFICATION FairSpec
CONSTANTS
    Dispatcher = Dispatcher
    None = None
    Items = {once, other, recurring}
    Recurring = {recurring}
    Callers = {caller}
    Capacity = 1
INVARIANTS
    DisarmGuarantee
    OneCallbackAtATime
PROPERTIES
    SelfDisarmIsFinal
    CallsReturn
    ShutdownEnds
CHECK_DEADLOCK FALSE
