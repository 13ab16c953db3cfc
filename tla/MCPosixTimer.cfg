SPECIFICATION FairTimerSpec
CONSTANTS
    Dispatcher = Dispatcher
    None = None
    Items = {first, second, recurring}
    Recurring = {recurring}
    Callers = {c1, c2}
    Capacity = 1
    Manual = FALSE
INVARIANTS
    CancelStops
    NoStaleSignal
PROPERTIES
    OperationsReturn
CHECK_DEADLOCK FALSE
