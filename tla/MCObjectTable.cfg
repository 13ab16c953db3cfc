CONSTANTS
  None = None
  Threads = {t1, t2}
  Objects = {o1, o2}
  Handles = {h1, h2, h3}
  Vars = {v1, v2, v3}
  Names = {n1}
  Types = {event, semaphore}
  MaxCalls = 3
  MaxTitles = 2
SPECIFICATION Spec
SYMMETRY Symmetry
CHECK_DEADLOCK FALSE
INVARIANTS
  AliveWhileReferenced
  OpenHandleIsKept
  NameIsOfItsObject
