CONSTANTS
  LastPage = 1
  LastView = 2
  Guests = {g1, g2}
  MaxAccesses = 2
  MaxJobs = 2
SPECIFICATION Spec
SYMMETRY Symmetry
CHECK_DEADLOCK FALSE
INVARIANTS
  WatchedWhileValid
  CopyIsCurrent
  OwedIsHidden
  WaitersAreHeard
PROPERTIES
  GpuDataKept
