CONSTANTS
  LastPage = 0
  LastView = 1
  Guests = {g1}
  MaxAccesses = 1
  MaxJobs = 2
SPECIFICATION Spec
CHECK_DEADLOCK FALSE
PROPERTIES
  WaiterGoesOn
