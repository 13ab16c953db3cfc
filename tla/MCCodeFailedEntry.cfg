CONSTANTS
  Names = {a, b}
  Memory = {m}
  MemoryOf <- OneMemory
  Guests = {g1}
  Translators = {x1}
  MaxAttempts = 2
  RecordCount = 1
  MaxWrites = 1
  MaxSweeps = 1
SPECIFICATION Spec
INVARIANTS
    NextCallCompiles
