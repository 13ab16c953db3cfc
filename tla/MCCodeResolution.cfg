CONSTANTS
  Names = {a, b}
  Memory = {m}
  MemoryOf <- OneMemory
  Guests = {g1}
  Translators = {x1}
  MaxAttempts = 2
  RecordCount = 1
  MaxWrites = 2
  MaxSweeps = 2
SPECIFICATION Spec
INVARIANTS
    EntryIsFresh
    CachedIsFresh
    PausedIsQuiet
PROPERTIES
    TranslationEnds
