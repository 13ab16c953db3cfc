\* Once the count has wrapped around every thread may wait for ever.
CHECK_DEADLOCK FALSE
SPECIFICATION FairSpec
CONSTANTS
    Threads = {r1, r2, r3, w1, w2}
    Writers = {w1, w2}
    Wrap = 8
INVARIANTS
    WriterIsAlone
    WaitersHaveHope
PROPERTIES
    WriterAfterReaders
