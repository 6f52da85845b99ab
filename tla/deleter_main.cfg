SPECIFICATION FairSpec
CONSTANTS
    w1 = w1
    w2 = w2
    NKeys = 7
    Workers = {w1, w2}
    MAX_BATCH_SIZE = 2
    MAX_OBJS_TO_KEEP_IN_MEMORY = 4
    Faults = {"list", "error", "exception"}
INVARIANTS
    TypeOK
    ReturnMeansEmpty
    MemoryBound
    RetriedOnce
PROPERTY EndsQuiet
