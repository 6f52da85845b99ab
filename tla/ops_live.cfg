SPECIFICATION FairSpec
CONSTANTS
    t1 = t1
    t2 = t2
    t3 = t3
    NRuns = 1
    Slots = {t1, t2, t3}
    RandomOps <- OsdOnly
    Dedicated <- CloneOnly
    Res = {}
    MaxConcurrent = 1
    MaxFailures = 1
    Faults = {}
    Timeouts = TRUE
PROPERTY NoRacingCleanup
PROPERTY StopReturns
