SPECIFICATION Spec
CONSTANTS
    t1 = t1
    t2 = t2
    t3 = t3
    NRuns = 2
    Slots = {t1, t2}
    RandomOps <- LongevityOnly
    Dedicated <- CloneOnly
    Res = {s1}
    MaxConcurrent = 2
    MaxFailures = 2
    Faults = {1}
    Timeouts = FALSE
SYMMETRY ThreadSymmetry
INVARIANT StoppedMeansQuiet
INVARIANT EscalationOwned
INVARIANT FullRowReported
