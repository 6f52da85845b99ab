CONSTANTS
    id1 = id1
    id2 = id2
    id3 = id3
    Ids = {id1, id2, id3}
    MaxPods = 2
    Fixtures <- EveryFixture
    Faults = TRUE
    Timeouts = TRUE
SPECIFICATION Spec
SYMMETRY IdSymmetry
INVARIANTS MeasureWhileQuiet PodsKeepTheirPvc
PROPERTIES NoGrowthWhileHeld UnlistedIsGone
