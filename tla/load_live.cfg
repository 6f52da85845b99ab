CONSTANTS
    id1 = id1
    id2 = id2
    id3 = id3
    Ids = {id1, id2, id3}
    MaxPods = 3
    Fixtures <- PollingFixtures
    Faults = FALSE
    Timeouts = FALSE
SPECIFICATION FairSpec
INVARIANT PausedTestQuiet
PROPERTY RequestsAnswered
