SPECIFICATION FairSpec
CONSTANTS
    c1 = c1
    c2 = c2
    c3 = c3
    w1 = w1
    w2 = w2
    NoName = NoName
    Names = {c1, c2, c3}
    Workers = {w1, w2}
    MaxPool = 2
    Count = 1
    PerRun = 1
    Actions <- Churn
    Faults = {"bound", "delete"}
PROPERTIES
    ShutdownEnds
    EventuallyReclaimed
