SPECIFICATION FairSpec
CONSTANTS
    f1 = f1
    f2 = f2
    a1 = a1
    Files = {f1, f2}
    Alerts = {a1}
    NMeasurements = 2
    Managed = TRUE
    Faults = {"operation", "request", "pagerduty", "dump"}
INVARIANTS
    TypeOK
    CompleteAlerts
    OneHarvest
    RerunMeasures
PROPERTIES
    SecretRestored
    ThreadsEnd
