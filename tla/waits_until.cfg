SPECIFICATION Spec
CONSTANTS
    Params <- UntilWaits
    MaxDur = 2
INVARIANT TriesBeforeGivingUp
