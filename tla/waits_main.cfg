SPECIFICATION FairSpec
CONSTANTS
    Params <- AllWaits
    MaxDur = 2
INVARIANTS
    TypeOK
    NothingOverlooked
    TimelyTimeout
    RetryBudget
    AllTriesMade
PROPERTY Ends
