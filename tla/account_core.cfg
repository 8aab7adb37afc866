SPECIFICATION FairSpec
CONSTANTS
    MaxAccounts = 2
    MaxTokens = 3
    MaxKeys = 2
    MaxWork = 2
    Faults = {"refused", "cut", "mode"}
INVARIANTS TypeOK KeyOpensFile MainIsRestorable
PROPERTY AttemptEnds
CHECK_DEADLOCK FALSE
