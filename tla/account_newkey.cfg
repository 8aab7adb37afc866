SPECIFICATION Spec
CONSTANTS
    MaxAccounts = 2
    MaxTokens = 3
    MaxKeys = 2
    MaxWork = 2
    Faults = {}
INVARIANT MainHasPipeline
CHECK_DEADLOCK FALSE
