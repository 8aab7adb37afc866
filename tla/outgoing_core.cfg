SPECIFICATION FairSpec
CONSTANTS
    CmdCap = 2
    PendingCap = 2
    FrameCap = 2
    EventCap = 1
    MaxEnvs = 4
    MaxLists = 2
CHECK_DEADLOCK FALSE
INVARIANTS
    TypeOK
    InOrder
    LiveMeansFlushed
    SubscriptionCurrent
    StatusTruthful
PROPERTIES
    LossNeedsCause
    ImplementsOutbox
    ShutdownHeard
    EveryEnvelopeSettles
