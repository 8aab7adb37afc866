SPECIFICATION FairSpec
CONSTANTS
    CmdCap = 1
    PendingCap = 1
    FrameCap = 1
    EventCap = 1
    MaxEnvs = 2
    MaxLists = 1
CHECK_DEADLOCK FALSE
PROPERTY
    LogoutStopsWorker
