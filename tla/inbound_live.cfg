SPECIFICATION FairSpec
CONSTANTS
    alice = alice
    bob = bob
    Contacts = {bob}
    Texts = {t1, t2}
    t1 = t1
    t2 = t2
    NoText = NoText
    Entries <- TextEntries
    Outcomes = {"decrypt"}
    Skews = {0}
    StoreFails = FALSE
    EventCap = 1
    MaxLog = 3
    MaxCmds = 2
    MaxFrames = 1
    MaxUpsets = 2
INVARIANTS
    InOrder
PROPERTIES
    ReplayKeepsText
    EveryTextStored
