SPECIFICATION Spec
CONSTANTS
    alice = alice
    bob = bob
    Contacts = {bob}
    Texts = {t1, t2}
    t1 = t1
    t2 = t2
    NoText = NoText
    Entries <- TextEntries
    Outcomes = {"decrypt"}
    Skews = {0}
    StoreFails = TRUE
    EventCap = 1
    MaxLog = 2
    MaxCmds = 2
    MaxFrames = 2
    MaxUpsets = 2
INVARIANT
    WatermarkCoversOnlyPersisted
