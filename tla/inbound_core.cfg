SPECIFICATION Spec
CONSTANTS
    alice = alice
    bob = bob
    Contacts = {alice, bob}
    Texts = {t1}
    t1 = t1
    t2 = t2
    NoText = NoText
    Entries <- MixedEntries
    Outcomes = {"decrypt", "queue", "ignore"}
    Skews = {0, 1}
    StoreFails = TRUE
    EventCap = 1
    MaxLog = 2
    MaxCmds = 2
    MaxFrames = 2
    MaxUpsets = 2
INVARIANTS
    TypeOK
    NothingSkipped
    CursorNamesPersisted
    ResumeNotAhead
PROPERTIES
    CursorForward
    ImplementsInbox
