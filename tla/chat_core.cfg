SPECIFICATION Spec
CONSTANTS
    alice = alice
    bob = bob
    People = {alice, bob}
    Known = {alice}
    None = None
    MaxTexts = 2
    MaxInbound = 1
    MaxLookups = 1
    MaxInputs = 3
    MaxEvents = 1
    MaxUpsets = 1
INVARIANTS
    TypeOK
    ComposeReachesShown
    OpenChatComplete
    StoredIsListed
    TextsInOrder
