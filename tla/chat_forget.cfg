SPECIFICATION Spec
CONSTANTS
    alice = alice
    bob = bob
    People = {alice, bob}
    Known = {alice}
    None = None
    MaxTexts = 0
    MaxInbound = 1
    MaxLookups = 0
    MaxInputs = 3
    MaxEvents = 2
    MaxUpsets = 0
INVARIANT
    DeletedStaysDeleted
