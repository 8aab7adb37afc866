SPECIFICATION Spec
CONSTANTS
    Peers = {p1}
    None = None
    MaxIn = 1
    MaxOut = 1
    MaxMoves = 1
    MaxUpsets = 0
INVARIANTS HealPingsFirst
CHECK_DEADLOCK FALSE
