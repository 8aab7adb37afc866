SPECIFICATION Spec
CONSTANTS
    Peers = {p1}
    None = None
    MaxIn = 1
    MaxOut = 0
    MaxMoves = 1
    MaxUpsets = 0
INVARIANTS ControlNeverShown
CHECK_DEADLOCK FALSE
