SPECIFICATION FairSpec
CONSTANTS
    Peers = {p1}
    None = None
    MaxIn = 2
    MaxOut = 1
    MaxMoves = 1
    MaxUpsets = 2
INVARIANTS TypeOK PingFirst SurfacedOnce EndedIsKept
PROPERTIES InitNotOverwritten TextsEnd
CHECK_DEADLOCK FALSE
