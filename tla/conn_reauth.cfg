SPECIFICATION FairSpec
CONSTANTS
    Callers = {}
    Workers = {w1, w2}
    Conns = {k1, k2, k3, k4, k5}
    None = None
    MaxUpsets = 0
    MaxLogins = 2
PROPERTY RestartSettles
CHECK_DEADLOCK FALSE
