SPECIFICATION FairSpec
CONSTANTS
    Callers = {c1}
    Workers = {w1}
    Conns = {k1, k2, k3, k4, k5}
    None = None
    MaxUpsets = 2
    MaxLogins = 2
INVARIANTS TypeOK OneConnection RetryOnNewSession
PROPERTIES ImplementsRemoteCall CallsEnd LoneStreamSettles
CHECK_DEADLOCK FALSE
