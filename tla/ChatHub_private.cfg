SPECIFICATION Spec
CONSTANTS
    Sessions = {s1, s2}
    Conns = {p1, p2}
    Topics = {t1}
    Msgs = {b1, b2}
    MaxCmds = 2
    MaxFrames = 2
    PoolReuse = FALSE
    None = None
SYMMETRY Symmetry
INVARIANTS WritersHoldMutex LiveReaderRegistered WritesToOwnClient
PROPERTY ImplementsPubSub
