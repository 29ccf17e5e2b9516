SPECIFICATION Spec
CONSTANTS
    Sessions = {s1, s2}
    Conns = {p1}
    Topics = {t1}
    Msgs = {b1}
    MaxCmds = 1
    MaxFrames = 2
    PoolReuse = TRUE
    None = None
INVARIANT LiveReaderRegistered
