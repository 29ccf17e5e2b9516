SPECIFICATION FairSpec
CONSTANTS
    Founder = f
    Users = {f, m, n}
    FirstUsers = {f, m}
    Handles = {h1, h2}
    FirstHandle = h1
    PrivateInputs = {FALSE}
    MaxComms = 3
    Reqs = {q1, q2, q3}
    MaxConns = 2
    Faults = {"abort", "commit", "crash"}
    None = None
INVARIANTS TypeOK NoOrphanMembers LeftOpenHoldsNoLocks
PROPERTIES RequestsEnd
