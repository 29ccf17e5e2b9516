SPECIFICATION Spec
CONSTANTS
    Comms = {c1, c2}
    Tasks = {t1, t2}
    Attempts = {a1, a2, a3}
    None = None
SYMMETRY Symmetry
INVARIANTS TypeOK ServicesMatchRows ReadyNotLost
