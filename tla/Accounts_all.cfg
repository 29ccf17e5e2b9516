SPECIFICATION Spec
CONSTANTS
    e1 = e1
    h1 = h1
    Emails = {e1, e2}
    Handles = {h1, h2}
    FirstUsers <- OneUser
    FirstBeta = {e2}
    MaxId = 4
    Reqs = {q1, q2, q3}
    Faults = {"abort", "redis", "upload"}
    Blank = Blank
    None = None
SYMMETRY Symmetry
INVARIANTS TypeOK UniqueAccounts BetaSpentOnAccount InvitedOnly CacheCommitted
PROPERTIES ReplacedPictureStays
