SPECIFICATION Spec
CONSTANTS
    Users = {u1, u2}
    FirstMembers = {u1}
    Roles = {r1, r2}
    Here = Here
    There = There
    ThereMsgs = 2
    FirstMsgs = 2
    MaxMsgs = 4
    MaxCalls = 5
    PageSize = 1
    Others = Others
    None = None
SYMMETRY Symmetry
INVARIANTS TypeOK PagingMissesNothing EveryoneListedOnce
