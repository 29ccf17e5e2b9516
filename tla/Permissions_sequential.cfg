SPECIFICATION Spec
CONSTANTS
    o = o
    m = m
    n = n
    manage = manage
    send = send
    Users = {o, m, n}
    Owner = o
    FirstMembers = {o, m}
    Perms = {manage, send}
    ManageCommunity = manage
    FirstDefaults = {}
    Roles = {r1, r2}
    Reqs = {q1, q2, q3}
    Ops = {"create", "delete", "join"}
    PermsInputs <- AnyPerms
    MembersInputs <- SomeMembers
    Sequential = TRUE
    Faults = {"abort"}
    None = None
SYMMETRY Symmetry
INVARIANTS RowsAgree
