SPECIFICATION Spec
CONSTANTS
    o = o
    m = m
    n = n
    manage = manage
    send = send
    Users = {o, m, n}
    Owner = o
    FirstMembers = {o, m}
    Perms = {manage, send}
    ManageCommunity = manage
    FirstDefaults = {}
    Roles = {r1}
    Reqs = {q1, q2}
    Ops = {"defaults"}
    PermsInputs <- AnyPerms
    MembersInputs <- SomeMembers
    Sequential = TRUE
    Faults = {}
    None = None
INVARIANTS DefaultsApplied
