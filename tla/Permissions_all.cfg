SPECIFICATION FairSpec
CONSTANTS
    o = o
    m = m
    n = n
    manage = manage
    send = send
    Users = {o, m}
    Owner = o
    FirstMembers = {o}
    Perms = {manage, send}
    ManageCommunity = manage
    FirstDefaults = {}
    Roles = {r1}
    Reqs = {q1, q2, q3}
    Ops = {"check", "create", "edit", "delete", "defaults", "join"}
    PermsInputs <- SendOnly
    MembersInputs <- OneMember
    Sequential = FALSE
    Faults = {"abort", "swallow"}
    None = None
INVARIANTS TypeOK OwnerRefusedOnlyOnError NoEscalation HoldersAreMembers
PROPERTIES CacheCatchesUp
