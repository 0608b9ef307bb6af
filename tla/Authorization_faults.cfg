CONSTANTS
    None = None
    r1 = r1
    r2 = r2
    root = root
    user = user
    group = group
    Requests = {r1, r2}
    Users = {root, user}
    Roots = {root}
    Roles = {group}
    Permissions <- ManageUsers
    MaxWrites = 2
    CacheFails = TRUE
SPECIFICATION FairSpec
INVARIANTS
    SnapshotExplained
PROPERTIES
    RootsUntouched
    DeletedForgotten
