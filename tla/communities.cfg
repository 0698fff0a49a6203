CONSTANTS
    Users = {u1, u2}
    Names = {n1, n2}
    MaxCommunities = 2
    MaxReceived = 3
    MaxFiles = 2
    Requests = {r1, r2}
    Half = 16
    DefaultLimit = 2
    MaxLimit = 3
    NoName = NoName
    NoUser = NoUser
SPECIFICATION Spec
INVARIANTS
    DiskAgrees
    MembersAreShown
    FoundByName
SYMMETRY Symmetry
CHECK_DEADLOCK FALSE
