CONSTANTS
    Users = {u1, u2}
    Creator = u1
    MaxPosts = 2
    MaxComments = 1
    MaxReceived = 3
    MaxFiles = 2
    Requests = {r1, r2}
    NoUser = NoUser
    Half = 16
    DefaultLimit = 2
    MaxLimit = 3
SPECIFICATION Spec
INVARIANTS
    DiskAgrees
    PostsAreShown
    LikesAreToggled
SYMMETRY Symmetry
CHECK_DEADLOCK FALSE
