CONSTANTS
    Users = {u1}
    Names = {n1, n2}
    Files = {f1, f2, f3}
    Requests = {r1, r2}
    NoFile = NoFile
    NoName = NoName
    NoUser = NoUser
SPECIFICATION Spec
INVARIANTS
    DiskAgrees
    FoundByName
SYMMETRY Symmetry
