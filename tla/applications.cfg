CONSTANTS
    Clients = {b1, b2}
    Calls = {c1, c2}
    Users = {u1, u2}
    Admins = {u2}
    Temps = {t1, t2}
    MaxApps = 2
    MaxAsked = 4
    Nobody = Nobody
    NoTemp = NoTemp
    NoClient = NoClient
SPECIFICATION AppsSpec
SYMMETRY Symmetry
INVARIANTS
    ApplicationsAreKept
    ListsOnlyTheirs
CHECK_DEADLOCK FALSE
