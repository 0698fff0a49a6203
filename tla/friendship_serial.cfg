\* One request at a time between three accounts.
CONSTANTS
    Users = {1, 2, 3}
    Accounts = {1, 2, 3}
    Requests = {r1}
    Faults = TRUE
    Half = 16
    DefaultLimit = 2
    MaxLimit = 3
VIEW NoHistory
SPECIFICATION Spec
INVARIANT RelationsAreShown
PROPERTY ImplementsFriendGraph
