\* Two requests at a time between two accounts; id 3 does not exist.
CONSTANTS
    Users = {1, 2, 3}
    Accounts = {1, 2}
    Requests = {r1, r2}
    Faults = TRUE
    Half = 16
    DefaultLimit = 2
    MaxLimit = 3
SPECIFICATION FairSpec
INVARIANT TableConstraints
INVARIANT NobodyDecidedUnasked
PROPERTY NoResurrection
PROPERTY EveryRequestAnswered
