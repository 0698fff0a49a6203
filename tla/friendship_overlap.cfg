\* Two requests at a time, nothing fails: a decision checked earlier is
\* written over whatever the row has become.
CONSTANTS
    Users = {1, 2}
    Accounts = {1, 2}
    Requests = {r1, r2}
    Faults = FALSE
    Half = 16
    DefaultLimit = 2
    MaxLimit = 3
VIEW NoHistory
SPECIFICATION FairSpec
PROPERTY NobodyDecidesOwnRequest
