CONSTANTS
    Browsers = {b1}
    Emails = {e1, e2}
    Sids = {s1, s2}
    NoSid = NoSid
    MaxUsers = 2
    Ops = {"register", "login", "logout", "isloggedin", "friends"}
    MaxSent = 3
    Requests = {r1, r2}
    Hours = 12
    Faults = TRUE
SPECIFICATION FairSpec
INVARIANTS
    OnlyOwnersServed
    RegistrationsAreTrue
    SessionOutlivesCookie
PROPERTY SessionsEnd
CHECK_DEADLOCK FALSE
