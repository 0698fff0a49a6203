\* Two connections, of one user who reconnects or of two users, and two
\* senders, with fairness.  The process may stop: it ends in a panic, or
\* nobody is left to connect.
CONSTANTS
    Users = {u1, u2}
    Clients = {c1, c2}
    Senders = {s1, s2}
    Cap = 1
    NoClient = NoClient
    NoUser = NoUser
SPECIFICATION HubFairSpec
INVARIANT HubTypeOK
INVARIANT NoDoubleClose
INVARIANT RegisteredIsServed
PROPERTY EvictedOnlyByOwnConnections
PROPERTY PumpsEnd
PROPERTY SendersNeverBlock
CHECK_DEADLOCK FALSE
