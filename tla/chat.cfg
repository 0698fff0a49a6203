\* Two overlapping calls with every kind of content and caller, a member or
\* a stranger, to a chat that exists or not, with their notifications and
\* read reports; anything may fail.  Each call is made once, so the system
\* comes to rest.
CONSTANTS
    u1 = u1
    u2 = u2
    u3 = u3
    c1 = c1
    none = none
    Users = {u1, u2, u3}
    Chats = {c1, none}
    Members <- OneChat
    Calls = {m1, m2}
    MaxFiles = 1
    Faults = TRUE
    Half = 16
    DefaultLimit = 2
    MaxLimit = 3
    Packs <- OnePack
    NoUser = NoUser
    NoChat = NoChat
SYMMETRY Symmetry
SPECIFICATION Spec
INVARIANT DiskAgrees
INVARIANT EventsAreTrue
INVARIANT AnswersAreTrue
PROPERTY UnreadNotRolledBack
INVARIANT ChatsAreShown
CHECK_DEADLOCK FALSE
