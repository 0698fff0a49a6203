\* Three accounts and an id that does not exist, two requests at a time.  A
\* fourth chat is beyond the bound: requests that need one can only fail.
CONSTANTS
    Users = {u1, u2, u3, ghost}
    Accounts = {u1, u2, u3}
    Requests = {r1, r2}
    MaxChats = 3
    Faults = TRUE
    NoUser = NoUser
SYMMETRY Symmetry
SPECIFICATION RoomsSpec
INVARIANT ChatsArePairs
INVARIANT AnswerNamesTheirChat
PROPERTY SettledForGood
