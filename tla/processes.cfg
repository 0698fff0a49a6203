\* One request, whose calls reach three processes deep, one crash of any
\* process, two attempts to connect, with fairness.  Everybody may stop:
\* nobody is obliged to start a process again.
CONSTANTS
    Calls = {c1, c2, c3}
    Retries = 2
    MaxReceived = 1
    MaxCrashes = 1
    NoCall = NoCall
SPECIFICATION FairSpec
INVARIANT TypeOK
INVARIANT InFlightIsRight
INVARIANT ErrorsAreClassified
INVARIANT CallsCarryTheUser
PROPERTY EveryoneServes
PROPERTY RequestsEnd
CHECK_DEADLOCK FALSE
