SPECIFICATION FairSpec
CONSTANTS
    u1 = u1
    u2 = u2
    User = {u1, u2}
    SendSize = 2
    MaxCalls = 3
    MaxMessages = 2
INVARIANTS RegistrationAgrees OutputInOrder OutputIsWatched EndsForGood
PROPERTIES ShutdownAfterOutput ShutdownCompletes ClosedIsRemoved
CHECK_DEADLOCK FALSE
