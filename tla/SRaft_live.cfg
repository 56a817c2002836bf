SPECIFICATION FairSpec
CONSTANTS
    s1 = s1
    s2 = s2
    c1 = c1
    Server = {s1, s2}
    Cmd = {c1}
    NoCmd = NoCmd
    TornCmd = TornCmd
    UINT64_MAX = 99
    MaxTerm = 2
    MaxLog = 1
    MaxFaults = 1
    MaxCalls = 2
PROPERTIES LeaderContentionEnds
CHECK_DEADLOCK FALSE
