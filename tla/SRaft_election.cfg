SPECIFICATION Spec
CONSTANTS
    s1 = s1
    s2 = s2
    s3 = s3
    Server = {s1, s2, s3}
    Cmd = {}
    NoCmd = NoCmd
    TornCmd = TornCmd
    UINT64_MAX = 99
    MaxTerm = 2
    MaxLog = 1
    MaxFaults = 0
    MaxCalls = 2
SYMMETRY Symmetry
INVARIANTS ElectionSafety
CHECK_DEADLOCK FALSE
