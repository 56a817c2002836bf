SPECIFICATION Spec
CONSTANTS
    s1 = s1
    s2 = s2
    c1 = c1
    c2 = c2
    Server = {s1, s2}
    Cmd = {c1, c2}
    NoCmd = NoCmd
    TornCmd = TornCmd
    UINT64_MAX = 99
    MaxTerm = 2
    MaxLog = 2
    MaxFaults = 1
    MaxCalls = 2
SYMMETRY Symmetry
INVARIANTS TypeOK ContiguousLog CommitIsAcknowledged FirstTermEntriesAgree AppliedIsLog
PROPERTIES CommitNeverGoesBack
CHECK_DEADLOCK FALSE
