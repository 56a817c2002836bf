SPECIFICATION FairSpec
CONSTANTS
    s1 = s1
    s2 = s2
    s3 = s3
    NoServer = NoServer
    Server = {s1, s2, s3}
    MaxGets = 2
    MaxPuts = 1
    MaxChanges = 3
PROPERTIES GetFindsLeader PutReachesLeader
CHECK_DEADLOCK FALSE
