SPECIFICATION FairSpec
CONSTANTS
    h1 = h1
    h2 = h2
    k1 = k1
    w1 = w1
    NoWord = NoWord
    Handler = {h1, h2}
    Key = {k1}
    Word = {w1}
    MaxRequests = 2
    MaxLog = 1
PROPERTIES EveryRequestAnswered EveryCommandExecuted CommandEndsReceiver
INVARIANTS DbIsReplay
CHECK_DEADLOCK FALSE
