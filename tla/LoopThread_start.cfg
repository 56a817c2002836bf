SPECIFICATION FairSpec
CONSTANTS
    MaxThreads = 1
    MaxChosen = 0
PROPERTIES StartReturns
CHECK_DEADLOCK FALSE
