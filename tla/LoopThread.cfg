SPECIFICATION FairSpec
CONSTANTS
    MaxThreads = 3
    MaxChosen = 7
INVARIANTS StartedIsReady ChosenInTurn ReleasedAfterThread
PROPERTIES OnlyMissedNotifyHangs
CHECK_DEADLOCK FALSE
