SPECIFICATION FairSpec
CONSTANTS
    t1 = t1
    t2 = t2
    Thread = {t1, t2}
    MaxQueued = 4
INVARIANTS NoLostWakeup
PROPERTIES RunOnceInOrder EveryFunctorRuns QuitEndsLoop
CHECK_DEADLOCK FALSE
