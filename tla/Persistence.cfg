CONSTANTS
    MaxTerm = 2
    MaxLog = 2
    MaxCrashes = 2
    Commands = {1, 2}
SPECIFICATION Spec
INVARIANTS TornIsRefused FileIsCut MessagesRoundTrip MessagesForget MessagesUnderstood
PROPERTIES LoadedIsBeginning
CHECK_DEADLOCK FALSE
