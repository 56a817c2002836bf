SPECIFICATION Spec
CONSTANTS
    kCheapPrepend = 2
    kInitialSize = 2
    ExtraSize = 3
    MaxBytes = 9
INVARIANTS TypeOK ReadableInOrder GrowthBounded
CHECK_DEADLOCK FALSE
