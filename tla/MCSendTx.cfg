SPECIFICATION FairSpec
CONSTANTS
    N = 2
    Needs <- Chain
    Tries = 3
    MaxAge = 1
    Depth = 2
    MaxSlot = 4
    MaxForks = 1
CHECK_DEADLOCK FALSE
INVARIANTS TypeOK AtMostOnce SuccessIsReal
PROPERTIES ExpiryIsFinal KeepsPromise Terminates
