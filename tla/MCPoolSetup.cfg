SPECIFICATION FairSetupSpec
CONSTANTS
    N = 4
    Needs <- PoolNeeds
    Tries = 2
    MaxAge = 1
    Depth = 1
    MaxSlot = 4
    MaxForks = 1
CHECK_DEADLOCK FALSE
INVARIANTS SetupTypeOK PoolOnMarket PoolSuccessIsWhole
PROPERTIES DoomedStays KeepsPromise SetupEnds
