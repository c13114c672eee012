CONSTANTS
    u1 = u1
    u2 = u2
    archive = archive
    n0b = n0b
    main = main
    w1 = w1
    Uuids <- MCUuids
    Level2 <- MCLevel2
    Level3 <- MCLevel3
    Main = main
    Workers <- MCWorkers
    PoolThreads = 1
    MaxPosted = 1
    MaxJobs = 1
SPECIFICATION Spec
INVARIANTS
    RefreshCountExact
    NoLostRefresh
PROPERTIES
    RefreshGoesOn
    DisabledFallsSilent
