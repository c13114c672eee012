CONSTANTS
    w1 = w1
    w2 = w2
    Threads <- MCThreads
    ObjectTimes <- MCObjectTimes
    DayLength = 2
    FirstDay = 2
    LastDay = 3
    MaxObjects = 3
    MinDates = 4
SYMMETRY MCSymmetry
SPECIFICATION ProviderSpec
INVARIANT
    NothingMissedNearMidnight
