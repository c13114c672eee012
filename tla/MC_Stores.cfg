CONSTANTS
    v1 = v1
    w1 = w1
    w2 = w2
    o1 = o1
    o2 = o2
    o3 = o3
    t1 = t1
    t2 = t2
    t3 = t3
    Times <- MCTimes
    Objects <- MCObjects
    Views <- MCViews
    Loaders <- MCThreads
    MinLimit = 1
    Limits <- MCLimits
    Files <- MCFiles
    Listings <- MCListings
    Threads <- MCThreads
    ObjectTimes <- MCObjectTimes
    DayLength = 2
    FirstDay = 2
    LastDay = 3
    MaxObjects = 3
    MinDates = 4
SYMMETRY MCSymmetry
SPECIFICATION MCSpec
INVARIANTS
    StoresTypeOK
    LiveRecordIsIndexed
    NoOrphans
PROPERTIES
    ImplementsLru
    PruningSparesRecent
