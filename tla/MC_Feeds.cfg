CONSTANTS
    u1 = u1
    u2 = u2
    archivePM = archivePM
    chunksPM = chunksPM
    main = main
    Uuids <- MCUuids
    Level2 <- MCLevel2
    Level3 = {}
    Main = main
    Workers = {}
    PoolThreads = 2
    MaxPosted = 0
    MaxJobs = 2
    LastNumber = 4
    LastChunk = 2
    FirstSerial = 4
    LastSerial = 8
    RecentScans = 2
    MaxChunkFails = 1
    Urls = {"web", "file"}
    LocalFiles = {"file"}
    RadarSites = {"KLSX", "KMSX"}
    NoSite = ""
    MaxUpdates = 2
    Strikes = {"a", "b"}
    NumLightningServers = 2
    UpServers <- MCUpServers
    Layers = {"l1"}
    StrikeLife = 1
    KeyLife = 2
SPECIFICATION MCSpec
INVARIANTS
    FeedsTypeOK
    TimerOnlyWhileEnabled
    EnabledIsUpdated
    DestructorWaitsForNoTimer
    NoStrikeTwice
    StrikesReachLayers
    StoppedIsEmpty
PROPERTIES
    ListingFindsNewest
    NewestCompletes
    GuiThreadIsLetGo
    GetsConnected
