CONSTANTS
    s1 = s1
    s2 = s2
    Sites <- MCSites
    NoSite = "none"
    Categories <- MCCategories
    Catalogue <- MCCatalogue
    TiltsOf <- MCTiltsOf
    Offers <- MCOffers
    MaxUnderWay = 1
    Volumes <- MCVolumes
    ScansOf <- MCScansOf
    Archived <- MCArchived
    VolumeTimes <- MCVolumeTimes
    Elevations <- MCElevations
    Reach = 4
    MaxChunkDelay = 2
    Clock = 7
    MaxPending = 2
    Messages <- MCMessages
    EventOf <- MCEventOf
    HourOf <- MCHourOf
    DayHours = 2
    FirstHour = 8
    LastHour = 10
    InitialHistory = 1
    DefaultHistory = 1
    SelectDays <- MCSelectDays
    MaxArchiveDates = 3
    MaxSelections = 2
    MaxFailures = 1
SYMMETRY MCSymmetry
SPECIFICATION MCSpec
INVARIANTS
    MapsTypeOK
    ViewIsRefreshed
    Level2Settles
    EventsAccounted
    MessagesLoaded
    ArchivesBounded
    AlertsMirrorEvents
PROPERTIES
    Level2ShowsNewest
