CONSTANTS
    NumServers = 3
    MinPollInterval = 6
    MaxPollInterval = 7
    MaxDatagrams = 2
    Maps <- MCMaps
    LoopStart = 1
    LoopEnd = 2
    Earliest = 1
    EndTimes <- MCEndTimes
    MaxAttempts = 2
    MaxQueuedSteps = 1
    MaxTasks = 1
SPECIFICATION MCSpec
INVARIANTS
    ManagersTypeOK
    RefusedServerNotPolled
    MapsFollowTimeline
    StepCounterExact
PROPERTIES
    OffsetIsOfCurrentServer
    MainThreadGoesOn
    AnimationGoesOn
    StepsEnd
