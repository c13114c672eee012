CONSTANTS
    Maps = {m1}
    LoopStart = 1
    LoopEnd = 2
    Earliest = 1
    EndTimes = {1}
    MaxAttempts = 2
    MaxQueuedSteps = 1
    MaxTasks = 1
SPECIFICATION TimelineSpec
INVARIANT StepCatchesUp
