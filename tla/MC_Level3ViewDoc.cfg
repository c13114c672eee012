CONSTANTS
    Times <- MCTimes
    Published <- MCPublished
    Day = 2
    Now = 3
    MaxWork = 2
SPECIFICATION ViewSpec
INVARIANT
    ReloadUpdatesView
