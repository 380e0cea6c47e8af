SPECIFICATION HaFairSpec
CONSTANTS
    Count = 2
    MaxFaults = 2
    Cap = 3
INVARIANT HaTypeOK
INVARIANT OneWatchdog
PROPERTY EverySegmentServedOnce
PROPERTY WatchesAgain
CHECK_DEADLOCK FALSE
