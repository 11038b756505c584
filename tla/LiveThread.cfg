SPECIFICATION LiveSpec
CONSTANTS
    MaxRuns = 2
    MaxEvents = 2
    MaxActs = 1
    MaxFaults = 1
INVARIANTS
    ShownOnce
PROPERTIES
    RefusalStays
    ScreenCatchesUp
CHECK_DEADLOCK FALSE
