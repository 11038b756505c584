SPECIFICATION GuidedSpec
CONSTANTS
    k1 = k1  k2 = k2
    Keys = {k1, k2}
    MaxRevisions = 3
    MaxDecisions = 2
    MaxAttempts = 2
    MaxFaults = 1
INVARIANTS
    GuidedInvariant AttemptsAreWarranted StatusFollowsAttempts
CHECK_DEADLOCK FALSE
