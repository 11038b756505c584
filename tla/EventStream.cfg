SPECIFICATION FairStreamSpec
CONSTANTS
    Loop = Loop
    Timers = {t1}
    Viewers = {v1}
    MaxDeltas = 2
    MaxCalls = 1
    Nobody = Nobody
CHECK_DEADLOCK FALSE
INVARIANTS
    StreamInvariant ViewersAreServed
PROPERTIES TextIsStored
