SPECIFICATION FairSpec
CONSTANTS
    t1 = t1
    Runs = {r1}
    Threads = {t1}
    ThreadOf <- OneThread
    Claims = {}
    NoClaim = NoClaim
    MaxAsks = 1
    Readers = {p1, p2}
    Cancels = {c1}
    Mutators = {m1}
    Boot = Boot
    Revoked = {}
    Faults = {}
    MaxCrashes = 2
    NoReader = NoReader
    NoLease = NoLease
CHECK_DEADLOCK FALSE
INVARIANTS
    NoStrandedRun
    StatusesAreWarranted
PROPERTY EveryRunSettles
