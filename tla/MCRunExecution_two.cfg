SPECIFICATION Spec
CONSTANTS
    t1 = t1
    Runs = {r1, r2}
    Threads = {t1}
    ThreadOf <- OneThread
    Claims = {}
    NoClaim = NoClaim
    MaxAsks = 1
    Readers = {p1, p2}
    Cancels = {}
    Mutators = {m1}
    Boot = Boot
    Revoked = {r2}
    Faults = {"context", "abandon", "runtime"}
    MaxCrashes = 1
    NoReader = NoReader
    NoLease = NoLease
SYMMETRY ReaderSymmetry
CHECK_DEADLOCK FALSE
INVARIANTS
    ReaderIsRegistered
    CompletedIsGenuine
PROPERTIES
    ClosedRunIsKept ImplementsExclusion
