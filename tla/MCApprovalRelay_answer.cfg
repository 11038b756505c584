SPECIFICATION RelaySpec
CONSTANTS
    t1 = t1
    Runs = {r1}
    Threads = {t1}
    ThreadOf <- OneThread
    Claims = {a1,a2}
    Approvers = {a1,a2}
    NoClaim = NoClaim
    MaxAsks = 2
    Readers = {p1,p2}
    Cancels = {}
    Mutators = {m1}
    Boot = Boot
    Revoked = {}
    Faults = {}
    MaxCrashes = 1
    NoReader = NoReader
    NoLease = NoLease
SYMMETRY RelaySymmetry
CHECK_DEADLOCK FALSE
INVARIANTS
    DecisionReachesItsDemand
    OneDecisionPerRequest
    ResolvedAsDecided
