SPECIFICATION OpsSpec
CONSTANTS
    migration = migration
    u1 = u1
    u2 = u2
    k1 = k1
    k2 = k2
    configuring = configuring
    p1 = p1
    p2 = p2
    Runs = {}
    Mutators <- AllMutators
    NoLease = NoLease
    Migration = migration
    Configuring = configuring
    Updates = {}
    Rotations = {k1}
    FirstToken = t0
    Pollers = {}
    MaxRevision = 2
    MaxCrashes = 0
    MaxMigrations = 1
INVARIANT RestoredIsKnown
CHECK_DEADLOCK FALSE
