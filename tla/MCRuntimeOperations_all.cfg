SPECIFICATION OpsSpec
CONSTANTS
    migration = migration
    u1 = u1
    u2 = u2
    k1 = k1
    k2 = k2
    configuring = configuring
    p1 = p1
    p2 = p2
    Runs = {r1}
    Mutators <- AllMutators
    NoLease = NoLease
    Migration = migration
    Configuring = configuring
    Updates = {u1}
    Rotations = {k1}
    FirstToken = t0
    Pollers = {p1}
    MaxRevision = 3
    MaxCrashes = 2
    MaxMigrations = 2
CONSTRAINT Apart
INVARIANTS
    NoPartialData
    TokenIsKnown
    UndoHasAWayBack
PROPERTIES
    RecordsAreTrue
    MigrationIsSettled
    ChangedUnderLease
    OpsImplementExclusion
CHECK_DEADLOCK FALSE
