SPECIFICATION Spec
CONSTANTS
    j1 = j1
    j2 = j2
    a1 = a1
    a2 = a2
    u1 = u1
    d1 = d1
    d2 = d2
    main = main
    other = other
    good = good
    bad = bad
    NoToken = NoToken
    NoDir = NoDir
    NoVersion = NoVersion
    Home = Home
    NoLease = NoLease
    Runs = {}
    Jobs <- MCJobs
    Activators <- MCActivators
    Updaters <- MCUpdaters
    Mutators <- MCMutators
    Modes <- MCModes
    Dirs <- MCDirs
    Paths <- MCPaths
    MainPath = main
    Versions <- MCVersions
    Broken <- MCBroken
    MaxFaults = 1
SYMMETRY Symmetry
CONSTRAINT Situations
INVARIANT ProvisioningInvariant
PROPERTY SucceededIsConnected
CHECK_DEADLOCK FALSE
