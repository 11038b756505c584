SPECIFICATION TransportSpec
CONSTANTS
    u1 = u1
    u2 = u2
    p1 = p1
    h1 = h1
    h2 = h2
    e1 = e1
    e2 = e2
    NoRow = NoRow
    Callers <- MCCallers
    Probes <- MCProbes
    Targets <- MCTargets
    Endpoints <- MCEndpoints
    MaxCalls = 3
    MaxSaves = 1
    MaxFaults = 1
    Askers = {a1, a2, a3}
    Remotes = {e1, e2}
    Command = Command
    MaxLosses = 2
CONSTRAINT Situations
INVARIANTS
    TunnelInvariant
    ProbesAreClosed
    PasswordInvariant
PROPERTIES
    TunnelIsKept
    OnlyTheOwnerEnds
    EveryCallEnds
CHECK_DEADLOCK FALSE
