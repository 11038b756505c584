SPECIFICATION LifecycleSpec
CONSTANTS
    t1 = t1  r1 = r1  r2 = r2  u1 = u1  u2 = u2  s1 = s1  s2 = s2  p1 = p1  p2 = p2
    Threads = {t1}
    Runs = {r1}
    Uploads = {u1}
    Scans = {s1, s2}
    Purges = {p1, p2}
    ThreadOf <- OneThread
    RunOf <- FirstRun
    NameOf <- TwoNames
    FirstVersion = 1
    MaxCount = 2
    MaxClock = 1
    MaxVersions = 2
    MaxPreviews = 1
    MaxFaults = 1
SYMMETRY Alike
INVARIANTS
    LifecycleInvariant FilesFollowRows
PROPERTY PolicyIsFollowed
CHECK_DEADLOCK FALSE
