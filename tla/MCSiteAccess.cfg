SPECIFICATION AccessSpec
CONSTANTS
    ada = ada  oma = oma  req = req  m1 = m1  t1 = t1  t2 = t2  r1 = r1  r2 = r2  r3 = r3  None = None
    Users = {ada, oma, req}
    Admins = {ada}
    Operators = {oma}
    Mandates = {m1}
    Threads = {t1}
    Requests = {r1, r2, r3}
    MaxFaults = 1
SYMMETRY Alike
INVARIANTS
    AccessInvariant RevokedRunsAreFollowed
PROPERTIES
    ChangesAreWarranted
CHECK_DEADLOCK FALSE
