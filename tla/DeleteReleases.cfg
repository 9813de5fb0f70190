SPECIFICATION Spec
CONSTANTS
    s1 = s1  s2 = s2  d1 = d1  t1 = t1  t2 = t2  c1 = c1  c2 = c2  None = None
    Server = {s1}
    Subdomain = {d1}
    Container = {c1, c2}
    Task = {t1, t2}
    SubOf <- OneSubdomain
    Ops = {"create", "delete"}
    Faults = {}
    StreamFaults = {}
    Restarts = FALSE
    MaxQueue = 1
SYMMETRY Interchangeable
INVARIANT DeletedServersReleased
CHECK_DEADLOCK FALSE
