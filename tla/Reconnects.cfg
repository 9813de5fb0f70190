SPECIFICATION FairSpec
CONSTANTS
    s1 = s1  s2 = s2  d1 = d1  t1 = t1  t2 = t2  c1 = c1  c2 = c2  None = None
    Server = {s1, s2}
    Subdomain = {d1}
    Container = {c1, c2}
    Task = {t1}
    SubOf <- OneSubdomain
    Ops = {"create", "delete"}
    Faults = {"crash"}
    StreamFaults = {}
    Restarts = FALSE
    MaxQueue = 1
PROPERTY ListenerReconnects
CHECK_DEADLOCK FALSE
