SPECIFICATION Spec
CONSTANTS
    None = None
    Server = {s1}
    Domain = {d1}
    Row = {r1, r2}
    Request = {q1, q2}
    MaxAttempts = 2
    Faults = {"resolve", "database"}
INVARIANTS TypeOK PendingIsPolled
PROPERTIES RemovedStaysRemoved DomainSettles
CHECK_DEADLOCK FALSE
