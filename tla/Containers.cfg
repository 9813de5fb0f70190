SPECIFICATION Spec
CONSTANTS
    Idle = Idle
    Server <- Meeting
    Faults = {"refused", "connect", "half", "api", "save", "vanish", "restart"}
    MaxGen <- Creations
    MaxFaults = 2
INVARIANT TypeOK
PROPERTIES KeepsContract CallsReturn TouchesOnlyOwn
CHECK_DEADLOCK FALSE
