CONSTANTS
    r1 = r1
    r2 = r2
    r3 = r3
    r4 = r4
    k1 = k1
    k2 = k2
    NoRequest = NoRequest
    Requests = {r1, r2, r3, r4}
    Keys = {k1, k2}
    Digests = {1, 2}
    Backends = {"memory", "redis"}
    Budget = 1
    TTLCoversRun = TRUE
    MaxFaults = 2
SPECIFICATION Spec
SYMMETRY Interchangeable
CHECK_DEADLOCK FALSE
INVARIANTS
    OneWorker
    WorkedOnce
    LockHasACause
PROPERTIES
    OldestDropped
