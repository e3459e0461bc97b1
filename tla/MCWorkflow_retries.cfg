CONSTANTS
    p1 = p1
    p2 = p2
    e1 = e1
    e2 = e2
    k1 = k1
    NoKey = NoKey
    NoExec = NoExec
    Procs = {p1, p2}
    Execs = {e1}
    Keys = {k1}
    NSteps = 3
    Recoverables = {1, 2, 3}
    Blockers = {}
    Leaky = {2}
    MaxAttempts = 2
    LeaseCoversRun = TRUE
    MaxCrashes = 1
    MaxLostWrites = 0
    MaxFaults = 1
SPECIFICATION Spec
SYMMETRY Interchangeable
PROPERTIES
    UndoneInReverse
