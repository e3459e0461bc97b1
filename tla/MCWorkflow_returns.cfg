CONSTANTS
    p1 = p1
    p2 = p2
    e1 = e1
    e2 = e2
    k1 = k1
    NoKey = NoKey
    NoExec = NoExec
    Procs = {p1, p2}
    Execs = {e1, e2}
    Keys = {k1}
    NSteps = 1
    Recoverables = {1}
    Blockers = {}
    Leaky = {}
    MaxAttempts = 1
    LeaseCoversRun = FALSE
    MaxCrashes = 0
    MaxLostWrites = 0
    MaxFaults = 0
SPECIFICATION FairSpec
INVARIANTS
    ClaimSeesCurrentSteps
PROPERTIES
    EveryCallReturns
