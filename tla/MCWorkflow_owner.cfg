CONSTANTS
    p1 = p1
    p2 = p2
    e1 = e1
    e2 = e2
    k1 = k1
    NoKey = NoKey
    NoExec = NoExec
    Procs = {p1, p2}
    Execs = {e1, e2}
    Keys = {k1}
    NSteps = 2
    Recoverables = {1, 2}
    Blockers = {2}
    Leaky = {}
    MaxAttempts = 1
    LeaseCoversRun = TRUE
    MaxCrashes = 2
    MaxLostWrites = 1
    MaxFaults = 2
SPECIFICATION Spec
SYMMETRY Interchangeable
INVARIANTS
    TypeOK
    SingleDriver
    FailedLeavesNoRecordedWork
    RecordedBlockerNeverReleased
    SuccessStands
    KeyWorksOnce
    HangingWorkIsListed
PROPERTIES
    TerminalIsFinal
