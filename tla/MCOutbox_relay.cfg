CONSTANTS
    r1 = r1
    r2 = r2
    Relays = {r1, r2}
    NEvents = 3
    Limit = 1
    MaxAttempts = 2
    Stalled = {1}
    MaxFaults = 1
    MaxRepairs = 1
SPECIFICATION FairSpec
INVARIANTS
    ResentOnlyAfterAFault
    GivenUpAfterRealFailures
PROPERTIES
    KeepsThePromise
    SettlesUnlessStalled
    UndeliveredIsReported
