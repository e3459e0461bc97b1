CONSTANTS
    i1 = i1
    i2 = i2
    None = None
    Instances = {i1, i2}
    NJobs = 2
    MaxDue = 2
    MaxLost = 1
    MaxFaults = 1
SPECIFICATION FairSpec
INVARIANTS
    TypeOK
    OccurrenceRunsOnce
    OverlapNeedsALostSession
    EndedRunIsRecorded
PROPERTIES
    EveryJobGetsItsTurn
