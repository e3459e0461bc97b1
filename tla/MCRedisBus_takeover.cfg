CONSTANTS
    c1 = c1
    c2 = c2
    NoOne = NoOne
    Consumers = {c1, c2}
    Stable = {c1, c2}
    Events = {1, 2}
    MaxEntries = 2
    BatchSize = 2
    MaxDeliveries = 2
    MaxLen = 2
    MaxStops = 1
    MaxLost = 1
SPECIFICATION FairSpec
INVARIANTS
    NoEventLost
    SecondRunHasACause
PROPERTIES
    HandedOnBelowTheBound
    EveryEventEnds
