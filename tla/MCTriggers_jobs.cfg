SPECIFICATION FairSpec
CONSTANTS
    Minutes = 2
    Requests = {q1, q2}
    MaxTries = 2
    MaxScans = 3
    MaxDeaths = 2
    MaxFaults = 1
INVARIANTS
    OneRunPerSlot
    CountedOnce
PROPERTY SyncSettles
CHECK_DEADLOCK FALSE
