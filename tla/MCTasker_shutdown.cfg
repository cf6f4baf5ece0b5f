SPECIFICATION FairSpec
CONSTANTS
    Tasks = {b1, b2}
    Builds = {b1, b2}
    Workers = {w1}
    MaxCancels = 0
    MaxDeletes = 0
    MaxFaults = 0
    MaxRestarts = 0
PROPERTY ShutdownEnds
CHECK_DEADLOCK FALSE
