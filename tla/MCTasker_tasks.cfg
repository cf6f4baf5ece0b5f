SPECIFICATION FairSpec
CONSTANTS
    Tasks = {b1, b2}
    Builds = {b1, b2}
    Workers = {w1, w2}
    MaxCancels = 1
    MaxDeletes = 1
    MaxFaults = 1
    MaxRestarts = 1
INVARIANTS
    TypeOK
    BuildInvariant
    Saved
    ActiveIsCarried
    CancelBeatsSuccess
PROPERTIES
    RowFinal
    TaskEnds
    IdleShutdownEnds
CHECK_DEADLOCK FALSE
