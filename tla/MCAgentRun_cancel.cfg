SPECIFICATION Spec
CONSTANTS
    Submits = {s1, s2}
    Cancels = {c1}
    MaxTries = 2
    RetryOnError = TRUE
    UseMemory = TRUE
    MaxChunks = 2
    MaxCrashes = 1
    MaxStops = 0
    MaxFaults = 0
    MaxExpiries = 1
INVARIANTS
    TypeOK
    RowInvariant
    FirstEndIsTheStatus
    
    MemoryOfCompleted
PROPERTIES LifecycleSpec OutputUntilWindow
CHECK_DEADLOCK FALSE
SYMMETRY SubmitSymmetry
