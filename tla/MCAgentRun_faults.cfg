SPECIFICATION FairSpec
CONSTANTS
    Submits = {s1}
    Cancels = {c1}
    MaxTries = 2
    RetryOnError = TRUE
    UseMemory = TRUE
    MaxChunks = 1
    MaxCrashes = 0
    MaxStops = 1
    MaxFaults = 1
    MaxExpiries = 0
INVARIANT OneEnd
PROPERTIES CancelStopsRun 
CHECK_DEADLOCK FALSE
