SPECIFICATION Spec
CONSTANTS
    Submits = {s1}
    Cancels = {c1}
    MaxTries = 2
    RetryOnError = TRUE
    UseMemory = TRUE
    MaxChunks = 1
    MaxCrashes = 0
    MaxStops = 0
    MaxFaults = 0
    MaxExpiries = 0
PROPERTY TerminalFinal
CHECK_DEADLOCK FALSE
