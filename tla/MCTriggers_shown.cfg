SPECIFICATION Spec
CONSTANTS
    Minutes = 2
    Requests = {q1}
    MaxTries = 2
    MaxScans = 2
    MaxDeaths = 0
    MaxFaults = 0
INVARIANT EndIsShown
CHECK_DEADLOCK FALSE
