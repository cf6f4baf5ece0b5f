SPECIFICATION FairSpec
CONSTANTS
    Parents = {p1, p2}
    MainSlots = 2
    SubSlots = 1
    MaxTries = 2
    RetryOnError = TRUE
    MaxCancels = 1
    MaxMishaps = 1
INVARIANTS
    TypeOK
    
    
    
PROPERTIES
    
    ParentsEnd
CHECK_DEADLOCK FALSE
