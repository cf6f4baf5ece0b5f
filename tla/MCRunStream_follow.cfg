SPECIFICATION FairSpec
CONSTANTS
    Outputs <- MCOutputs
    BatchLimit = 1
    MaxEvents = 2
    MaxErrors = 1
    MaxDrops = 1
    MaxTimeouts = 1
    MaxReloads = 1
    MaxExpiries = 1
INVARIANTS
    TypeOK
    ExactReplay
    EndHasTheAnswer
    
PROPERTY PageEnds
CHECK_DEADLOCK FALSE
