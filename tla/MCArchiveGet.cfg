SPECIFICATION FairSpec
CONSTANTS
    N = 2
    R = 2
    QueueMax = 2
    ProcessMax = 2
    Others <- SameOrOther
    Archived = 1
    MaxFault = 1
INVARIANTS GotWhole
 
