SPECIFICATION FairSpec
CONSTANTS
    N = 2
    R = 2
    PgPath = TRUE
    Modes = {TRUE, FALSE}
    QueueMax = 1
    ProcessMax = 2
    Others <- NoneOrLast
    MaxFault = 3
INVARIANTS AckedArchived AsManyAsPossible
PROPERTIES NoOverwrite 
