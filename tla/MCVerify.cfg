CONSTANTS
    VFiles = {f, g}
    VRepos <- Repositories
    RestoreCases <- AllRestores
    Guc = TRUE
    ProcessMax = 2
SPECIFICATION Spec
INVARIANTS VerifyFinds NoFalseAlarm 
PROPERTIES VerifyEnds RestoreKeeps Completes
