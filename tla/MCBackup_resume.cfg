SPECIFICATION BackupSpec
CONSTANTS
    FileSeq <- TwoFiles
    Written = {"f"}
    MaxTime = 4
    BackupCases <- Resuming
INVARIANT FreshResumed
CHECK_DEADLOCK FALSE
