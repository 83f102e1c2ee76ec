SPECIFICATION BackupSpec
CONSTANTS
    FileSeq <- TwoFiles
    Written = {"f"}
    MaxTime = 4
    BackupCases <- Copying
CHECK_DEADLOCK FALSE
INVARIANTS CompleteWhole Fresh
PROPERTIES DoneStays
