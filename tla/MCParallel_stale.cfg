SPECIFICATION Spec
CONSTANTS
    ClientTotal = 1
    QueueTotal = 1
    j1 = j1
    j2 = j2
    j3 = j3
    Jobs = {j1, j2, j3}
    NoJob = NoJob
    BackupStandby = FALSE
    RetryMax = 0
    MaxExtra = 1
    ThrowOnError = {FALSE}
INVARIANT ResultOwn
