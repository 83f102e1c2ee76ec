SPECIFICATION SharedSpec
CONSTANTS
    ClientTotal = 3
    QueueTotal = 3
    j1 = j1
    j2 = j2
    j3 = j3
    Jobs = {j1, j2, j3}
    NoJob = NoJob
    BackupStandby = TRUE
    RetryMax = 1
    MaxExtra = 1
    ThrowOnError = {TRUE, FALSE}
INVARIANTS DoneComplete ResultFaithful
PROPERTIES PoolSpec ExecutorEnds
