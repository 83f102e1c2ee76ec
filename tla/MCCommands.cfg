SPECIFICATION Spec
CONSTANTS
    p1 = p1
    p2 = p2
    p3 = p3
    Procs = {p1, p2, p3}
    None = None
    LockCases <- LockSituations
    Parts = {"lock", "call", "mem"}
    MaxContext = 2
    MaxAlloc = 1
    MaxTry = 2
    MaxBlock = 3
    MaxSlot = 2
    InitialSize = 1
INVARIANTS Exclusive StopCovers
PROPERTIES RestorePlanned BackupPlanned OptionsResolved WalExact StreamExact PackExact MemDiscipline
