SPECIFICATION Spec
CONSTANTS
    p1 = p1
    p2 = p2
    p3 = p3
    Procs = {p1, p2, p3}
    None = None
    LockCases <- ThreeMains
    Parts = {"lock"}
    MaxContext = 2
    MaxAlloc = 1
    MaxTry = 2
    MaxBlock = 3
    MaxSlot = 2
    InitialSize = 1
INVARIANT Apart
