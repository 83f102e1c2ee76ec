SPECIFICATION Spec
CONSTANTS
    Process = {"a", "b"}
    Drivers = {"s3", "azure", "gcs"}
    PartSize = 2
    MaxSize = 3
    MaxWrite = 3
    MaxServe = 2
    FileSize = 2
    MaxRun = 2
    MaxCrash = 2
    MaxCommand = 3
    MaxItem = 2
    Reuse = FALSE
    Object = {1, 2, 3, 4, 5, 6, 7}
    Sibling = {5}
    Elsewhere = {1}
    PageSize = 2
    DeleteMax = 3
    MaxServed = 2
    Request = {q1, q2}
    MaxSession = 2
    MaxBody = 1
    MaxSend = 2
SYMMETRY Symmetry
INVARIANTS NoneLeft 
PROPERTIES CloudStore PosixStore RemoteStore
