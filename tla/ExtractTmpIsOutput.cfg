SPECIFICATION Spec
CONSTANTS
    p1 = p1
    p2 = p2
    v1 = v1
    v2 = v2
    None = None
    MaxSize = 2
    Procs <- OneProc
    Outs <- CollidingOuts
    Tmp <- TmpOfOuts
    Versions <- TwoVersions
    Size <- EqualSizes
    ModeOf <- BothModes
    Inodes <- FourInodes
    Faults <- NoFaults
    Exclusive = TRUE
INVARIANT
    OutputKept
