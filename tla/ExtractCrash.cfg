SPECIFICATION Spec
CONSTANTS
    p1 = p1
    p2 = p2
    v1 = v1
    v2 = v2
    None = None
    MaxSize = 2
    Procs <- TwoProcs
    Outs <- OneOut
    Tmp <- TmpOfOuts
    Versions <- TwoVersions
    Size <- EqualSizes
    ModeOf <- BothModes
    Inodes <- FourInodes
    Faults <- CrashFaults
    Exclusive = TRUE
INVARIANTS
    TmpDiscipline
    OutputWhole
PROPERTY
    Refinement
