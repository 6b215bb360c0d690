SPECIFICATION Spec
CONSTANTS
    p1 = p1
    p2 = p2
    v1 = v1
    v2 = v2
    None = None
    MaxSize = 2
    Procs <- OneProc
    Outs <- OneOut
    Tmp <- TmpOfOuts
    Versions <- TwoVersions
    Size <- TwoSizes
    ModeOf <- BothModes
    Inodes <- FourInodes
    Faults <- OnlyCrash
    Exclusive = TRUE
INVARIANT
    OutputWhole
