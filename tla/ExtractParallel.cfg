SPECIFICATION FairSpec
CONSTANTS
    p1 = p1
    p2 = p2
    v1 = v1
    v2 = v2
    None = None
    MaxSize = 2
    Procs <- TwoProcs
    Outs <- TwoOuts
    Tmp <- TmpOfOuts
    Versions <- TwoVersions
    Size <- TwoSizes
    ModeOf <- OneMode
    Inodes <- SixInodes
    Faults <- CallFaults
    Exclusive = TRUE
INVARIANTS
    OutputMode
    NoTmpLeft
PROPERTY
    CallsReturn
