SPECIFICATION Spec
CONSTANTS
    None = None
    Names <- MCNames
    Blank <- MCBlank
    CountMax <- MCCountMax
    Archives <- MCArchives
    Jobs <- AllJobs
    Root <- RelRoot
    Dirs0 <- RootAndD
    OutFile <- MCOutFile
INVARIANTS
    UsesEachEntryOnce
    FindsTheEntry
    UnpacksIntoExistingDirs
    CursorSound
    FileSound
PROPERTIES
    SearchCorrect
    Finishes
