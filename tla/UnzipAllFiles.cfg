SPECIFICATION Spec
CONSTANTS
    None = None
    Names <- MCNames
    Blank <- MCBlank
    CountMax <- MCCountMax
    Archives <- IntactArchives
    Jobs <- UnzipJob
    Root <- RelRoot
    Dirs0 <- RootOnly
    OutFile <- MCOutFile
INVARIANT
    AllFilesUnzipped
