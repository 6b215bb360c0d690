SPECIFICATION Spec
CONSTANTS
    Half <- MCHalf
    Coordinates <- MCCoordinates
    Lengths <- MCLengths
    Hashes <- MCHashes
    MaxSteps = 2
    Delims <- MCDelims
    CountTexts <- MCTexts
    CountWordSet <- MCWords
    SplitTexts <- MCSplitTexts
    SplitFields <- MCSplitFields
INVARIANTS
    EncodeRight
    NeighboursRight
    CountsOccurrences
    SplitRight
