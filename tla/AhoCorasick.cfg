SPECIFICATION Spec
CONSTANTS
    Lists <- MCLists
    Texts <- MCTexts
    Modes <- MCModes
    Chars <- MCChars
    Fold <- MCFold
    High <- MCHigh
    Token <- MCToken
    Bits = 3
    IntMax = 127
INVARIANTS
    InBounds
    AutomatonRight
    CountsRight
    ValueRight
