SPECIFICATION Spec
CONSTANTS
    Sources <- MCSources
    SetNames <- MCSetNames
    SetValues <- MCSetValues
    Escaped <- MCEscaped
INVARIANTS
    LinksSound
    RoundTrip
    AcceptsBalanced
