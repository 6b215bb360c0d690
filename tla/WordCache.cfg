SPECIFICATION Spec
CONSTANTS
    Calls <- MCCalls
    Token <- MCToken
    High <- MCHigh
    ModeNames <- MCModes
    None = None
    MaxCalls = 3
INVARIANTS
    AutomatonInSync
    RemembersPerName
