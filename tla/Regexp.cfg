SPECIFICATION Spec
CONSTANTS
    Alphabet <- MCAlphabet
    NSUBEXP = 10
    Patterns <- MCPatterns
    NextPatterns <- MCNextPatterns
    Texts <- MCTexts
    NextTexts <- MCNextTexts
    Replacements <- MCReplacements
INVARIANTS
    CompilesLegal
    FindsLeftmost
    GroupsMatch
    ReplacesGroups
