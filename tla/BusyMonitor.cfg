SPECIFICATION FairSpec
CONSTANTS
    Period = 3
    Default = 3
    MinMark = 1
    Marks <- MCMarks
    Durations <- MCDurations
    MaxLate = 10
    Word = 32
INVARIANT
    LagBounded
PROPERTIES
    NoFalseAlarm
    Recovers
    Detects
