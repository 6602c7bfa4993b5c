SPECIFICATION MCSpec
CONSTANTS
    SidLen = 59
    Ascending <- MCAscending
    PatternRoom = 32
    CodeRoom = 8
    LineRoom = 38
    MinRecLen = 2
    MaxRecLen = 13
    HeaderLen = 3
    ScanStep = 4
    SkipLen = 1
    BlockLen = 2
    MaxDigits = 2
    Inputs <- MCInputs
    Tried <- MCTried
PROPERTY RecordsReturned
PROPERTY ReadingEnds
INVARIANT SelectionFaithful
