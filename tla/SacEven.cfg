SPECIFICATION Spec
CONSTANTS
    Traces <- MCTraces
    Now = 100
    Second = 2
    InitCap = 4
    Grow = 2
    HdrWords = 1
    Starts = {0, 2, 4, 8, 18, 20}
    Counts = {1, 2}
    Periods = {2}
    Slacks = {0}
    Copyable = {TRUE}
    MaxLen = 3
CHECK_DEADLOCK FALSE
INVARIANT EvenlySpaced
