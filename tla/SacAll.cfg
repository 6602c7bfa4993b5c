SPECIFICATION Spec
CONSTANTS
    Traces <- MCAllTraces
    Now = 6
    Second = 2
    InitCap = 4
    Grow = 2
    HdrWords = 1
    Starts = {0, 3, 17}
    Counts <- OddCounts
    Periods = {2, 3}
    Slacks = {0, 2}
    Copyable = {TRUE, FALSE}
    MaxLen = 3
CHECK_DEADLOCK FALSE
INVARIANT TypeOK
INVARIANT WritesInBuffer
INVARIANT WholePackets
INVARIANT CountsAgree
INVARIANT NoDuplicateKept
INVARIANT BogusEndsTrace
INVARIANT CleanIsEven
