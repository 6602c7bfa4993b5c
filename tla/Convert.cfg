SPECIFICATION ConvFairSpec
CONSTANTS
    Chans = {1, 2}
    Junk = Junk
    TankSize = 8
    Tanks <- MCMixed
    HdrLen = 2
    SwapSpan = 2
    MaxTracebuf = 4
    Readings <- FewReadings
    InitSlots = 1
    MaxSlots = 4
    Counts = {1, 2}
    Types <- OddTypes
    Orders = {TRUE, FALSE}
    Sanity = {TRUE, FALSE}
    Times = {2, 3, 4, 5}
    MaxHeaders = 3
    Now = 100
    Second = 2
    Grow = 2
    HdrWords = 1
    SlotWords = 1
    Formats = {"SAC", "MSEED"}
CHECK_DEADLOCK FALSE
INVARIANT ConvTypeOK
INVARIANT Delivered
INVARIANT ConvertedOnce
INVARIANT ProgressFits
PROPERTY Finishes
