SPECIFICATION ConvSpec
CONSTANTS
    Chans = {1, 2}
    Junk = Junk
    TankSize = 8
    Tanks <- MCTanks
    HdrLen = 2
    SwapSpan = 2
    MaxTracebuf = 7
    Readings <- NoReadings
    InitSlots = 1
    MaxSlots = 4
    Counts = {1, 2}
    Types <- OddTypes
    Orders = {FALSE}
    Sanity = {TRUE}
    Times = {2}
    MaxHeaders = 1
    Now = 100
    Second = 2
    Grow = 5
    HdrWords = 1
    SlotWords = 1
    Formats = {"MSEED"}
CHECK_DEADLOCK FALSE
INVARIANT BufferDetached
