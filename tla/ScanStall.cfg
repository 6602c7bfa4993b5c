SPECIFICATION FairSpec
CONSTANTS
    Chans = {1}
    Junk = Junk
    TankSize = 5
    Tanks <- MCTanks
    HdrLen = 2
    SwapSpan = 2
    MaxTracebuf = 4
    Readings <- NoReadings
    InitSlots = 1
    MaxSlots = 4
    Counts <- NegativeCounts
    Types <- OneType
    Orders = {TRUE, FALSE}
    Sanity = {TRUE}
    Times = {1}
    MaxHeaders = 2
CHECK_DEADLOCK FALSE
PROPERTY Terminates
