SPECIFICATION FairSpec
CONSTANTS
    Chans = {1, 2}
    Junk = Junk
    TankSize = 6
    Tanks <- MCTanks
    HdrLen = 2
    SwapSpan = 2
    MaxTracebuf = 4
    Readings <- Upset
    InitSlots = 1
    MaxSlots = 4
    Counts = {0, 1, 3}
    Types <- OddTypes
    Orders = {TRUE, FALSE}
    Sanity = {TRUE, FALSE}
    Times = {1}
    MaxHeaders = 2
CHECK_DEADLOCK FALSE
INVARIANT TypeOK
INVARIANT SlotFree
INVARIANT EntriesApart
INVARIANT EntriesMatch
INVARIANT TracesListed
PROPERTY GoesForward
PROPERTY Terminates
