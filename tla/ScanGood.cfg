SPECIFICATION Spec
CONSTANTS
    Chans = {1, 2}
    Junk = Junk
    TankSize = 8
    Tanks <- MCWellFormed
    HdrLen = 2
    SwapSpan = 2
    MaxTracebuf = 4
    Readings <- NoReadings
    InitSlots = 1
    MaxSlots = 4
    Counts = {0, 1}
    Types <- OneType
    Orders = {TRUE}
    Sanity = {TRUE}
    Times = {1, 2}
    MaxHeaders = 3
CHECK_DEADLOCK FALSE
PROPERTY Catalogued
