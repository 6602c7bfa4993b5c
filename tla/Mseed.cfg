SPECIFICATION MCSpec
CONSTANTS
    Sids <- MCSids
    SampleTypes = {"i", "f", "d"}
    RateParts = 3
    Argvs <- MCArgvs
    Upper <- MCUpper
    Cut <- MCCut
    Unfit2 <- MCUnfit2
    RecordRoom = 2
    FillAtLeast = 1
    Tanks <- MCTanks
CHECK_DEADLOCK FALSE
INVARIANT ListTypeOK
INVARIANT IdsSorted
INVARIANT SegmentsSorted
INVARIANT Healed
INVARIANT Conserved
INVARIANT Continuous
INVARIANT FirstAlive
INVARIANT ArgvUnderstood
INVARIANT FileFaithful
INVARIANT Counted
INVARIANT SamplesDated
PROPERTY MseedEnds
