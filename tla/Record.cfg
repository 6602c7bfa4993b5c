SPECIFICATION MCSpec
CONSTANTS
    HourPerDay = 2
    MinPerHour = 2
    SecPerMin = 2
    FsecPerSec = 5
    UsPerFsec = 4
    NsPerUs = 2
    SidLen = 59
    MaxFactor = 15
    Precise = 21
    Different = 50
    FloatParts = 16
    ExtraBytes = 40
    CutShort = {3, 6, 12, 24, 29}
INVARIANT WithinBuffers
INVARIANT SamplesBack
INVARIANT TimesBack
INVARIANT HeaderBack
INVARIANT ExtrasBack
