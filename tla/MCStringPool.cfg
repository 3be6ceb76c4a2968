SPECIFICATION FairSpec
CONSTANTS
    Strings <- MCStrings
    Length <- MCLength
    HashValues = {0, 7, 16}
    NoString = NoString
    NonZeroMark = 16
    InitialCapacity = 2
    MaxOffset = 20
INVARIANTS
    NoStringTwice
    ProbeCanStop
    StringsTileBuffer
    ResultIsOwnString
PROPERTY InternEnds
CHECK_DEADLOCK FALSE
