SPECIFICATION FilesSpec
CONSTANTS
    Docs = {"small", "other", "large"}
    NoDoc = NoDoc
    Size <- MCSize
    Header = 2
    Footer = 1
    MaxCalls = 2
    MaxLosses = 1
    Unverifiable = {"other"}
INVARIANTS
    AcceptsOnlyWhole
    TrueMeansWritten
    NothingHeld
    VerifyDecides
    OkIsOneImage
PROPERTY FilesEnd
CHECK_DEADLOCK FALSE
