SPECIFICATION TextSpec
CONSTANTS
    Bytes <- Utf8Bytes
    MaxLength = 4
INVARIANTS
    Utf8Exact
    JsonStringReadsBack
    IniStringReadsBack
CHECK_DEADLOCK FALSE
