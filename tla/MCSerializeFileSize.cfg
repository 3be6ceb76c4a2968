SPECIFICATION EncoderSpec
CONSTANTS
    MaxNodes = 3
    Keys = {"a"}
    Texts = {"a", "hello"}
    EmptyKey = ""
    Length <- MCLength
    HashValues = {0}
    Kinds = {"null", "int64", "string", "block", "array"}
    RefLimit = 256
    NarrowLimit = 256
    Malformed = {"hello"}
    RootCountMax = 3
INVARIANT FileSizeOverflowRefused
