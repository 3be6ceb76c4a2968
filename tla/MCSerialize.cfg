SPECIFICATION EncoderSpec
CONSTANTS
    MaxNodes = 3
    Keys = {"a"}
    Texts = {"a", "hello"}
    EmptyKey = ""
    Length <- MCLength
    HashValues = {0, 1}
    Kinds = {"null", "int64", "string", "block", "array"}
    RefLimit = 65536
    NarrowLimit = 8
    Malformed = {"hello"}
    RootCountMax = 3
INVARIANTS
    NothingLeaks
    ItemsApart
    ImageReadsBack
    EntriesSearchable
    ImageVerifies
