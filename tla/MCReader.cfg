SPECIFICATION ReaderSpec
CONSTANTS
    Keys = {"a", "b", "c"}
    HashValues = {0, 1, 2}
    MaxEntries = 5
    MaxNodes = 3
    Kinds = {"int64", "block", "array", "corrupt", "torn"}
    Iters = {"outer", "inner"}
    PathDocuments <- MCPathDocuments
    Characters = {".", "[", "]", "'", "a", "1"}
    MaxLength = 6
    MaxDigits = 2
    IndexLimit = 10
INVARIANTS
    AnswerCorrect
    PathSpells
    RefSound
    IterationFaithful
PROPERTY ReadingEnds
CHECK_DEADLOCK FALSE
