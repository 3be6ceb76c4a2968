SPECIFICATION Spec
CONSTANTS
    MaxNodes = 3
    Keys = {0, 1, 2}
    MalformedKeys = {2}
    Kinds = {"null", "string", "malformed", "unformattable", "block", "array", "corrupt", "torn"}
    OmittedKinds <- SmallKinds
    OmittedKeys <- SmallKeys
INVARIANTS
    ReleasesScratch
    JsonWhole
    YamlWhole
    IniReadsBack
CHECK_DEADLOCK FALSE
