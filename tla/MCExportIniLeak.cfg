SPECIFICATION Spec
CONSTANTS
    MaxNodes = 3
    Keys = {1}
    MalformedKeys = {}
    Kinds = {"string", "block", "corrupt"}
    OmittedKinds <- SmallKinds
    OmittedKeys <- SmallKeys
INVARIANT IniReleasesScratch
CHECK_DEADLOCK FALSE
