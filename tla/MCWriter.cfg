SPECIFICATION Spec
CONSTANTS
    MaxNodes = 3
    Keys = {"a"}
    Values = {"v"}
    PlainKinds = {"nil"}
    NumberKinds = {"int64"}
    SerializeErrors = {"oom"}
INVARIANTS
    TreeIsDocument
    KeysFollowScope
PROPERTIES
    FailureIsFinal
    ImplementsDocument
CHECK_DEADLOCK FALSE
