SPECIFICATION Spec
CONSTANTS
    MaxNodes = 1
    Keys = {"a"}
    Values = {"v"}
    PlainKinds = {"nil"}
    NumberKinds = {"int64"}
    SerializeErrors = {"oom"}
INVARIANT LastErrorOkAfterSuccessfulFinalize
CHECK_DEADLOCK FALSE
