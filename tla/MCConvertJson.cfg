SPECIFICATION ConvertSpec
CONSTANTS
    MaxNodes = 4
    Keys = {"a"}
    Values = {"int", "max", "above", "text"}
    PlainKinds = {"null"}
    NumberKinds = {"int64", "uint64"}
    SerializeErrors = {}
    JsonSize = 3
    JsonKinds = {"null", "max", "above", "text", "empty", "block", "array", "odd"}
    CallerNodes = 1
INVARIANTS
    ConvertsWhole
    FailureNeverDelivered
    JsonReleased
CHECK_DEADLOCK FALSE
