SPECIFICATION Spec
CONSTANTS
    Typed <- MCTyped
    MaxLines = 4
    Images <- MCImages
    None = None
    Failed = Failed
INVARIANTS NothingIsLost AsksAreHeard
CHECK_DEADLOCK FALSE
