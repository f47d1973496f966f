SPECIFICATION Spec
CONSTANTS
    Keys <- MCKeys
    FifoSize = 2
    MaxLine = 4
INVARIANTS
    TypeOK
PROPERTIES
    EditsLine
CHECK_DEADLOCK FALSE
