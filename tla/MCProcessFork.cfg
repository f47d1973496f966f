SPECIFICATION Spec
CONSTANTS
    Batch = 1
    MaxTid = 3
    Depth = 1
    Images <- MCImages
    Calls <- MCCalls
    Commands <- MCThreadFork
    IrqAt <- MCIrqAt
INVARIANTS
    OwnStack
CHECK_DEADLOCK FALSE
