SPECIFICATION Spec
CONSTANTS
    Batch = 1
    MaxTid = 3
    Depth = 1
    Images <- MCImages
    Calls <- MCCalls
    Commands <- MCThread
    IrqAt <- MCIrqAt
INVARIANTS
    TypeOK
    OwnStack
PROPERTIES
    ThreadsKeepImages
CHECK_DEADLOCK FALSE
