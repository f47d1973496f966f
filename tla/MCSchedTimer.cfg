SPECIFICATION Spec
CONSTANTS
    Batch = 3
    MaxCommands = 2
    Iterations = 2
    Commands <- MCCommands
    IrqAt <- MCAnywhere
INVARIANTS
    TypeOK
    ReapedNeverRuns
    NoNullWrite
CHECK_DEADLOCK FALSE
