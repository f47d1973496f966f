SPECIFICATION Spec
CONSTANTS
    Batch = 2
    MaxCommands = 2
    Iterations = 2
    Commands <- MCCommands
    IrqAt <- MCAnywhere
PROPERTIES
    SwitchesToRunnable
CHECK_DEADLOCK FALSE
