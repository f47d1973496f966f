SPECIFICATION Spec
CONSTANTS
    Batch = 5
    MaxCommands = 2
    Iterations = 2
    Commands <- MCCommands
    IrqAt <- MCOutsideLists
INVARIANTS
    RunQueueExact
    ShellWaits
PROPERTIES
    IdleReapsAll
    SwitchesToRunnable
    AllEnd
    TakesTurns
CHECK_DEADLOCK FALSE
