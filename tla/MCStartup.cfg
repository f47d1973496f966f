SPECIFICATION StartupSpec
CONSTANTS
    MaxOrder <- MCMaxOrder
    Pow2 <- MCPow2
    Requests <- MCRequests
    Regions <- MCRegions
INVARIANTS
    StartupTypeOK
    ReservedKept
    StartupExact
PROPERTIES
    MergesAll
    StartupEnds
CHECK_DEADLOCK FALSE
