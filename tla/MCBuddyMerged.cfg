SPECIFICATION Spec
CONSTANTS
    MaxOrder <- MCMaxOrder
    Pow2 <- MCPow2
    Requests <- MCRequests
INVARIANTS
    FreeBuddiesMerged
