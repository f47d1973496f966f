SPECIFICATION Spec
CONSTANTS
    MaxOrder <- MCMaxOrder
    Pow2 <- MCPow2
    Requests <- MCRequests
INVARIANTS
    TypeOK
    Partition
    FreeListsExact
    MergeDeletesLinkedNodes
    SplitNeverBlocked
PROPERTIES
    CallsReturn
    Allocator
