CONSTANTS
    Paths <- MCPaths
    Order <- MCOrder
    Fold <- MCFold
    UnsafeNames = {".."}
    RecognizedNames = {"c"}
    MaxEntries = 4
    MaxDocuments = 2
    MaxBytes = 3
    Requests <- MCRequests
    Batches <- MCBatches
SPECIFICATION Spec
INVARIANT InventoryIsClosure
INVARIANT ReadyIsUnambiguous
INVARIANT BuildIsExact
PROPERTY RefusedOnlyWhenFull
PROPERTY KeepsContract
