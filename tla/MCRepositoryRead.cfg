CONSTANTS
    Paths <- MCPaths
    Order <- MCOrder
    Kind <- MCKind
    Fold <- MCFold
    UnsafeNames = {"aux"}
    RecognizedNames = {"c"}
    ExcludedNames = {".git"}
    NonUtf8Names = {"?"}
    Malformed <- MCMalformed
    Sizes = {1, 2, 3}
    Starts <- MCStarts
    Volatile <- MCVolatile
    MaxEntries = 5
    MaxDocuments = 2
    MaxBytes = 3
    MaxDocumentBytes = 2
    MaxChanges = 2
SPECIFICATION FairSpec
INVARIANT RetainedIsBounded
INVARIANT ReadIsFaithful
INVARIANT QuietReadIsExact
PROPERTY Terminates
PROPERTY KeepsContract
