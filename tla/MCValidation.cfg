SPECIFICATION Spec
CONSTANTS
    MaxNesting = 4
    Rooted = {}
    CacheWords = {}
    TokenWords = {}
    Bearers = {}
    Trimmed = {}
    Parameters = {}
    KeyParts = {}
    Underscored <- MCUnderscored
    Spelling <- MCSpelling
    Paths <- MCPaths
    Order <- MCOrder
    Fold <- MCFold
    UnsafeNames <- MCUnsafe
    RecognizedNames <- MCRecognized
    MaxEntries = 4
    MaxDocuments = 3
    MaxBytes = 5
    Repositories <- MCRepositories
    Spelled <- MCSpelled
    Dotted <- MCDotted
    Escaping <- MCEscaping
    Tildes <- MCTildes
    Wide <- MCWide
    MaxPath = 3
    MaxPointer = 3
INVARIANT BrokenReferencesAreReportedOnce
INVARIANT NormalizationIsExplained
INVARIANT ComponentReadingsAgree
INVARIANT InvalidValuesAreReported
INVARIANT UnreadableIsReported
INVARIANT SelectionIsNeverSilent
INVARIANT ExecutablesAreReportedOnce
