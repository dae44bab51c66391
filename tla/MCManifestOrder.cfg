SPECIFICATION Spec
CONSTANTS
    MaxNesting = 4
    Rooted <- MCRooted
    CacheWords = {}
    TokenWords <- MCTokens
    Bearers = {}
    Trimmed <- MCTrimmed
    Parameters <- MCParameters
    KeyParts <- MCKeyParts
    Underscored <- MCUnderscored
    Spelling <- MCSpelling
    Paths <- MCPaths
    Order <- MCOrder
    Fold <- MCFold
    UnsafeNames <- MCUnsafe
    RecognizedNames <- MCRecognized
    MaxEntries = 4
    MaxDocuments = 3
    MaxBytes = 5
    Members <- MCMembers
    OtherDocuments <- MCOther
    Reports <- MCReports
    Sizes <- MCSizes
    LongTexts <- MCLong
    MaxSource = 4
    MaxFindings = 2
    Unknowns <- MCUnknowns
    Renames <- MCRenames
    MaxParts = 4
INVARIANT InvalidMeansImpossible
