CONSTANTS
    Keys <- MCKeys
    Texts = {"/path", "token"}
    Numerals <- MCNumerals
    Digits <- MCDigits
    RawBytes <- MCRawBytes
    EscapedBytes <- MCEscapedBytes
    SensitiveKeys = {"k/"}
    SensitiveMessages = {"/path"}
    SensitivePointers = {"token"}
    MaxPointerBytes = 6
    MaxLocations = 2
    MaxLocationBytes = 8
    MaxTokens = 8
SPECIFICATION Spec
INVARIANT TruncatedIffMissing
INVARIANT PointersAreDuplicates
INVARIANT PointerKeptIffShort
INVARIANT SensitiveExact
