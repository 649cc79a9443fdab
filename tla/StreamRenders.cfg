SPECIFICATION Spec
CONSTANTS
    Narrow <- MCNarrow
    Wide <- MCWide
    Replacement = "?"
    Token <- MCToken
    Bytes <- MCBytes
    Stops <- MCStops
    MaxTokens = 3
INVARIANT RendersCorrectly
CHECK_DEADLOCK FALSE
