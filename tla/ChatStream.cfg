SPECIFICATION FairSpec
CONSTANTS
    Narrow <- MCNarrow
    Wide <- MCWide
    Replacement = "?"
    Token <- MCToken
    Bytes <- MCBytes
    Stops <- MCStops
    MaxTokens = 3
INVARIANTS
    TypeOK
    StreamedIsBlocking
    StopNeverShown
    NothingInvented
    TranscriptIsStreamed
PROPERTIES
    AnswerEnds
CHECK_DEADLOCK FALSE
