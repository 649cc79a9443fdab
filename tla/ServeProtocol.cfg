SPECIFICATION FairSpec
CONSTANTS
    Token <- MCToken
    Eos <- MCEos
    Decode <- MCDecode
    Inputs <- MCInputs
    Counts <- MCCounts
    MaxT = 5
    Slack = 1
    FeedsLast = FALSE
    MaxSent = 3
INVARIANT
    AnswersAreSerial
PROPERTY
    AllAnswered
CHECK_DEADLOCK FALSE
