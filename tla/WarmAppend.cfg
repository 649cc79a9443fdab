CONSTANTS
    Token <- MCToken
    Eos <- MCEos
    Decode <- MCDecode
    Prompts <- MCPrompts
    Budgets <- MCBudgets
    MaxT = 6
    Slack = 0
    FeedsLast = TRUE
    CanDrop = FALSE
    CanExit = TRUE
    MaxId = 3

SPECIFICATION FairSpec

INVARIANTS
    TypeOK
    HistoryIsState
    Conversation

PROPERTIES
    IsStateless
    CallEnds
