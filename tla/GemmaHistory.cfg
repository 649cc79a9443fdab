CONSTANTS
    Token <- MCToken
    Eos <- MCEos
    Decode <- MCDecode
    Prompts <- MCPrompts
    Budgets <- MCBudgets
    MaxT = 7
    Slack = 0
    FeedsLast = FALSE
    CanDrop = FALSE
    CanExit = FALSE
    MaxId = 3

SPECIFICATION Spec

INVARIANT HistoryIsState
