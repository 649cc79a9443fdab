CONSTANTS
    Token <- MCToken
    Eos <- MCEos
    Decode <- MCDecode
    Prompts <- MCFewPrompts
    Budgets <- MCFewBudgets
    MaxT = 7
    Slack = 1
    FeedsLast = FALSE
    CanDrop = TRUE
    CanExit = TRUE
    MaxId = 3

SPECIFICATION HungSpec

INVARIANTS
    ColdExact
    OneAnswerPending
    IdsInOrder
    ContextBound

PROPERTIES
    CallEnds
