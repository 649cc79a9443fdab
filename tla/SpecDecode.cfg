SPECIFICATION Spec
CONSTANTS
    Token <- MCToken
    Eos <- MCEos
    Decode <- MCDecode
    MaxT = 14
    SpecK = 2
    Speculates = TRUE
    Inputs <- MCInputs
    Counts <- MCCounts
INVARIANTS
    TypeOK
    GreedyEquivalent
    ContextIsConversation
    KvFits
