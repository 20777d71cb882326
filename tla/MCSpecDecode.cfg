SPECIFICATION LoopSpec
CONSTANTS
    Token <- MCToken
    StopTokens <- MCStopTokens
    Prompts <- MCPrompts
    MaxPromptLen = 2
    MaxNewTokens = 4
    MaxProposalTokens = 2
    NumLatentTokens = 4
    HasConfidenceHead = TRUE
    Rows <- MCRows
    TargetProbs <- MCTargetProbs
    Proposals <- MCProposals
    Unwritten = Unwritten
INVARIANTS
    Lossless
    CacheHoldsCommitted
    CommitFitsBuffer
    MetricsAccountForProgress
    BlockSeesCommitted
    BlockShapesMatch
    EagleCacheAsTrained
    EagleProposalUndoable
PROPERTIES
    ImplementsAutoregressive
    SampleEnds
