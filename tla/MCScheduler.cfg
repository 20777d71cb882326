SPECIFICATION FairSpec
CONSTANTS
    reqA = reqA
    reqB = reqB
    reqC = reqC
    reqD = reqD
    reqE = reqE
    None = None
    Req <- MCReq
    Prompt <- MCPrompt
    AskedNew <- MCAskedNew
    MayAbort <- MCMayAbort
    Model <- MCModel
    PageSize = 2
    NumRows = 3
    ChunkSize = 3
    InputMargin = 1
    RetractSteps = 2
    Setups <- MCSetups
    Block = 3
INVARIANTS
    PagesAccounted
    LocksMatchHolders
    OutputsGreedy
    ReadsItsPrefix
    VerifyFits
    NeverDies
PROPERTY
    EveryRequestEnds
