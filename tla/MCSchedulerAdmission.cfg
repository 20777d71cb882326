SPECIFICATION FairSpec
CONSTANTS
    reqA = reqA
    reqB = reqB
    reqC = reqC
    reqD = reqD
    reqE = reqE
    None = None
    Req <- MCReq
    Prompt <- MCLongPrompt
    AskedNew <- MCAskedNew
    MayAbort <- MCMayAbort
    Model <- MCModel
    PageSize = 8
    NumRows = 2
    ChunkSize = 2
    InputMargin = 5
    RetractSteps = 2
    Setups <- MCTightSetups
    Block = 2
PROPERTY
    EveryRequestEnds
