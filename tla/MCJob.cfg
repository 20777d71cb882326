SPECIFICATION JobSpec
CONSTANTS
    Configs <- MCConfigs
    MaxRestarts = 2
    Total = 6
    NoFile = NoFile
    Proc = {p1, p2}
    NumFiles = 2
    MaxVersion = 2
    Lines <- MCLines
    None = None
    Torn = Torn
SYMMETRY Processes
INVARIANTS
    EpochOnce
    StepIsGlobalBatch
    SameStream
    SameTrajectory
    ReadsItsLines
    FlushIsGlobal
    EvalRowsExact
