SPECIFICATION Spec
CONSTANTS
    NumLines = 4
    NumServers = 2
    Concurrency = 2
    NumSamples = 3
    MaxLaunches = 3
    MaxKills = 1
INVARIANTS
    AllProcessed
