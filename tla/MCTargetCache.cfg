SPECIFICATION Spec
CONSTANTS
    WorldSize = 2
    NumSamples = 4
    Lengths = {0, 1, 3}
    Width <- MCWidth
    MaxShardBytes = 16
    QueueSize = 1
    MaxLaunches = 2
    MaxFailures = 1
INVARIANTS
    ManifestMeansReadable
    NothingLost
PROPERTIES
    JobEnds
