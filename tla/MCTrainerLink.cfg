SPECIFICATION Spec
CONSTANTS
    WorldSize = 2
    GradAccSteps = 1
    MaxTrainSteps = 2
    CheckpointingSteps = 1
    StepsPerEpoch = 2
    MaxCrashes = 1
    MaxSuspends = 0
INVARIANTS
    AutoResumes
