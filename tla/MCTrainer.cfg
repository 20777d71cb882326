SPECIFICATION Spec
CONSTANTS
    WorldSize = 2
    GradAccSteps = 2
    MaxTrainSteps = 5
    CheckpointingSteps = 2
    StepsPerEpoch = 3
    MaxCrashes = 2
    MaxSuspends = 1
INVARIANTS
    CollectivesMatch
    ConsistentCheckpoint
    LossBounded
PROPERTIES
    TrainingCompletes
