SPECIFICATION Spec
CONSTANTS
    NumBatches = 5
    Blocks = {1, 2, 3, 4}
    MaxAhead = 3
    MaxErrors = 1
INVARIANTS
    NextIsNew
