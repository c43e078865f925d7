CONSTANTS
    SliceSize = 2
    Start = 2
    MaxBlock = 7
    MaxSlices = 3
    BatchSize = 2
    MaxRuns = 2
    ParentHeader <- MCParent
    Answers <- WholeAnswers
SPECIFICATION Spec
CHECK_DEADLOCK FALSE
INVARIANT SavedInDb
