CONSTANTS
    SliceSize = 2
    Start = 2
    MaxBlock = 7
    MaxSlices = 3
    BatchSize = 2
    MaxRuns = 3
    ParentHeader <- MCParent
    Answers <- BrokenAnswers
SPECIFICATION Spec
CHECK_DEADLOCK FALSE
INVARIANTS TypeOK WindowsExact CanonicalConnected ForkConnected
PROPERTY HeaviestKept
