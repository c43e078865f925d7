CONSTANTS
    SliceSize = 2
    Start = 2
    Middle = 6
    Final = 8
    MaxSlices = 2
    BatchSize = 2
    ParentHeader <- MCParent
    Trusted <- MCTrusted
    Answers <- ShortAnswers
    Honest <- MCHonest
    Peers = {p1}
SPECIFICATION Spec
CHECK_DEADLOCK FALSE
INVARIANT ReportedSaved
