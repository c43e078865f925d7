CONSTANTS
    SliceSize = 2
    Start = 2
    Middle = 6
    Final = 10
    MaxSlices = 2
    BatchSize = 2
    ParentHeader <- MCParent
    Trusted <- MCTrusted
    Answers <- MCAnswers
    Honest <- MCHonest
    Peers = {p1}
SPECIFICATION LiveSpec
CHECK_DEADLOCK FALSE
INVARIANTS TypeOK CountersExact WindowOK EndsWhenDone
PROPERTIES GrowsOneChain Completes
