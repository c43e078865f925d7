SPECIFICATION FairSpec
CONSTANTS
  NumStages = 4
  Batching <- MCBatching
  Resetting <- MCResetting
  Requesters <- MCRequesters
  Blocks = {a, b}
  NoBlock = NoBlock
  TopBlock = 4
  MinCommit = 2
  MaxBlock = 4
  ExitAfterSync = FALSE
INVARIANTS
  TypeOK
  CommittedConsistent
  CommittedOrdered
  ReturnsAtMaxBlock
PROPERTIES
  NeverReplaced
  UnwindKept
  UnwindCompletes
