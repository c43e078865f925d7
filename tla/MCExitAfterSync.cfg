SPECIFICATION LiveSpec
CONSTANTS
  NumStages = 4
  Batching <- MCBatching
  Resetting <- MCResetting
  Requesters <- MCRequesters
  Blocks = {a}
  NoBlock = NoBlock
  TopBlock = 3
  MinCommit = 2
  MaxBlock <- NoNumber
  ExitAfterSync = TRUE
PROPERTIES
  ExitsAfterSync
