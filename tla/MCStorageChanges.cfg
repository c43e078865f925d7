SPECIFICATION SpecMapped
CONSTANTS
  None = None
  Addresses = {1, 2, 3, 4}
  Keys = {1}
  RIPEMD_ADDRESS = 1
  PruneFrom = 1
  Senders = {2}
  Beneficiary = 3
  Precompiles = {1}
  ChildOf <- MCChildOf
  Worlds <- MCWorlds
  Reward = 1
  Targets = {3, 4}
  Operations = {"create", "sstore", "inspect", "selfdestruct"}
  Fees = {1}
  Values = {0}
  Codes = {0, 1}
  SlotValues = {2}
  MaxBlock = 2
  MaxTxs = 2
  MaxOps = 3
  MaxDepth = 2
CHECK_DEADLOCK FALSE
INVARIANT StorageChangesExact
