SPECIFICATION SpecMapped
CONSTANTS
  None = None
  Addresses = {1, 2, 3, 4}
  Keys = {1}
  RIPEMD_ADDRESS = 1
  PruneFrom = 2
  Senders = {2}
  Beneficiary = 3
  Precompiles = {1}
  ChildOf <- MCChildOf
  Worlds <- MCWorlds
  Reward = 1
  Targets = {1, 2, 3, 4}
  Operations = {"call", "create", "sstore", "sload", "log", "inspect", "selfdestruct"}
  Fees = {1}
  Values = {0, 1}
  Codes = {0, 1}
  SlotValues = {0, 1, 2}
  MaxBlock = 1
  MaxTxs = 1
  MaxOps = 3
  MaxDepth = 3
CHECK_DEADLOCK FALSE
INVARIANTS TypeOK SupplyConserved RefundNotNegative
PROPERTY ImplementsWorldState
