SPECIFICATION LoginSpec
CONSTANTS
  w1 = w1
  w2 = w2
  Writers <- MCWriters
  NoWriter = NoWriter
  Accounts = {1}
  Sources = {1, 2}
  FailureWindow = 3
  BlockDuration = 3
  AccountFailureLimit = 2
  SourceFailureLimit = 3
  MaxTrackedKeys = 2
  MaxLag = 1
  MaxInstant = 4
  MaxEvents = 3
SYMMETRY MCSymmetry
INVARIANTS ChainVerifies GuessingIsSlow
CHECK_DEADLOCK FALSE
