\* One core, idle between two transactions that fit in a buffer.
CONSTANTS
  Cores = {0}
  NONE = NONE
  BufferSize = 2
  Buffers = 2
  MaxLag = 4
  MaxIovs = 2
  MaxTxns = 2
  MaxTick = 3
SPECIFICATION Spec
INVARIANTS
  SyncEpochIsDurable
