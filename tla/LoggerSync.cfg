\* One core whose thread ends while the persister holds its lock.
CONSTANTS
  Cores = {0}
  NONE = NONE
  BufferSize = 2
  Buffers = 2
  MaxLag = 4
  MaxIovs = 2
  MaxTxns = 1
  MaxTick = 4
SPECIFICATION Spec
PROPERTIES
  SyncNeverDecreases
