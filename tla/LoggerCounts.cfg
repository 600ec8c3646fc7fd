\* One core whose last buffer is pushed when its thread ends.
CONSTANTS
  Cores = {0}
  NONE = NONE
  BufferSize = 2
  Buffers = 2
  MaxLag = 4
  MaxIovs = 2
  MaxTxns = 2
  MaxTick = 4
SPECIFICATION Spec
INVARIANTS
  FinalCountsAgree
