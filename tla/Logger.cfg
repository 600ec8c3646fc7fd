\* One core with two buffers of two transactions, a batch of one buffer and a lag
\* of two epochs.
CONSTANTS
  Cores = {0}
  NONE = NONE
  BufferSize = 2
  Buffers = 2
  MaxLag = 2
  MaxIovs = 1
  MaxTxns = 3
  MaxTick = 3
SPECIFICATION FairSpec
INVARIANTS
  LogIsInCommitOrder
  LoggerClaimsAreDurable
  CommitsAreLater
PROPERTIES
  QueuedIsNotClaimed
  BuffersMoveUntilLag
