\* Two transactions: optimistic policies, and any access action, wait and piece end.
CONSTANTS
  t1 = t1
  t2 = t2
  t3 = t3
  NONE = NONE
  V0 = V0
  NoWait = 0
  WaitCommit = 99
  Keys = {1, 2}
  Txns = {t1, t2}
  Programs <- TwoPrograms
  Policies <- LearnedPolicies
  UserAborts = {t1}
  Loader = t1
SPECIFICATION FairSpec
INVARIANTS
  Serializable
  CommittedReadsAreCommitted
  
  NothingLeftBehind
  DirtyReadsHaveSource
PROPERTIES
  EveryTransactionEnds
