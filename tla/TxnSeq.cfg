\* Three transactions that read dirty; one of them writes its tuple twice.
CONSTANTS
  t1 = t1
  t2 = t2
  t3 = t3
  NONE = NONE
  V0 = V0
  NoWait = 0
  WaitCommit = 99
  Keys = {1, 2}
  Txns = {t1, t2, t3}
  Programs <- OverwritePrograms
  Policies <- DirtyPolicies
  UserAborts = {}
  Loader = NONE
SPECIFICATION Spec
INVARIANTS
  NoIntermediateRead
