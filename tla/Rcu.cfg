\* Two cores, one shared pointer, two objects, RCU ticks of three clock ticks.
CONSTANTS
  Cores = {c1, c2}
  Slots = {s1}
  Objects = {o1, o2}
  NULL = NULL
  EpochTimeMultiplier = 3
  MaxDepth = 2
  MaxTick = 8
SPECIFICATION Spec
INVARIANTS
  TypeOK
  NoUseAfterFree
  ReclaimedOnce
  NothingIsOverdue
CHECK_DEADLOCK FALSE
