\* Two cores, nested guards, four ticks.
CONSTANTS
  NCores = 2
  MaxDepth = 2
  MaxTick = 4
  FREE = FREE
  DAEMON = DAEMON
SPECIFICATION FairSpec
INVARIANTS
  TypeOK
  OpenGuardsAreRecent
  NestedGuardsAgree
  CoresWithinOneTick
  PublishedIsBehindEveryCore
PROPERTIES
  ImplementsClock
  EveryTickIsPublished
CHECK_DEADLOCK FALSE
