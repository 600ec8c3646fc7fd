\* Five parts, two suppliers, three customers with three orders each; two refresh
\* sets of three orders.
CONSTANTS
  Plans <- AllPlans
  LineCounts = {1, 7}
  AddressDraws = {3, 9}
  PartBase = 5
  SuppBase = 2
  CustBase = 3
  OrdersPerCust = 3
  NationCount = 2
  RegionCount = 1
  Milli = 1000
  Unit = 9
  UPD_PCT = 3
  UpdProcs = 3
  Wide = 30000
  MaxCrashes = 1
SPECIFICATION FairSpec
INVARIANTS
  TypeOK
  RowsMatchSequential
  EveryRowOnce
  RefreshSetsApply
  SegmentsPair
PROPERTIES
  EveryRunEnds
CHECK_DEADLOCK FALSE
