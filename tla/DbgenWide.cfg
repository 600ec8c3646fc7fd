\* Orders in one piece and in two, at a scale from which on customers are drawn from
\* the 64-bit generator.
CONSTANTS
  Plans <- OrderPlans
  LineCounts = {1}
  AddressDraws = {3, 9}
  PartBase = 5
  SuppBase = 2
  CustBase = 3
  OrdersPerCust = 3
  NationCount = 2
  RegionCount = 1
  Milli = 1000
  Unit = 9
  UPD_PCT = 3
  UpdProcs = 3
  Wide = 1
  MaxCrashes = 1
SPECIFICATION Spec
INVARIANTS
  CustomersMatchSequential
CHECK_DEADLOCK FALSE
