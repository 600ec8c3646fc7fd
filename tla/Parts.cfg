\* Small generators with the form of the real ones; distributions of up to four
\* members, with right and wrong counts; the grammar of dists.dss; suppliers, parts and customers of scale 0.024.
CONSTANTS
  Multiplier = 5
  Modulus = 23
  RNG_A = 5
  RNG_C = 1
  Width = 16
  MaxSkip = 20
  Files <- DistFiles
  Wanted = "colors"
  P_NAME_SCL = 2
  MaxNames = 2
  grammar <- Grammar
  np <- NP
  vp <- VP
  WordLengths = {3, 14}
  TermLengths = {1, 2}
  TEXT_POOL_SIZE = 60
  PoolComments <- PoolLengths
  tot_scnt = 240
  PartCount = 4800
  O_CKEY_MAX = 3600
  Customers = {1, 2, 3, 3599, 3600}
  OrderDays <- ProbeDays
  Lines = {1, 3}
  ShipDays = {1, 121}
  CommitDays = {30, 90}
  ReceiptDays = {1, 30}
  AddressLengths = {10, 11, 25, 39, 40}
  CommentLengths = {25, 26, 100}
  Commands <- AskAll
  permutation <- Streams0and1
  MaxRuns = 2
  QueryMultiplier = 11
  QueryModulus = 1009
SPECIFICATION PartsSpec
INVARIANTS
  PicksAreWeighted
  NamesDependOnDraws
  PoolIsFilled
  NothingOutOfBounds
  OrderIsConsistent
  FourSuppliers
  ParametersFromSeed
  ParametersAreValid
PROPERTIES
  AdvanceIsIteration
  DaysFollow
CHECK_DEADLOCK FALSE
