SPECIFICATION Spec
CONSTANTS
  jobA = jobA
  jobB = jobB
  jobC = jobC
  jobD = jobD
  addr1 = addr1
  addr2 = addr2
  addr3 = addr3
  addr4 = addr4
  NoJob = NoJob
  Job <- PairJob
  Addr <- PairAddr
  Arrival <- PairArrival
  Wall <- PairWall
  Limit <- PairLimit
  WallA = 6
  LimitA = 1
  ArrivalC = 6
  WallC = 3
  LimitC = 5
  Year = 50
  Rejected = {}
  CompDelay = 0
  LimitDelay = 0
  Grace = 1
  Quantum = 2
  Period = 3
  Lag = 1
  StartDelay = 1
  BackfillTime = 3
  MaxTime = 12
INVARIANT RunsItsWalltime
CHECK_DEADLOCK FALSE
