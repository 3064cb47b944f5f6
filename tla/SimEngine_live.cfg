SPECIFICATION Spec
CONSTANTS
  jobA = jobA
  jobB = jobB
  jobC = jobC
  jobD = jobD
  addr1 = addr1
  addr2 = addr2
  addr3 = addr3
  addr4 = addr4
  NoJob = NoJob
  Job <- PairJob
  Addr <- PairAddr
  Arrival <- PairArrival
  Wall <- PairWall
  Limit <- PairLimit
  WallA = 1
  LimitA = 3
  ArrivalC = 1
  WallC = 50
  LimitC = 1
  Year = 50
  Rejected = {}
  CompDelay = 1
  LimitDelay = 0
  Grace = 0
  Quantum = 1
  Period = 2
  Lag = 0
  StartDelay = 1
  BackfillTime = 1
  MaxTime = 14
INVARIANT ExitComplete
PROPERTY Exits
