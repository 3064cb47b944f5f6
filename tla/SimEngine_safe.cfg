SPECIFICATION Spec
CONSTANTS
  jobA = jobA
  jobB = jobB
  jobC = jobC
  jobD = jobD
  addr1 = addr1
  addr2 = addr2
  addr3 = addr3
  addr4 = addr4
  NoJob = NoJob
  Job <- MCJob
  Addr <- MCAddr
  Arrival <- MCArrival
  Wall <- MCWall
  Limit <- MCLimit
  WallA = 2
  LimitA = 5
  ArrivalC = 3
  WallC = 1
  LimitC = 3
  Year = 50
  Rejected = {jobD}
  CompDelay = 1
  LimitDelay = 1
  Grace = 1
  Quantum = 2
  Period = 3
  Lag = 1
  StartDelay = 2
  BackfillTime = 8
  MaxTime = 8
SYMMETRY Symmetry
INVARIANTS Ordered NoDangling Accounted RunsItsWalltime NoFalseTimeout
CHECK_DEADLOCK FALSE
