SPECIFICATION Spec
CONSTANTS
  Job <- MCJob
  User <- MCUser
  Arrival <- MCArrival
  UserOf <- MCUserOf
  PoolOf <- MCPoolOf
  Flexible <- MCFlexible
  Reliable <- MCReliable
  Runtime <- MCRuntime
  Fraction <- MCFraction
  Capacity = 3
  Intensity <- MCIntensity
  CarbonEnd = 16
  TickS = 2
  MaxDelay = 6
  UserBudget = 6
  MinSaving = 5
  RatioNum = 3
  RatioDen = 2
  Baseline = FALSE
  IdleWake = 9
  MaxStep = 3
  MaxNow = 7
INVARIANTS OneFate BudgetKept HoldsInTime
CHECK_DEADLOCK FALSE
