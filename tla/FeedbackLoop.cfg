SPECIFICATION LoopSpec
CONSTANTS
  Job <- MCJob
  Arrival <- MCArrival
  Replies <- MCReplies
  MaxJobs = 2
  Quantum = 2
  Grace = 1
  MaxTime = 5
  Far = 99
  User <- MCUser
  UserOf <- MCUserOf
  PoolOf <- MCPoolOf
  Flexible <- MCFlexible
  Reliable <- MCFlexible
  Runtime <- MCRuntime
  Fraction <- MCFraction
  Capacity = 3
  Intensity <- MCIntensity
  CarbonEnd = 16
  TickS = 2
  MaxDelay = 4
  UserBudget = 5
  MinSaving = 5
  RatioNum = 3
  RatioDen = 2
  Baseline = FALSE
  IdleWake = 9
  MaxFaults = 1
INVARIANTS NoFailsafe Agreement
PROPERTIES BridgeSafety EventuallySubmitted
