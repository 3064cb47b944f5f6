SPECIFICATION Spec
CONSTANTS
  n1 = n1
  n2 = n2
  None = None
  Job <- MCJob
  User <- MCUser
  UserOf <- MCUserOf
  Eligible <- MCEligible
  Category <- MCCategory
  Flexible <- MCFlexible
  Allowance <- MCAllowance
  Runtime <- MCRuntime
  Step = 1
  UserBudget = 3
  JobLimit = 2
  Allocation <- MCAllocation
  HalfHour = 2
  Tables <- MCTables
  Waits <- MCWaits
INVARIANTS UserBudgetKept RowsMatch PricedOnce
