SPECIFICATION Spec
CONSTANTS
  base1 = base1
  policy1 = policy1
  control1 = control1
  again1 = again1
  base2 = base2
  Key <- MCKey
  Days = 2
  Plan <- MCPlan
  Policy = {policy1}
  Repeated <- MCRepeated
  MaxAttempts = 2
  Fallible <- MCKey
  Invalidated = {policy1}
  CanFail = TRUE
  Between = FALSE
  MaxSessions = 3
INVARIANTS ComparedSound DayHonest
PROPERTIES KeepsPromise SessionEnds
