SPECIFICATION Spec
CONSTANTS
  base1 = base1
  base2 = base2
  policy1 = policy1
  control1 = control1
  first = first
  second = second
  day1 = day1
  day2 = day2
  NoContext = NoContext
  Key <- ControlKey
  Deps <- ControlDeps
  Rank <- ControlRank
  Date <- MCDate
  DateOf <- ControlDateOf
  Bridge <- ControlBridge
  Diagnostic = {control1}
  Backends <- TwoBackends
  Slots <- TwoSlots
  TaskContext <- ControlContext
  MaxAttempts = 1
  Fallible = {base1}
  CanFail = TRUE
  Prompt = FALSE
  Answers = FALSE
  Removes = FALSE
  MaxCrashes = 1
INVARIANTS RunningIsActive FileConsistent CompleteMeansAll
PROPERTIES KeepsPromise SessionEnds
