SPECIFICATION Spec
CONSTANTS
  base1 = base1
  base2 = base2
  policy1 = policy1
  control1 = control1
  first = first
  second = second
  day1 = day1
  day2 = day2
  NoContext = NoContext
  Key <- PairKey
  Deps <- PairDeps
  Rank <- PairRank
  Date <- MCDate
  DateOf <- PairDateOf
  Bridge = {}
  Diagnostic = {}
  Backends <- TwoBackends
  Slots <- TwoSlots
  TaskContext <- NoTaskContext
  MaxAttempts = 2
  Fallible <- PairKey
  CanFail = TRUE
  Prompt = TRUE
  Answers = FALSE
  Removes = TRUE
  MaxCrashes = 1
INVARIANT OneContainer
