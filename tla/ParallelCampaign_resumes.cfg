SPECIFICATION Spec
CONSTANTS
  base1 = base1
  base2 = base2
  policy1 = policy1
  control1 = control1
  first = first
  second = second
  day1 = day1
  day2 = day2
  NoContext = NoContext
  Key <- MCKey
  Deps <- MCDeps
  Rank <- MCRank
  Date <- MCDate
  DateOf <- MCDateOf
  Bridge = {}
  Diagnostic = {}
  Backends <- TwoBackends
  Slots <- TwoSlots
  TaskContext <- NoTaskContext
  MaxAttempts = 3
  Fallible = {}
  CanFail = FALSE
  Prompt = TRUE
  Answers = FALSE
  Removes = FALSE
  MaxCrashes = 2
INVARIANTS SlotsKept ContainersKept
PROPERTY Resumes
