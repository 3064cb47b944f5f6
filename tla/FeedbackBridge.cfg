SPECIFICATION Spec
CONSTANTS
  j1 = j1
  j2 = j2
  j3 = j3
  Job <- MCJob
  Arrival <- MCArrival
  Replies <- MCReplies
  MaxJobs = 2
  Quantum = 2
  Grace = 1
  MaxTime = 3
  Far = 99
INVARIANTS TypeOK SubmitOnce ExitComplete UnreportedWakes
PROPERTY FailsafeDrains
