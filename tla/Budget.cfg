SPECIFICATION Spec
CONSTANTS
  pilot = pilot
  retry = retry
  test = test
  Nothing = Nothing
  Empty = Empty
  Proc <- MCProc
  Phase <- MCPhase
  NameOf <- MCNameOf
  Pilot = {"functional"}
  Regression = {"regression"}
  Required = {"functional"}
  Limit = 9
  Reserve = 2
  Maximum = 9
  PilotLeast = 8
  PilotReserve = 6
  PilotMaximum = 2
  PilotExtra = 2
  Lag = 1
  Alone = TRUE
  MaxCrashes = 1
  MaxTime = 11
INVARIANTS TypeOK OneDeadline InTime RecordedIsOver EvidenceKept
PROPERTY PhasesEnd
CHECK_DEADLOCK FALSE
