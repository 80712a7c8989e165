SPECIFICATION Spec
CONSTANTS
  s1 = s1
  s2 = s2
  RunId = run
  UnitKey = "unit"
  Key <- MCKey
  Payload <- MCPayload
  Student <- TwoStudents
  MaxWorkers = 2
  Outcome <- OneOutcome
  MaxTotalAttempts = 1
  MaxEpoch = 2
CHECK_DEADLOCK FALSE
INVARIANT OnlyRealCollisions
