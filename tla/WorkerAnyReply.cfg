SPECIFICATION Spec
CONSTANTS
  c1 = c1
  c2 = c2
  s1 = s1
  Unit = student
  Criterion <- MCCriterion
  Stray <- OneStray
  NoCriterion = NoCriterion
  MaxAttempts = 2
  Reply <- MCReply
  SecondReader = FALSE
  Obedient = FALSE
CHECK_DEADLOCK FALSE
INVARIANT OneOutcomeEach
