SPECIFICATION Spec
CONSTANTS
  c1 = c1
  c2 = c2
  c3 = c3
  Unit = student
  Criterion <- MCCriterion
  Stray <- NoStray
  NoCriterion = NoCriterion
  MaxAttempts = 2
  Reply <- MCReply
  SecondReader = TRUE
  Obedient = TRUE
CHECK_DEADLOCK FALSE
INVARIANTS
  TypeOK
  OneOutcomeEach
  HandsOverABatch
  OnlyRejectedGoesRound
  CapIsEarned
  ShownIsValidated
  OneClaimEach
  TilesExceedByUndrafted
  OrderDoesNotMatter
PROPERTIES
  ShownStaysShown
