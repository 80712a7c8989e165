SPECIFICATION Spec
CONSTANTS
  p1 = p1
  p2 = p2
  t1 = t1
  t2 = t2
  t3 = t3
  EventId = {i1, i2}
  Content = {c1, c2}
  Splitting = {c2}
  NoContent = NoContent
  NoThread = NoThread
  NoFact = NoFact
  Process <- MCProcess
  Thread <- AllThreads
  Owner <- MCOwner
  SoleWriter = TRUE
  MaxLines = 3
INVARIANT ConfirmedIsDurable
