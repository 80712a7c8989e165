SPECIFICATION Spec
CONSTANTS
  Width = 1
  PdfTextFloor = 3
  Patterns <- MCPatterns
  MaxQuote = 2
  MaxContext = 2
  Sources <- MCSources
  Judged <- MCJudged
CHECK_DEADLOCK FALSE
INVARIANTS
  NothingIsLost
  RenditionIsSettled
  CaughtInItsParagraph
  AcceptedWhereItHolds
