\* The two evaluators that take the level nearest the price, on either side.
SPECIFICATION Spec
CONSTANTS
  LongFlips = TRUE
  ScanTapes = {}
  ScanContexts <- LevelContexts
  ScoreInputs <- NoInputs
  BarTapes = {}
INVARIANTS
  StopBelowEntry
