\* Every evaluator on bars around its levels, the tapes of three indices,
\* the scores of candidates of every setup, zigzags of nineteen 15m bars.
SPECIFICATION Spec
CONSTANTS
  LongFlips = TRUE
  ScanTapes <- MCTapes
  ScanContexts <- MCContexts
  ScoreInputs <- MCInputs
  BarTapes <- MCBars
INVARIANTS
  ShadowNeverOpposes
  OneSideOpen
  StopsAndTargets
  MirrorImage
  AlignmentNeverCosts
  NoRepaint
