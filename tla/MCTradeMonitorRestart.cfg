\* One restart after the fill of a resting entry.
SPECIFICATION Spec
CONSTANTS
  Plans <- LevelEntry
  BlockLen = 3
  Expiry = 2
  MaxMinute = 3
  MaxTicks = 3
  MaxRestarts = 1
CHECK_DEADLOCK FALSE
INVARIANT NoTargetAfterStop
