\* A coarse candle is two minutes long: the signal is registered in the first
\* minute of one, two more minutes are walked, and at most three trades follow
\* the entry, enough for a fill, a first target and either end of the runner.
SPECIFICATION Spec
CONSTANTS
  Plans <- SomePlans
  BlockLen = 2
  Expiry = 1
  MaxMinute = 3
  MaxTicks = 3
  MaxRestarts = 1
CHECK_DEADLOCK FALSE
INVARIANTS TargetAfterFill NoInventedTouch
PROPERTIES FollowsPlan StopHonoured ReplayAgrees
