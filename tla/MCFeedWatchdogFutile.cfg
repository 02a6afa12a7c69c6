\* No callback: a feed that every restart leaves mute.
SPECIFICATION Spec
CONSTANTS
  Taps = {}
  Sockets = {w1}
  StallAfter = 1
  RestartCooldown = 2
  SuicideAfter = 3
  StartMayFail = FALSE
  MaxTaps = 0
INVARIANT FutileRestartsEnd
