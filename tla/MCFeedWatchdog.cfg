\* One token callback, any number of sessions, crashes and watchdog restarts.
\* A slice of time is the stall limit and the restart cooldown.
SPECIFICATION FairSpec
CONSTANTS
  Taps = {t1}
  Sockets = {w1, w2, w3}
  StallAfter = 1
  RestartCooldown = 1
  SuicideAfter = 1
  StartMayFail = TRUE
  MaxTaps = 1
INVARIANTS TypeOK ActiveFeedIsWhole LineWatched
PROPERTY SilenceNoticed
