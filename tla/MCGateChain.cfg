\* A unit of time is a quarter of an hour.  The cooldown is longer than the
\* conflict window so that each can be the binding one with one emission per
\* direction.
SPECIFICATION Spec
CONSTANTS
  Setups = {orb, lsr}
  Bases = {sbin, axisbank}
  Directions = {long, short}
  Group <- OneGroup
  Cooldown = 4
  ConflictWindow = 3
  MaxPerDirection = 1
  MaxPerDay = 2
  MaxPerScan = 2
  MaxPerGroup = 1
  MaxPerSetup = 1
  MaxNow = 5
  MaxDay = 2
  MaxScans = 2
  MaxCrashes = 1
  MaxFound = 2
  MaxMarket = 0
  InsertMayFail = TRUE
  MaxResets = 1
SYMMETRY Symmetry
INVARIANTS TypeOK DailyCaps NoWhipsaw CooldownKept ScanCaps LoggedOnce NoneSkipped
