\* One trading day, one maintenance request of any kind and one crash, both at
\* any moment of the day, and outages across phases.
SPECIFICATION Spec
CONSTANTS
  Signals = {s1, s2}
  Level = {s1}
  Legacy = {s2}
  MaxDay = 2
  MaxCrashes = 1
  CrashPhases = {"BEFORE", "PRE_OPEN", "OPEN", "CLOSING", "AFTER"}
  OutagePhases = {"BEFORE", "PRE_OPEN", "OPEN", "CLOSING", "AFTER"}
  AdminOps = {"clear_all", "clear_today", "reset"}
  MaxAdmin = 1
  InsertMayFail = FALSE
INVARIANTS DecidedOnce MarksAgree
