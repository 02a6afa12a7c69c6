\* Two signals (a two-target LEVEL one, a legacy MARKET one), two days, one
\* crash anywhere but in the hour after the close, no maintenance requests.
SPECIFICATION FairSpec
CONSTANTS
  Signals = {s1, s2}
  Level = {s1}
  Legacy = {s2}
  MaxDay = 2
  MaxCrashes = 1
  CrashPhases = {"BEFORE", "PRE_OPEN", "OPEN", "CLOSING"}
  OutagePhases = {}
  AdminOps = {}
  MaxAdmin = 0
  InsertMayFail = TRUE
INVARIANTS TypeOK NoLostSignal SummaryIsComplete ResolvedInItsSession
PROPERTIES LedgerSpec EventuallyDecided EventuallySummarised
