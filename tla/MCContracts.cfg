\* The fortnight around an expiry, every weekday for the first of the month and
\* any holidays on the Fridays to Tuesdays an expiry can fall on.
SPECIFICATION Spec
CONSTANTS
  MonthStart <- MonthStartDef
  ExpiryWeekday = 1
  RollHour = 9
  PreopenStart = 540
  MarketOpen = 555
  LastSignal = 900
  MarketClose = 930
  Marks = {539, 540, 555, 900, 930}
  FirstDay = 22
  LastDay = 33
  MayBeHoliday = {23, 24, 27, 28, 29, 30}
CHECK_DEADLOCK FALSE
INVARIANTS ContractIsNearest ExpiryFlagsRight HeldIsActive
