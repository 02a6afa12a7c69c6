\* Two instruments, a session and the start of the next, three trades and two seeds.
SPECIFICATION Spec
CONSTANTS
  Symbols = {a, b}
  Horizon = 8
  DayLen = 5
  OREnd = 2
  Width <- WidthDef
  RingSpan = 4
  MaxCandles = 2
  TradeUnits = {0, 1, 4}
  MaxTrades = 3
  MaxSeeds = 2
SYMMETRY Interchangeable
CHECK_DEADLOCK FALSE
INVARIANTS InOrder CountedOnce DayStateIsToday DayOpenIsFirst
