------------------------------ MODULE Contracts ------------------------------
(***************************************************************************)
(* The calendar of the exchange and the contract the engine trades: the    *)
(* session clock, monthly and weekly expiries moved off holidays, the roll *)
(* of the future, and the contract a feed resolved when it was started.    *)
(* Code: src/src/session/session_manager.py, expiry_manager.py and         *)
(* holiday_manager.py, the symbols of the two broker feeds.                *)
(*                                                                         *)
(* A date is a day number and a month its place in the calendar, so the    *)
(* month after December is the next one.  A contract is its expiry date.   *)
(***************************************************************************)
EXTENDS Integers, Sequences, FiniteSetsExt

CONSTANTS
  MonthStart,     \* first days of the months, the first of all day 0
  ExpiryWeekday,  \* EXPIRY_WEEKDAY; Monday is 0
  RollHour,       \* EXPIRY_ROLL_HOUR
  PreopenStart, MarketOpen, LastSignal, MarketClose,  \* minutes of the day
  Marks,          \* bound: minutes at which the clock is looked at
  FirstDay, LastDay,  \* bound: days explored
  MayBeHoliday    \* bound: weekdays that may be holidays

Months == 1 .. Len(MonthStart) - 1

ASSUME CalendarAssumption ==
  /\ MonthStart \in Seq(Nat) /\ Len(MonthStart) >= 3 /\ MonthStart[1] = 0
  /\ \A m \in Months : MonthStart[m + 1] - MonthStart[m] \in 28 .. 31
  /\ ExpiryWeekday \in 0 .. 4
  /\ PreopenStart \in Nat /\ MarketOpen \in Nat /\ LastSignal \in Nat /\ MarketClose \in Nat
  /\ PreopenStart < MarketOpen /\ MarketOpen < LastSignal /\ LastSignal < MarketClose
  /\ RollHour \in 1 .. MarketOpen \div 60
  /\ Marks \subseteq 0 .. 1439 /\ Marks # {}
  /\ FirstDay \in 6 .. LastDay
  /\ LastDay \in Nat /\ LastDay < MonthStart[Len(MonthStart) - 1]

\* The exchange is never closed for the whole of the week up to an expiry,
\* whatever weekday the calendar begins on.
ASSUME WeeksAssumption ==
  \A first \in 0 .. 6 : \A n \in 6 .. MonthStart[Len(MonthStart)] :
    (first + n) % 7 = ExpiryWeekday =>
      \E d \in n - 6 .. n : (first + d) % 7 < 5 /\ d \notin MayBeHoliday

VARIABLES
  firstWeekday, \* the weekday of day 0
  holidays,     \* _holidays
  today, minute,\* the IST clock
  broker,       \* DATA_FEED
  held          \* the contract in _symbols, or NoContract

calendar == <<firstWeekday, holidays, broker>>
clock == <<today, minute>>
vars == <<calendar, clock, held>>

NoContract == -1

-----------------------------------------------------------------------------
(* HolidayManager and SessionManager. *)

Weekday(d) == (firstWeekday + d) % 7
IsTradingDay(d) == Weekday(d) < 5 /\ d \notin holidays

CurrentState(d, min) ==
  IF ~IsTradingDay(d) \/ min < PreopenStart \/ min >= MarketClose THEN "CLOSED"
  ELSE IF min < MarketOpen THEN "PRE_OPEN"
  ELSE IF min < LastSignal THEN "OPEN"
  ELSE "CLOSING"

-----------------------------------------------------------------------------
(* ExpiryManager. *)

\* _shift_off_holiday, the loop over preceding days.
ShiftOffHoliday(expiry) == Max({d \in 0 .. expiry : IsTradingDay(d)})

MonthOf(d) == CHOOSE m \in Months : MonthStart[m] <= d /\ d < MonthStart[m + 1]

LastWeekdayOfMonth(m) ==
  LET last == MonthStart[m + 1] - 1
  IN  ShiftOffHoliday(last - ((Weekday(last) - ExpiryWeekday) % 7))

\* Mutation: the contract rolls the day after its expiry only.
RolledNextDay(d, min, expiry) == d > expiry
\* get_contract_expiry_date: whether the contract of this month is over.
Rolled(d, min, expiry) == d > expiry \/ (d = expiry /\ min \div 60 >= RollHour)

ContractExpiry(d, min) ==
  LET thisMonth == LastWeekdayOfMonth(MonthOf(d))
  IN  IF Rolled(d, min, thisMonth) THEN LastWeekdayOfMonth(MonthOf(d) + 1) ELSE thisMonth

SignalsAllowed(d, min) == CurrentState(d, min) = "OPEN"
DaysToExpiry(d, min) == ContractExpiry(d, min) - d

IsContractExpiryDay(d) == LastWeekdayOfMonth(MonthOf(d)) = d

\* Mutation: the week rolls before its expiry, not after it.
WeeklyExpiryFromTomorrow(d, min) ==
  ShiftOffHoliday(d + 1 + ((ExpiryWeekday - Weekday(d + 1)) % 7))
WeeklyExpiry(d, min) ==
  LET ahead == (ExpiryWeekday - Weekday(d)) % 7
  IN  ShiftOffHoliday(d + IF ahead = 0 /\ min \div 60 >= RollHour THEN 7 ELSE ahead)

IsWeeklyExpiryDay(d) == WeeklyExpiry(d, 0) = d

-----------------------------------------------------------------------------
(* The contract of a feed: Fyers takes the active one, Angel the nearest    *)
(* that its broker lists and that does not expire before today.             *)

Listed == {LastWeekdayOfMonth(m) : m \in Months}
\* Mutation: the contract of the next month is taken before the roll.
ResolvedNextMonth == LastWeekdayOfMonth(MonthOf(today) + 1)
Resolved ==
  IF broker = "fyers" THEN ContractExpiry(today, minute)
  ELSE Min({e \in Listed : e >= today})

Init ==
  /\ firstWeekday \in 0 .. 6
  /\ holidays \in SUBSET MayBeHoliday
  /\ broker \in {"fyers", "angel"}
  /\ today = FirstDay /\ minute = Min(Marks)
  /\ held = NoContract

\* The clock moves on to the next mark.
Elapse ==
  /\ IF minute = Max(Marks)
       THEN today < LastDay /\ today' = today + 1 /\ minute' = Min(Marks)
       ELSE today' = today /\ minute' = Min({x \in Marks : x > minute})
  /\ UNCHANGED <<calendar, held>>

\* start(), at boot, after a token or by the watchdog: the symbols of the run.
\* refresh_daily() seeds these and resolves none.
StartFeed == held' = Resolved /\ UNCHANGED <<calendar, clock>>

Next == Elapse \/ StartFeed
Spec == Init /\ [][Next]_vars

-----------------------------------------------------------------------------
(* Properties. *)

\* The exchange's own rule: an expiry is the last trading day up to a nominal
\* one, each Tuesday of the week and the last one of the month.
ExpiresFor(d, nominal) ==
  /\ Weekday(nominal) = ExpiryWeekday
  /\ d <= nominal /\ IsTradingDay(d)
  /\ \A x \in d + 1 .. nominal : ~IsTradingDay(x)
IsWeeklyExpiry(d) == \E nominal \in d .. d + 20 : ExpiresFor(d, nominal)
IsMonthlyExpiry(d) ==
  \E m \in Months : \E nominal \in MonthStart[m + 1] - 7 .. MonthStart[m + 1] - 1 :
    ExpiresFor(d, nominal)
Over(e) == today > e \/ (today = e /\ minute \div 60 >= RollHour)
IsNext(e, IsExpiry(_)) ==
  /\ IsExpiry(e) /\ ~Over(e)
  /\ \A d \in today .. e - 1 : IsExpiry(d) => Over(d)

\* The active contract is the one that expires next of those not yet rolled,
\* at every hour of every day, whatever holidays move the expiries; and as the
\* roll comes before the open, no signal names a contract that ends that day.
ContractIsNearest ==
  /\ IsNext(ContractExpiry(today, minute), IsMonthlyExpiry)
  /\ SignalsAllowed(today, minute) => DaysToExpiry(today, minute) > 0

\* The expiry-day flags, which raise the confidence floor and arm the gamma
\* setup, are up on exactly the exchange's expiry days.  And on a trading day the
\* weekly expiry is the next one not yet over, except once the one that a holiday
\* moved to this day is.
MovedAndOver == IsWeeklyExpiry(today) /\ Weekday(today) # ExpiryWeekday /\ Over(today)
ExpiryFlagsRight ==
  /\ IsContractExpiryDay(today) <=> IsMonthlyExpiry(today)
  /\ IsWeeklyExpiryDay(today) <=> IsWeeklyExpiry(today)
  /\ IsTradingDay(today) /\ ~MovedAndOver => IsNext(WeeklyExpiry(today, minute), IsWeeklyExpiry)

\* A signal carries the expiry of the active contract, and its symbol is the one
\* the feed resolved when it was started.  The two are the same contract
\* exactly as long as the one held has not rolled: a feed never runs ahead, and
\* nothing but a start brings it back.
HeldIsActive ==
  held # NoContract => (held = ContractExpiry(today, minute) <=> ~Over(held))
=============================================================================
