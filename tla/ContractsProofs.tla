--------------------------- MODULE ContractsProofs ---------------------------
(***************************************************************************)
(* Proofs about module Contracts, for any calendar of months of 28 to 31   *)
(* days, any set of holidays that leaves a trading day in the week up to   *)
(* every expiry, and any days and minutes at which the clock is looked at. *)
(*                                                                         *)
(* The contracts are the expiries of the months: each lies in its month    *)
(* (ExpiryInMonth), so their order is that of the months (ExpiriesAscend)  *)
(* and the active one is the least not over (ActiveIsNext).  What a feed   *)
(* holds never runs ahead of that one, now and at any later minute.        *)
(***************************************************************************)
EXTENDS Contracts, WellFoundedInduction, TLAPS

(***************************************************************************)
(* Least and greatest days.                                                *)
(***************************************************************************)
LEMMA LeastNatural ==
  ASSUME NEW T, T \subseteq Nat, T # {}
  PROVE  \E x \in T : \A y \in T : x <= y
<1> DEFINE R == OpToRel(<, Nat)
<1>1. IsWellFoundedOn(R, Nat)
  BY NatLessThanWellFounded
<1>2. \A x, y \in T : y < x => <<y, x>> \in R
  BY DEF OpToRel
<1> HIDE DEF R
<1>3. PICK x \in T : \A y \in T : ~(<<y, x>> \in R)
  BY <1>1, WFMin
<1>4. \A y \in T : ~(y < x)
  BY <1>2, <1>3, Zenon
<1> QED
  BY <1>4

LEMMA MinIs ==
  ASSUME NEW T, T \subseteq Nat, T # {}
  PROVE  Min(T) \in T /\ \A x \in T : Min(T) <= x
BY LeastNatural DEF Min

LEMMA MaxIs ==
  ASSUME NEW b \in Nat, NEW T, T \subseteq Nat, T # {}, \A x \in T : x <= b
  PROVE  Max(T) \in T /\ \A x \in T : x <= Max(T)
<1> DEFINE U == {b - x : x \in T}
<1>1. U \subseteq Nat /\ U # {}
  <2>1. PICK x \in T : TRUE
    OBVIOUS
  <2>2. b - x \in U
    BY <2>1
  <2>3. \A y \in T : b - y \in Nat
    OBVIOUS
  <2> QED
    BY <2>2, <2>3
<1>2. PICK u \in U : \A v \in U : u <= v
  <2> HIDE DEF U
  <2> QED
    BY <1>1, LeastNatural
<1>3. PICK x \in T : u = b - x
  OBVIOUS
<1>4. \A y \in T : y <= x
  <2> TAKE y \in T
  <2>1. u <= b - y
    BY <1>2
  <2> QED
    BY <1>3, <2>1
<1> QED
  BY <1>4 DEF Max

(***************************************************************************)
(* Months.                                                                 *)
(***************************************************************************)
LEMMA MonthTypes ==
  /\ Len(MonthStart) \in Nat /\ Len(MonthStart) >= 3
  /\ \A m \in 1 .. Len(MonthStart) : MonthStart[m] \in Nat
  /\ \A m \in Months : /\ m \in Nat /\ m \in 1 .. Len(MonthStart) /\ m + 1 \in 1 .. Len(MonthStart)
                       /\ MonthStart[m] \in Nat /\ MonthStart[m + 1] \in Nat
                       /\ MonthStart[m + 1] >= MonthStart[m] + 28
<1>1. Len(MonthStart) \in Nat /\ \A m \in 1 .. Len(MonthStart) : MonthStart[m] \in Nat
  BY CalendarAssumption
<1>2. \A m \in Months : /\ m \in Nat /\ m \in 1 .. Len(MonthStart) /\ m + 1 \in 1 .. Len(MonthStart)
                        /\ MonthStart[m + 1] - MonthStart[m] \in 28 .. 31
  BY <1>1, CalendarAssumption DEF Months
<1>3. ASSUME NEW m \in Months
      PROVE  /\ MonthStart[m] \in Nat /\ MonthStart[m + 1] \in Nat
             /\ MonthStart[m + 1] >= MonthStart[m] + 28
  <2>1. MonthStart[m] \in Nat /\ MonthStart[m + 1] \in Nat
    BY <1>1, <1>2
  <2> QED
    BY <1>2, <2>1
<1> QED
  BY <1>1, <1>2, <1>3, CalendarAssumption

\* A month ends before a later one begins.
LEMMA MonthsAscend ==
  ASSUME NEW m \in Months, NEW n \in 1 .. Len(MonthStart), m < n
  PROVE  MonthStart[m + 1] <= MonthStart[n]
<1> DEFINE U == {k \in m + 1 .. Len(MonthStart) : MonthStart[k] < MonthStart[m + 1]}
<1>a. m + 1 \in 1 .. Len(MonthStart) /\ MonthStart[m + 1] \in Nat /\ n \in m + 1 .. Len(MonthStart)
  BY MonthTypes
<1> SUFFICES ASSUME U # {} PROVE FALSE
  <2>1. MonthStart[n] \in Nat
    BY MonthTypes
  <2> QED
    BY <1>a, <2>1
<1>1. U \subseteq Nat
  BY MonthTypes
<1>2. PICK k \in U : \A x \in U : k <= x
  <2> HIDE DEF U
  <2> QED
    BY <1>1, LeastNatural
<1>3. k # m + 1
  BY MonthTypes
<1>4. k - 1 \in m + 1 .. Len(MonthStart) /\ k - 1 \in Months
  BY <1>3, MonthTypes DEF Months
<1>5. MonthStart[k - 1] >= MonthStart[m + 1]
  <2>1. MonthStart[k - 1] \in Nat /\ ~(k <= k - 1)
    BY <1>4, MonthTypes
  <2> QED
    BY <1>a, <1>2, <1>4, <2>1
<1>6. /\ MonthStart[k - 1] \in Nat /\ MonthStart[k] \in Nat
      /\ MonthStart[k] >= MonthStart[k - 1] + 28
  <2>1. (k - 1) + 1 = k
    BY <1>1
  <2> QED
    BY <1>4, <2>1, MonthTypes
<1>7. MonthStart[k] < MonthStart[m + 1]
  BY <1>2
<1> QED
  BY <1>a, <1>5, <1>6, <1>7

\* A day before the last month is in one month, and there is one after it.
LEMMA MonthOfIs ==
  ASSUME NEW d \in Nat, d < MonthStart[Len(MonthStart) - 1]
  PROVE  /\ MonthOf(d) \in Months /\ MonthOf(d) + 1 \in Months
         /\ MonthStart[MonthOf(d)] <= d /\ d < MonthStart[MonthOf(d) + 1]
<1> DEFINE U == {m \in 1 .. Len(MonthStart) : d < MonthStart[m]}
<1>1. U \subseteq Nat /\ Len(MonthStart) - 1 \in U
  BY MonthTypes
<1>2. PICK k \in U : \A x \in U : k <= x
  <2> HIDE DEF U
  <2> QED
    BY <1>1, LeastNatural
<1>3. k # 1
  BY CalendarAssumption
<1>4. k - 1 \in Months /\ k <= Len(MonthStart) - 1
  BY <1>1, <1>2, <1>3, MonthTypes DEF Months
<1>5. MonthStart[k - 1] <= d /\ d < MonthStart[(k - 1) + 1]
  BY <1>2, <1>4, MonthTypes
<1>6. MonthOf(d) \in Months /\ MonthStart[MonthOf(d)] <= d /\ d < MonthStart[MonthOf(d) + 1]
  BY <1>4, <1>5 DEF MonthOf
<1>7. MonthOf(d) < k
  <2> SUFFICES ASSUME k - 1 < MonthOf(d) PROVE FALSE
    BY <1>4, <1>6, MonthTypes
  <2>1. MonthOf(d) \in 1 .. Len(MonthStart) /\ MonthStart[MonthOf(d)] \in Nat
    BY <1>6, MonthTypes
  <2>2. MonthStart[(k - 1) + 1] <= MonthStart[MonthOf(d)]
    BY <1>4, <2>1, MonthsAscend
  <2>3. MonthStart[(k - 1) + 1] \in Nat
    BY <1>4, MonthTypes
  <2> QED
    BY <1>5, <1>6, <2>1, <2>2, <2>3
<1> QED
  BY <1>4, <1>6, <1>7, MonthTypes DEF Months

(***************************************************************************)
(* Weeks.                                                                  *)
(***************************************************************************)
CalendarTypes == firstWeekday \in 0 .. 6 /\ holidays \subseteq MayBeHoliday

LEMMA SevenDays ==
  ASSUME NEW a \in Int, NEW b \in Int, a % 7 = b % 7, a <= b, b < a + 7
  PROVE  a = b
OBVIOUS

LEMMA SameWeekday ==
  ASSUME CalendarTypes, NEW x \in Nat, NEW y \in Nat, Weekday(x) = Weekday(y),
         x <= y, y < x + 7
  PROVE  x = y
<1>1. firstWeekday \in Int
  BY DEF CalendarTypes
<1>2. firstWeekday + x = firstWeekday + y
  BY <1>1, SevenDays DEF Weekday
<1> QED
  BY <1>1, <1>2

LEMMA ToResidue ==
  ASSUME NEW x \in Int, NEW e \in 0 .. 6
  PROVE  /\ (e - (x % 7)) % 7 \in 0 .. 6 /\ (x + ((e - (x % 7)) % 7)) % 7 = e
         /\ ((x % 7) - e) % 7 \in 0 .. 6 /\ (x - (((x % 7) - e) % 7)) % 7 = e
<1> DEFINE w == x % 7
           q == x \div 7
<1>1. w \in 0 .. 6 /\ q \in Int /\ x = 7 * q + w
  OBVIOUS
<1> HIDE DEF w, q
<1>2. (e - w) % 7 = IF w <= e THEN e - w ELSE e - w + 7
  BY <1>1
<1>3. (w - e) % 7 = IF e <= w THEN w - e ELSE w - e + 7
  BY <1>1
<1>4. (7 * q + e) % 7 = e /\ (7 * (q + 1) + e) % 7 = e /\ (7 * (q - 1) + e) % 7 = e
  BY <1>1
<1>5. /\ (x + ((e - w) % 7)) = IF w <= e THEN 7 * q + e ELSE 7 * (q + 1) + e
      /\ (x - ((w - e) % 7)) = IF e <= w THEN 7 * q + e ELSE 7 * (q - 1) + e
  BY <1>1, <1>2, <1>3
<1>6. /\ (e - w) % 7 \in 0 .. 6 /\ (w - e) % 7 \in 0 .. 6
  BY <1>1
<1>7. (x + ((e - w) % 7)) % 7 = e /\ (x - ((w - e) % 7)) % 7 = e
  BY <1>4, <1>5
<1> QED
  BY <1>6, <1>7 DEF w

\* The expiry weekday from a day on, and up to one.
LEMMA WeekdayAfter ==
  ASSUME CalendarTypes, NEW d \in Nat
  PROVE  LET a == (ExpiryWeekday - Weekday(d)) % 7
         IN  a \in 0 .. 6 /\ Weekday(d + a) = ExpiryWeekday /\ Weekday(d + 7) = Weekday(d)
<1> DEFINE x == firstWeekday + d
           a == (ExpiryWeekday - (x % 7)) % 7
<1>1. x \in Int /\ ExpiryWeekday \in 0 .. 6 /\ firstWeekday \in Int
  BY CalendarAssumption DEF CalendarTypes
<1>2. (x + 7) % 7 = x % 7
  <2> HIDE DEF x
  <2> QED
    BY <1>1
<1>3. a \in 0 .. 6 /\ (x + a) % 7 = ExpiryWeekday
  <2> HIDE DEF x
  <2> QED
    BY <1>1, ToResidue
<1> HIDE DEF a
<1>4. firstWeekday + (d + a) = x + a /\ firstWeekday + (d + 7) = x + 7
  BY <1>1, <1>3
<1>5. a \in 0 .. 6 /\ Weekday(d + a) = ExpiryWeekday /\ Weekday(d + 7) = Weekday(d)
  BY <1>2, <1>3, <1>4 DEF Weekday
<1>6. Weekday(d) = x % 7 /\ x % 7 \in Int
  <2>1. Weekday(d) = x % 7
    BY DEF Weekday
  <2> HIDE DEF x
  <2> QED
    BY <1>1, <2>1
<1>7. (ExpiryWeekday - Weekday(d)) % 7 = a
  <2> HIDE DEF x
  <2> QED
    BY <1>6 DEF a
<1> QED
  BY <1>5, <1>7

LEMMA WeekdayBefore ==
  ASSUME CalendarTypes, NEW d \in Nat
  PROVE  LET a == (Weekday(d) - ExpiryWeekday) % 7
         IN  a \in 0 .. 6 /\ Weekday(d - a) = ExpiryWeekday
<1> DEFINE x == firstWeekday + d
           a == ((x % 7) - ExpiryWeekday) % 7
<1>1. x \in Int /\ ExpiryWeekday \in 0 .. 6 /\ firstWeekday \in Int
  BY CalendarAssumption DEF CalendarTypes
<1>2. a \in 0 .. 6 /\ (x - a) % 7 = ExpiryWeekday
  <2> HIDE DEF x
  <2> QED
    BY <1>1, ToResidue
<1> HIDE DEF a
<1>3. firstWeekday + (d - a) = x - a
  BY <1>1, <1>2
<1>4. a \in 0 .. 6 /\ Weekday(d - a) = ExpiryWeekday
  BY <1>2, <1>3 DEF Weekday
<1> QED
  BY <1>4 DEF a, Weekday

LEMMA TradingWeek ==
  ASSUME CalendarTypes, NEW n \in 6 .. MonthStart[Len(MonthStart)], Weekday(n) = ExpiryWeekday
  PROVE  \E d \in n - 6 .. n : IsTradingDay(d)
BY WeeksAssumption DEF CalendarTypes, Weekday, IsTradingDay

\* The expiry off a holiday is the last trading day up to the nominal one.
LEMMA ShiftIs ==
  ASSUME NEW n \in Nat, NEW d \in 0 .. n, IsTradingDay(d)
  PROVE  /\ ShiftOffHoliday(n) \in 0 .. n /\ IsTradingDay(ShiftOffHoliday(n))
         /\ \A x \in 0 .. n : IsTradingDay(x) => x <= ShiftOffHoliday(n)
<1> DEFINE T == {x \in 0 .. n : IsTradingDay(x)}
<1>1. T \subseteq Nat /\ T # {} /\ \A x \in T : x <= n
  OBVIOUS
<1>2. Max(T) \in T /\ \A x \in T : x <= Max(T)
  <2> HIDE DEF T
  <2> QED
    BY <1>1, MaxIs
<1> QED
  BY <1>2 DEF ShiftOffHoliday

LEMMA ShiftIsExpiry ==
  ASSUME NEW n \in Nat, Weekday(n) = ExpiryWeekday, NEW d \in 0 .. n
  PROVE  /\ IsTradingDay(d) /\ ShiftOffHoliday(n) = d => ExpiresFor(d, n)
         /\ ExpiresFor(d, n) => ShiftOffHoliday(n) = d
<1>1. ASSUME IsTradingDay(d), ShiftOffHoliday(n) = d PROVE ExpiresFor(d, n)
  BY <1>1, ShiftIs DEF ExpiresFor
<1>2. ASSUME ExpiresFor(d, n) PROVE ShiftOffHoliday(n) = d
  <2>1. IsTradingDay(d) /\ \A x \in d + 1 .. n : ~IsTradingDay(x)
    BY <1>2 DEF ExpiresFor
  <2>2. /\ ShiftOffHoliday(n) \in 0 .. n /\ IsTradingDay(ShiftOffHoliday(n))
        /\ d <= ShiftOffHoliday(n)
    BY <2>1, ShiftIs
  <2> QED
    BY <2>1, <2>2
<1> QED
  BY <1>1, <1>2

(***************************************************************************)
(* The contracts.                                                          *)
(***************************************************************************)

\* Each month has one expiry of the exchange, in that month.
LEMMA ExpiryInMonth ==
  ASSUME CalendarTypes, NEW m \in Months
  PROVE  /\ LastWeekdayOfMonth(m) \in Nat
         /\ MonthStart[m] <= LastWeekdayOfMonth(m)
         /\ LastWeekdayOfMonth(m) < MonthStart[m + 1]
         /\ \E nominal \in MonthStart[m + 1] - 7 .. MonthStart[m + 1] - 1 :
              ExpiresFor(LastWeekdayOfMonth(m), nominal)
         /\ \A d \in Int : \A nominal \in MonthStart[m + 1] - 7 .. MonthStart[m + 1] - 1 :
              ExpiresFor(d, nominal) /\ 0 <= d => d = LastWeekdayOfMonth(m)
<1> DEFINE last == MonthStart[m + 1] - 1
           n == last - ((Weekday(last) - ExpiryWeekday) % 7)
<1>1. /\ MonthStart[m] \in Nat /\ MonthStart[m + 1] \in Nat
      /\ MonthStart[m + 1] >= MonthStart[m] + 28
  BY MonthTypes
<1>2. last \in Nat
  BY <1>1
<1>3. n \in last - 6 .. last /\ Weekday(n) = ExpiryWeekday
  <2> HIDE DEF last
  <2>1. LET a == (Weekday(last) - ExpiryWeekday) % 7
        IN  a \in 0 .. 6 /\ Weekday(last - a) = ExpiryWeekday
    BY <1>2, WeekdayBefore
  <2> QED
    BY <1>2, <2>1
<1>4. LastWeekdayOfMonth(m) = ShiftOffHoliday(n)
  BY DEF LastWeekdayOfMonth
<1>5. n \in Nat /\ n >= MonthStart[m] + 21 /\ n < MonthStart[m + 1] /\ n >= MonthStart[m + 1] - 7
  <2> HIDE DEF n
  <2> QED
    BY <1>1, <1>3
<1> HIDE DEF n
<1>6. MonthStart[m + 1] <= MonthStart[Len(MonthStart)] /\ MonthStart[Len(MonthStart)] \in Nat
  <2>1. m < Len(MonthStart) /\ Len(MonthStart) \in 1 .. Len(MonthStart)
    BY MonthTypes DEF Months
  <2> QED
    BY <2>1, MonthsAscend, MonthTypes
<1>7. PICK d \in n - 6 .. n : IsTradingDay(d)
  <2>1. n \in 6 .. MonthStart[Len(MonthStart)]
    BY <1>1, <1>5, <1>6
  <2> QED
    BY <1>3, <2>1, TradingWeek
<1>8. d \in 0 .. n /\ d >= MonthStart[m] + 15
  BY <1>1, <1>5
<1>9. /\ ShiftOffHoliday(n) \in 0 .. n /\ IsTradingDay(ShiftOffHoliday(n)) /\ d <= ShiftOffHoliday(n)
  BY <1>5, <1>7, <1>8, ShiftIs
<1>10. ExpiresFor(LastWeekdayOfMonth(m), n)
  BY <1>3, <1>4, <1>5, <1>9, ShiftIsExpiry
<1>11. ASSUME NEW x \in Nat, NEW k \in MonthStart[m + 1] - 7 .. MonthStart[m + 1] - 1, ExpiresFor(x, k)
       PROVE  x = LastWeekdayOfMonth(m)
  <2>1. Weekday(k) = Weekday(n) /\ x <= k
    BY <1>3, <1>11 DEF ExpiresFor
  <2>2. k \in Nat /\ ((k <= n /\ n < k + 7) \/ (n <= k /\ k < n + 7))
    BY <1>1, <1>5
  <2>3. k = n
    BY <1>5, <2>1, <2>2, SameWeekday
  <2> QED
    BY <1>3, <1>4, <1>5, <1>11, <2>1, <2>3, ShiftIsExpiry
<1> QED
  BY <1>1, <1>4, <1>5, <1>8, <1>9, <1>10, <1>11

LEMMA ExpiriesAscend ==
  ASSUME CalendarTypes, NEW m \in Months, NEW n \in Months
  PROVE  /\ m < n => LastWeekdayOfMonth(m) < LastWeekdayOfMonth(n)
         /\ LastWeekdayOfMonth(m) < LastWeekdayOfMonth(n) => m < n
<1>1. ASSUME NEW i \in Months, NEW j \in Months, i < j
      PROVE  LastWeekdayOfMonth(i) < LastWeekdayOfMonth(j)
  <2>1. MonthStart[i + 1] <= MonthStart[j] /\ MonthStart[i + 1] \in Nat /\ MonthStart[j] \in Nat
    BY <1>1, MonthsAscend, MonthTypes
  <2>2. /\ LastWeekdayOfMonth(i) \in Nat /\ LastWeekdayOfMonth(j) \in Nat
        /\ LastWeekdayOfMonth(i) < MonthStart[i + 1] /\ MonthStart[j] <= LastWeekdayOfMonth(j)
    BY ExpiryInMonth
  <2> QED
    BY <2>1, <2>2
<1>2. LastWeekdayOfMonth(m) \in Nat /\ LastWeekdayOfMonth(n) \in Nat /\ m \in Nat /\ n \in Nat
  BY ExpiryInMonth, MonthTypes
<1> QED
  BY <1>1, <1>2

\* The monthly expiries are the contracts.
LEMMA MonthlyIsListed ==
  ASSUME CalendarTypes, NEW d \in Nat
  PROVE  IsMonthlyExpiry(d) <=> d \in Listed
BY ExpiryInMonth DEF IsMonthlyExpiry, Listed

LEMMA ListedTypes ==
  ASSUME CalendarTypes
  PROVE  Listed \subseteq Nat
BY ExpiryInMonth DEF Listed

(***************************************************************************)
(* The active contract.                                                    *)
(***************************************************************************)
ClockTypes ==
  /\ CalendarTypes
  /\ today \in FirstDay .. LastDay /\ minute \in Marks
  /\ broker \in {"fyers", "angel"}

LEMMA ClockRange ==
  ASSUME ClockTypes
  PROVE  /\ today \in Nat /\ today >= 6 /\ today < MonthStart[Len(MonthStart) - 1]
         /\ minute \in Nat /\ RollHour \in Nat /\ RollHour >= 1
         /\ minute \div 60 \in Nat
<1>1. Len(MonthStart) - 1 \in 1 .. Len(MonthStart) /\ MonthStart[Len(MonthStart) - 1] \in Nat
  BY MonthTypes
<1>2. MarketOpen \div 60 \in Int
  BY CalendarAssumption
<1>3. minute \in 0 .. 1439
  BY CalendarAssumption DEF ClockTypes
<1>4. minute \div 60 \in Nat
  BY <1>3
<1> QED
  BY <1>1, <1>2, <1>3, <1>4, CalendarAssumption DEF ClockTypes

LEMMA ActiveIsNext ==
  ASSUME ClockTypes
  PROVE  /\ ContractExpiry(today, minute) \in Listed
         /\ ~Over(ContractExpiry(today, minute))
         /\ \A e \in Listed : e < ContractExpiry(today, minute) => Over(e)
<1> DEFINE M == MonthOf(today)
           this == LastWeekdayOfMonth(M)
           next == LastWeekdayOfMonth(M + 1)
<1> USE DEF ClockTypes
<1>1. /\ M \in Months /\ M + 1 \in Months
      /\ MonthStart[M] <= today /\ today < MonthStart[M + 1]
  BY ClockRange, MonthOfIs
<1> HIDE DEF M
<1>2. /\ this \in Nat /\ next \in Nat /\ MonthStart[M] \in Nat /\ MonthStart[M + 1] \in Nat
      /\ MonthStart[M + 1] <= next
  BY <1>1, ExpiryInMonth, MonthTypes
<1>3. this \in Listed /\ next \in Listed
  BY <1>1 DEF Listed
<1>4. ASSUME NEW m \in Months
      PROVE  /\ LastWeekdayOfMonth(m) < this => LastWeekdayOfMonth(m) < today
             /\ LastWeekdayOfMonth(m) < next =>
                  LastWeekdayOfMonth(m) < today \/ LastWeekdayOfMonth(m) = this
  <2>1. /\ LastWeekdayOfMonth(m) \in Nat /\ LastWeekdayOfMonth(m) < MonthStart[m + 1]
        /\ m \in Nat /\ M \in Nat /\ MonthStart[m + 1] \in Nat
    BY <1>1, ExpiryInMonth, MonthTypes
  <2>2. m < M => MonthStart[m + 1] <= MonthStart[M]
    BY <1>1, MonthsAscend, MonthTypes
  <2>3. m < M => LastWeekdayOfMonth(m) < today
    BY <1>1, <1>2, <2>1, <2>2, ClockRange
  <2>4. /\ LastWeekdayOfMonth(m) < this => m < M
        /\ LastWeekdayOfMonth(m) < next => m < M + 1
    BY <1>1, ExpiriesAscend
  <2>5. m < M + 1 => m < M \/ m = M
    BY <2>1
  <2> QED
    BY <2>3, <2>4, <2>5
<1>5. ASSUME NEW e \in Listed
      PROVE  (e < this => e < today) /\ (e < next => e < today \/ e = this)
  BY <1>4 DEF Listed
<1>6. ContractExpiry(today, minute) = IF Over(this) THEN next ELSE this
  BY DEF ContractExpiry, Rolled, Over, M
<1> HIDE DEF this, next
<1>7. ~Over(next)
  BY <1>1, <1>2, ClockRange DEF Over
<1>8. \A e \in Listed : e < today => Over(e)
  BY DEF Over
<1> QED
  BY <1>3, <1>5, <1>6, <1>7, <1>8

LEMMA NotOverIsAhead ==
  ASSUME ClockTypes, NEW e \in Nat, ~Over(e)
  PROVE  e >= today
BY ClockRange DEF Over

LEMMA HourGrows ==
  ASSUME NEW x \in Nat, NEW y \in Nat, x <= y
  PROVE  y \div 60 >= x \div 60 /\ x \div 60 \in Int
<1> DEFINE p == x \div 60
           q == y \div 60
<1>1. p \in Int /\ q \in Int /\ 60 * p <= x /\ x < 60 * p + 60 /\ 60 * q <= y /\ y < 60 * q + 60
  OBVIOUS
<1> HIDE DEF p, q
<1>2. q >= p
  BY <1>1
<1> QED
  BY <1>1, <1>2 DEF p, q

\* The conjuncts of ContractIsNearest, from the types of the clock.
LEMMA NearestFromTypes ==
  ASSUME ClockTypes
  PROVE  ContractIsNearest
<1> DEFINE active == ContractExpiry(today, minute)
<1>1. /\ CalendarTypes /\ active \in Listed /\ active \in Nat /\ ~Over(active)
      /\ active >= today /\ \A e \in Listed : e < active => Over(e)
  BY ActiveIsNext, ListedTypes, NotOverIsAhead DEF ClockTypes
<1>2. DaysToExpiry(today, minute) = active - today
  BY DEF DaysToExpiry
<1> HIDE DEF active
<1>3. IsMonthlyExpiry(active)
  BY <1>1, MonthlyIsListed
<1>4. ASSUME NEW d \in today .. active - 1, IsMonthlyExpiry(d) PROVE Over(d)
  <2>1. d \in Nat /\ d < active
    BY <1>1, ClockRange
  <2> QED
    BY <1>1, <1>4, <2>1, MonthlyIsListed
<1>5. IsNext(active, IsMonthlyExpiry)
  BY <1>1, <1>3, <1>4 DEF IsNext
<1>6. ASSUME SignalsAllowed(today, minute) PROVE active - today > 0
  <2>1. ~(minute < MarketOpen)
    BY <1>6, CalendarAssumption, ClockRange DEF SignalsAllowed, CurrentState
  <2>2. minute \div 60 >= MarketOpen \div 60 /\ MarketOpen \div 60 \in Int
    <3>1. MarketOpen \in Nat
      BY CalendarAssumption
    <3>2. minute \in Nat
      BY ClockRange
    <3>3. MarketOpen <= minute
      BY <2>1, <3>1, <3>2
    <3> QED
      BY <3>1, <3>2, <3>3, HourGrows
  <2>3. minute \div 60 >= RollHour
    BY <2>2, CalendarAssumption, ClockRange
  <2>4. active # today
    BY <1>1, <2>3 DEF Over
  <2> QED
    BY <1>1, <2>4, ClockRange
<1> QED
  BY <1>2, <1>5, <1>6 DEF ContractIsNearest, active

\* Whichever contract is held, it is the active one exactly until it is over.
NeverAhead ==
  held # NoContract => held \in Listed /\ \A e \in Listed : e < held => Over(e)

LEMMA HeldFromNeverAhead ==
  ASSUME ClockTypes, NeverAhead
  PROVE  HeldIsActive
<1> SUFFICES ASSUME held # NoContract
             PROVE  held = ContractExpiry(today, minute) <=> ~Over(held)
  BY DEF HeldIsActive
<1> DEFINE active == ContractExpiry(today, minute)
<1>1. /\ active \in Listed /\ ~Over(active) /\ \A e \in Listed : e < active => Over(e)
  BY ActiveIsNext
<1>2. held \in Listed /\ \A e \in Listed : e < held => Over(e)
  BY DEF NeverAhead
<1>3. active \in Nat /\ held \in Nat
  BY <1>1, <1>2, ListedTypes DEF ClockTypes
<1> HIDE DEF active
<1>4. ~Over(held) => held = active
  <2>1. held < active \/ held = active \/ active < held
    BY <1>3
  <2> QED
    BY <1>1, <1>2, <2>1
<1> QED
  BY <1>1, <1>4 DEF active

(***************************************************************************)
(* The weekly expiry.                                                      *)
(***************************************************************************)
LEMMA WeeksFromTypes ==
  ASSUME ClockTypes
  PROVE  ExpiryFlagsRight
<1> DEFINE a == (ExpiryWeekday - Weekday(today)) % 7
           next == today + a
<1> USE DEF ClockTypes
<1>1. /\ today \in Nat /\ today >= 6 /\ a \in 0 .. 6
      /\ Weekday(next) = ExpiryWeekday /\ Weekday(today + 7) = Weekday(today)
  BY ClockRange, WeekdayAfter
<1>2. a = 0 <=> Weekday(today) = ExpiryWeekday
  <2>1. a = 0 => next = today
    BY <1>1
  <2>2. Weekday(today) = ExpiryWeekday => next = today
    BY <1>1, SameWeekday
  <2> HIDE DEF a
  <2> QED
    BY <1>1, <2>1, <2>2
<1> HIDE DEF a
<1>3. next \in Nat /\ today <= next /\ next <= today + 6
  BY <1>1
\* No other day of the expiry weekday comes before it.
<1>4. ASSUME NEW k \in Nat, today <= k, Weekday(k) = ExpiryWeekday PROVE next <= k
  <2> SUFFICES ASSUME k < next PROVE FALSE
    BY <1>3, <1>4
  <2> QED
    BY <1>1, <1>3, <1>4, SameWeekday
<1>5. /\ next + 7 \in 6 .. MonthStart[Len(MonthStart)]
      /\ MonthStart[Len(MonthStart)] \in Nat
  <2>1. /\ Len(MonthStart) - 1 \in Months /\ (Len(MonthStart) - 1) + 1 = Len(MonthStart)
    BY MonthTypes DEF Months
  <2>2. MonthStart[Len(MonthStart)] >= MonthStart[Len(MonthStart) - 1] + 28
        /\ MonthStart[Len(MonthStart)] \in Nat /\ MonthStart[Len(MonthStart) - 1] \in Nat
    BY <2>1, MonthTypes
  <2> QED
    BY <1>1, <1>3, <2>2, ClockRange
<1>6. IsContractExpiryDay(today) <=> IsMonthlyExpiry(today)
  <2> DEFINE M == MonthOf(today)
  <2>1. /\ M \in Months
        /\ MonthStart[M] <= today /\ today < MonthStart[M + 1]
    BY ClockRange, MonthOfIs
  <2>2. IsContractExpiryDay(today) <=> LastWeekdayOfMonth(M) = today
    BY DEF IsContractExpiryDay
  <2> HIDE DEF M
  <2>3. ASSUME NEW m \in Months, LastWeekdayOfMonth(m) = today PROVE m = M
    <3>1. MonthStart[m] <= today /\ today < MonthStart[m + 1]
      BY <2>3, ExpiryInMonth
    <3>2. /\ M < m => MonthStart[M + 1] <= MonthStart[m]
          /\ m < M => MonthStart[m + 1] <= MonthStart[M]
      BY <2>1, MonthsAscend, MonthTypes
    <3>3. /\ m \in Nat /\ M \in Nat /\ MonthStart[m] \in Nat /\ MonthStart[M] \in Nat
          /\ MonthStart[m + 1] \in Nat /\ MonthStart[M + 1] \in Nat
      BY <2>1, MonthTypes
    <3> QED
      BY <1>1, <2>1, <3>1, <3>2, <3>3
  <2> QED
    BY <1>1, <2>1, <2>2, <2>3, MonthlyIsListed DEF Listed
<1>7. PICK d \in 0 .. next : IsTradingDay(d)
  <2>1. next \in 6 .. MonthStart[Len(MonthStart)]
    BY <1>1, <1>3, <1>5
  <2>2. \E d \in next - 6 .. next : IsTradingDay(d)
    BY <1>1, <2>1, TradingWeek
  <2> QED
    BY <1>1, <1>3, <2>2
<1>8. IsWeeklyExpiryDay(today) <=> ShiftOffHoliday(next) = today
  <2>1. ~(0 \div 60 >= RollHour)
    BY ClockRange
  <2> QED
    BY <2>1 DEF IsWeeklyExpiryDay, WeeklyExpiry, a
<1>9. IsWeeklyExpiry(today) <=> ShiftOffHoliday(next) = today
  <2>1. ASSUME ShiftOffHoliday(next) = today PROVE IsWeeklyExpiry(today)
    <3>1. IsTradingDay(today)
      BY <1>3, <1>7, <2>1, ShiftIs
    <3>2. ExpiresFor(today, next)
      BY <1>1, <1>3, <2>1, <3>1, ShiftIsExpiry
    <3> QED
      BY <1>3, <3>2 DEF IsWeeklyExpiry
  <2>2. ASSUME IsWeeklyExpiry(today) PROVE ShiftOffHoliday(next) = today
    <3>1. PICK k \in today .. today + 20 : ExpiresFor(today, k)
      BY <2>2 DEF IsWeeklyExpiry
    <3>2. next <= k
      BY <1>1, <1>4, <3>1 DEF ExpiresFor
    <3>3. ExpiresFor(today, next)
      BY <1>1, <1>3, <3>1, <3>2 DEF ExpiresFor
    <3> QED
      BY <1>1, <1>3, <3>3, ShiftIsExpiry
  <2> QED
    BY <2>1, <2>2
<1>10. ASSUME IsTradingDay(today), ~MovedAndOver
       PROVE  IsNext(WeeklyExpiry(today, minute), IsWeeklyExpiry)
  <2> DEFINE rolled == a = 0 /\ minute \div 60 >= RollHour
             n == IF rolled THEN today + 7 ELSE next
             W == WeeklyExpiry(today, minute)
  <2>1. W = ShiftOffHoliday(n)
    BY DEF WeeklyExpiry, a
  <2>2. n \in Nat /\ today <= n /\ n <= today + 7 /\ Weekday(n) = ExpiryWeekday
    BY <1>1, <1>2, <1>3
  <2>3. W \in 0 .. n /\ IsTradingDay(W) /\ today <= W
    <3>1. today \in 0 .. n
      BY <1>1, <2>2
    <3> QED
      BY <1>10, <2>1, <2>2, <3>1, ShiftIs
  <2>4. IsWeeklyExpiry(W)
    <3>1. ExpiresFor(W, n)
      BY <2>1, <2>2, <2>3, ShiftIsExpiry
    <3>2. n \in W .. W + 20
      BY <1>1, <2>2, <2>3
    <3> HIDE DEF W, n
    <3> QED
      BY <3>1, <3>2 DEF IsWeeklyExpiry
  <2>5. ~Over(W)
    <3> SUFFICES ASSUME Over(W) PROVE FALSE
      OBVIOUS
    <3>1. W = today /\ minute \div 60 >= RollHour
      BY <1>1, <2>3 DEF Over
    <3>2. CASE a = 0
      <4>1. n = today + 7 /\ n = next + 7
        BY <1>1, <3>1, <3>2
      <4>2. PICK x \in n - 6 .. n : IsTradingDay(x)
        BY <1>5, <2>2, <4>1, TradingWeek
      <4>3. x \in 0 .. n /\ x > today
        BY <1>1, <4>1
      <4>4. x <= W
        BY <2>1, <2>2, <4>2, <4>3, ShiftIs
      <4> QED
        BY <1>1, <3>1, <4>3, <4>4
    <3>3. CASE a # 0
      <4>1. IsWeeklyExpiry(today) /\ Weekday(today) # ExpiryWeekday /\ Over(today)
        BY <1>2, <2>4, <3>1, <3>3
      <4> QED
        BY <1>10, <4>1 DEF MovedAndOver
    <3> QED
      BY <3>2, <3>3
  <2>6. ASSUME NEW x \in today .. W - 1, IsWeeklyExpiry(x) PROVE Over(x)
    <3>1. PICK k \in x .. x + 20 : ExpiresFor(x, k)
      BY <2>6 DEF IsWeeklyExpiry
    <3>2. k \in Nat /\ today <= k /\ Weekday(k) = ExpiryWeekday /\ next <= k
      BY <1>1, <1>4, <2>3, <3>1 DEF ExpiresFor
    <3>3. k < W
      <4>1. ~(W \in x + 1 .. k)
        BY <2>3, <3>1 DEF ExpiresFor
      <4> QED
        BY <1>1, <2>3, <3>2, <4>1
    <3>4. k < n
      BY <2>2, <2>3, <3>2, <3>3
    <3>5. rolled /\ next = today
      BY <1>1, <1>3, <3>2, <3>4
    <3>6. k = today
      <4>1. k < today + 7
        BY <3>4, <3>5
      <4> QED
        BY <1>1, <1>2, <3>2, <3>5, <4>1, SameWeekday
    <3> QED
      BY <1>1, <2>3, <3>1, <3>5, <3>6 DEF Over
  <2> HIDE DEF W
  <2>7. IsNext(W, IsWeeklyExpiry)
    BY <2>4, <2>5, <2>6 DEF IsNext
  <2> QED
    BY <2>7 DEF W
<1> QED
  BY <1>6, <1>8, <1>9, <1>10 DEF ExpiryFlagsRight

(***************************************************************************)
(* The inductive invariant: the types, and what is held never runs ahead.  *)
(***************************************************************************)
ContractsInv == ClockTypes /\ NeverAhead

LEMMA MarksAre ==
  /\ Min(Marks) \in Marks /\ Max(Marks) \in Marks
  /\ \A x \in Marks : x \in Nat /\ Min(Marks) <= x /\ x <= Max(Marks)
<1>1. Marks # {} /\ Marks \subseteq Nat
  BY CalendarAssumption
<1>2. Min(Marks) \in Marks /\ \A x \in Marks : Min(Marks) <= x
  BY <1>1, MinIs
<1>3. Max(Marks) \in Marks /\ \A x \in Marks : x <= Max(Marks)
  <2>1. \A x \in Marks : x <= 1439
    BY CalendarAssumption
  <2>2. PICK b \in Nat : \A x \in Marks : x <= b
    BY <2>1
  <2> QED
    BY <1>1, <2>2, MaxIs
<1> QED
  BY <1>1, <1>2, <1>3

LEMMA InvInit ==
  ASSUME Init
  PROVE  ContractsInv
<1>1. FirstDay \in FirstDay .. LastDay
  BY CalendarAssumption
<1>2. ClockTypes
  BY <1>1, MarksAre DEF Init, ClockTypes, CalendarTypes
<1> QED
  BY <1>2 DEF ContractsInv, NeverAhead, Init

\* The calendar stays, so the contracts do.
LEMMA ListedStays ==
  ASSUME UNCHANGED calendar
  PROVE  Listed' = Listed
BY DEF calendar, Listed, LastWeekdayOfMonth, ShiftOffHoliday, IsTradingDay, Weekday

\* A later minute makes no contract anew.
LEMMA ElapseKeeps ==
  ASSUME ContractsInv, Elapse
  PROVE  ContractsInv'
<1>1. ClockTypes /\ NeverAhead
  BY DEF ContractsInv
<1>2. \/ minute = Max(Marks) /\ today < LastDay /\ today' = today + 1 /\ minute' = Min(Marks)
      \/ /\ minute < Max(Marks) /\ today' = today
         /\ minute' \in Marks /\ minute < minute'
  <2>1. CASE minute = Max(Marks)
    BY <2>1 DEF Elapse
  <2>2. CASE minute # Max(Marks)
    <3> DEFINE T == {x \in Marks : x > minute}
    <3>0. minute \in Marks /\ minute \in Nat /\ Max(Marks) \in Nat /\ minute <= Max(Marks)
      BY <1>1, MarksAre DEF ClockTypes
    <3>1. minute \in Marks /\ minute < Max(Marks)
      <4> DEFINE max == Max(Marks)
      <4> HIDE DEF max
      <4>1. minute \in Nat /\ max \in Nat /\ minute <= max /\ minute # max
        BY <2>2, <3>0 DEF max
      <4>2. minute < max
        BY <4>1
      <4> QED
        BY <3>0, <4>2 DEF max
    <3>2. T \subseteq Nat /\ T # {}
      <4>1. Max(Marks) \in T
        BY <3>1, MarksAre
      <4>2. \A x \in Marks : x \in Nat
        BY MarksAre
      <4> QED
        BY <4>1, <4>2
    <3>3. Min(T) \in T
      <4> HIDE DEF T
      <4> QED
        BY <3>2, MinIs
    <3> QED
      BY <2>2, <3>1, <3>3 DEF Elapse
  <2> QED
    BY <2>1, <2>2
<1>3. ClockTypes'
  <2>1. minute' \in Marks
    BY <1>2, MarksAre
  <2>2. today' \in FirstDay .. LastDay
    BY <1>1, <1>2, CalendarAssumption DEF ClockTypes
  <2> QED
    BY <1>1, <2>1, <2>2 DEF ClockTypes, CalendarTypes, Elapse, calendar
<1>4. ASSUME NEW e \in Nat, Over(e) PROVE Over(e)'
  <2>a. \A x \in Marks : x \in Nat
    BY MarksAre
  <2>b. minute' \in Marks /\ minute \in Marks
    BY <1>1, <1>3 DEF ClockTypes
  <2>1. today \in Nat /\ minute \in Nat /\ minute' \in Nat
    BY <1>1, <2>a, <2>b, ClockRange
  <2>2. CASE today' = today + 1
    BY <1>4, <2>1, <2>2 DEF Over
  <2>3. CASE today' = today /\ minute < minute'
    <3>1. minute' \div 60 >= minute \div 60 /\ minute \div 60 \in Int
      <4>1. minute <= minute'
        BY <2>1, <2>3
      <4> QED
        BY <2>1, <4>1, HourGrows
    <3>2. RollHour \in Int /\ minute' \div 60 \in Int
      BY <2>1, ClockRange, <1>1
    <3>3. minute \div 60 >= RollHour => minute' \div 60 >= RollHour
      BY <3>1, <3>2
    <3> QED
      BY <1>4, <2>3, <3>3 DEF Over
  <2> QED
    BY <1>2, <2>2, <2>3
<1>5. NeverAhead'
  <2>1. Listed' = Listed /\ held' = held
    BY ListedStays DEF Elapse
  <2>2. Listed \subseteq Nat
    BY <1>1, ListedTypes DEF ClockTypes
  <2> QED
    BY <1>1, <1>4, <2>1, <2>2 DEF NeverAhead
<1> QED
  BY <1>3, <1>5 DEF ContractsInv

\* What a feed resolves is a contract with none nearer.
LEMMA ResolvedNeverAhead ==
  ASSUME ClockTypes
  PROVE  Resolved \in Listed /\ \A e \in Listed : e < Resolved => Over(e)
<1> DEFINE active == ContractExpiry(today, minute)
           T == {e \in Listed : e >= today}
<1>1. /\ active \in Listed /\ ~Over(active) /\ \A e \in Listed : e < active => Over(e)
  BY ActiveIsNext
<1>2. Listed \subseteq Nat /\ today \in Nat
  BY ListedTypes, ClockRange DEF ClockTypes
<1>3. CASE broker = "fyers"
  BY <1>1, <1>3 DEF Resolved
<1>4. CASE broker # "fyers"
  <2>1. active >= today
    BY <1>1, <1>2, NotOverIsAhead
  <2>2. T \subseteq Nat /\ T # {}
    BY <1>1, <1>2, <2>1
  <2>3. Min(T) \in T /\ \A x \in T : Min(T) <= x
    <3> HIDE DEF T
    <3> QED
      BY <2>2, MinIs
  <2>4. Resolved = Min(T)
    BY <1>4 DEF Resolved
  <2>5. ASSUME NEW e \in Listed, e < Resolved PROVE Over(e)
    <3>0. e \in Nat /\ Min(T) \in Nat /\ e < Min(T)
      BY <1>2, <2>3, <2>4, <2>5
    <3>1. e \in Nat /\ ~(e >= today)
      BY <1>2, <2>3, <3>0
    <3> QED
      BY <1>2, <3>1 DEF Over
  <2> QED
    BY <2>3, <2>4, <2>5
<1> QED
  BY <1>3, <1>4

LEMMA StartFeedKeeps ==
  ASSUME ContractsInv, StartFeed
  PROVE  ContractsInv'
<1>1. ClockTypes
  BY DEF ContractsInv
<1>2. ClockTypes'
  BY <1>1 DEF ClockTypes, CalendarTypes, StartFeed, calendar, clock
<1>3. Listed' = Listed /\ held' = Resolved /\ today' = today /\ minute' = minute
  BY ListedStays DEF StartFeed, clock
<1>4. NeverAhead'
  BY <1>1, <1>3, ResolvedNeverAhead DEF NeverAhead, Over
<1> QED
  BY <1>2, <1>4 DEF ContractsInv

LEMMA InvNext ==
  ASSUME ContractsInv, [Next]_vars
  PROVE  ContractsInv'
<1>1. CASE Elapse
  BY <1>1, ElapseKeeps
<1>2. CASE StartFeed
  BY <1>2, StartFeedKeeps
<1>3. CASE UNCHANGED vars
  <2>1. ClockTypes'
    BY <1>3 DEF ContractsInv, ClockTypes, CalendarTypes, vars, calendar, clock
  <2>2. Listed' = Listed /\ held' = held /\ today' = today /\ minute' = minute
    BY <1>3, ListedStays DEF vars, clock
  <2>3. NeverAhead'
    BY <2>2 DEF ContractsInv, NeverAhead, Over
  <2> QED
    BY <2>1, <2>3 DEF ContractsInv
<1> QED
  BY <1>1, <1>2, <1>3 DEF Next

\* In every run the invariant holds of every state.
LEMMA InvHolds == Spec => []ContractsInv
<1>1. Init => ContractsInv
  BY InvInit
<1>2. ContractsInv /\ [Next]_vars => ContractsInv'
  BY InvNext
<1> QED
  BY <1>1, <1>2, PTL DEF Spec

\* The contract of get_contract_expiry_date is, at every minute of every day,
\* the exchange's next expiry that has not rolled, and none that ends the day a
\* signal names it.
THEOREM ActiveContractIsNearest == Spec => []ContractIsNearest
<1>1. ContractsInv => ContractIsNearest
  BY NearestFromTypes DEF ContractsInv
<1> QED
  BY <1>1, InvHolds, PTL

\* is_contract_expiry_day and is_weekly_expiry_day are true on the exchange's
\* expiry days and no others, and get_weekly_expiry_date is the next of them.
THEOREM FlagsAreRight == Spec => []ExpiryFlagsRight
<1>1. ContractsInv => ExpiryFlagsRight
  BY WeeksFromTypes DEF ContractsInv
<1> QED
  BY <1>1, InvHolds, PTL

\* The contract a feed resolved at its start is the active one exactly until it
\* rolls, for the feeds of both brokers and starts at any time.
THEOREM HeldUntilOver == Spec => []HeldIsActive
<1>1. ContractsInv => HeldIsActive
  BY HeldFromNeverAhead DEF ContractsInv
<1> QED
  BY <1>1, InvHolds, PTL
=============================================================================
