------------------------------ MODULE TickStore ------------------------------
(***************************************************************************)
(* The in-memory candle store and the two things that write it: the seed   *)
(* from the broker's history and the live ticks.                           *)
(* Code: src/src/data/india_tick_store.py, the seed and the ticks of       *)
(* src/src/broker/fyers_feed.py, src/src/broker/history_utils.py.          *)
(*                                                                         *)
(* Time is counted in units from the first market open; a day is its       *)
(* session.  An instrument trades at most once in a unit, so a trade is    *)
(* its time: prices and volumes are the sets of the trades they stand for. *)
(* A tick reports the last trade, as the broker's feed does, and the       *)
(* volume of its day so far; ticks may be lost, and after a subscription   *)
(* the first one may be of an earlier day.  Code between two awaits is one *)
(* step.                                                                   *)
(***************************************************************************)
EXTENDS Integers, Sequences, FiniteSetsExt

CONSTANTS
  Symbols,
  Horizon,     \* bound: units explored
  DayLen,      \* units of one session
  OREnd,       \* units until _OR_END, 09:45
  Width,       \* units of one bar of each timeframe, _TF_MINUTES
  RingSpan,    \* _RING_SEED_HOURS
  MaxCandles,  \* depth of the rings
  TradeUnits,  \* bound: units of a session with trades
  MaxTrades,   \* bound: trades of all instruments
  MaxSeeds     \* bound: seeds of the whole universe

Frames == {"1m", "5m", "15m", "60m"}
Seeded == Frames \ {"1m"}            \* the REST seed carries no 1m
NoDate == -1                         \* _state_date = None

ASSUME StoreAssumption ==
  /\ Horizon \in Nat \ {0} /\ DayLen \in Nat \ {0}
  /\ OREnd \in 1 .. DayLen
  /\ Width \in [Frames -> Nat \ {0}]
  /\ RingSpan \in Nat /\ MaxCandles \in Nat \ {0}
  /\ MaxTrades \in Nat /\ MaxSeeds \in Nat

VARIABLES
  now,        \* the clock
  trades,     \* what each instrument has traded: the exchange's tape
  live,       \* the socket is open
  pending,    \* instruments the seed in progress has not reached
  seedNow,    \* the time the seed in progress was begun at, or NoSeed
  seeds,      \* seeds begun
  ring,       \* _candles
  building,   \* _building: no bar or one
  day,        \* _day_open, _intraday_high/low, _or_high/low, _or_locked
  stateDate,  \* _state_date
  counted,    \* _last of CumulativeVolume: the trades of the last reading
  carried,    \* instruments whose day state outlived a change of stateDate
  restored,   \* instruments whose day state was seeded since the last reset
  seededAt    \* when the bars of each instrument were last seeded

market == <<now, trades>>
seeding == <<live, pending, seedNow, seeds>>
store == <<ring, building, day, stateDate, counted>>
history == <<carried, restored, seededAt>>
vars == <<market, seeding, store, history>>

NoSeed == -1
Day(t) == t \div DayLen
TimeOfDay(t) == t % DayLen
Bucket(tf, t) == t - (TimeOfDay(t) % Width[tf])
InOpeningRange(t) == TimeOfDay(t) < OREnd

\* A bar: where it begins, the trades its volume counts, and whether it is
\* one of those that a seed put or left where it does not belong.
Bar(ts, vol, odd) == [ts |-> ts, vol |-> vol, odd |-> odd]
Capped(s) == SubSeq(s, 1 + Max({0, Len(s) - MaxCandles}), Len(s))

\* The history of a set of trades as bars, oldest first.
Ascending(S) ==
  CHOOSE q \in [1 .. Cardinality(S) -> S] : \A i, j \in DOMAIN q : i < j => q[i] < q[j]
Bars(tf, S) ==
  LET starts == Ascending({Bucket(tf, t) : t \in S})
  IN  [i \in DOMAIN starts |->
        Bar(starts[i], {t \in S : Bucket(tf, t) = starts[i]}, FALSE)]

\* aggregate_candles: bars of a finer timeframe merged by clock bucket.
Aggregate(tf, bars) == Bars(tf, UNION {bars[i].vol : i \in DOMAIN bars})

Fresh == [open |-> {}, span |-> {}, range |-> {}, locked |-> FALSE]

Init ==
  /\ now = 0
  /\ trades = [s \in Symbols |-> {}]
  /\ live = FALSE /\ pending = {} /\ seedNow = NoSeed /\ seeds = 0
  /\ ring = [s \in Symbols |-> [tf \in Frames |-> <<>>]]
  /\ building = [s \in Symbols |-> [tf \in Frames |-> <<>>]]
  /\ day = [s \in Symbols |-> Fresh]
  /\ stateDate = NoDate
  /\ counted = [s \in Symbols |-> {}]
  /\ carried = {} /\ restored = {}
  /\ seededAt = [s \in Symbols |-> NoSeed]

-----------------------------------------------------------------------------
(* The market. *)

\* A seed takes a minute or two: it ends in the unit it began in, or the next
\* one of the same session.
Elapse ==
  /\ now < Horizon - 1
  /\ seedNow # NoSeed => now = seedNow /\ Day(now + 1) = Day(seedNow)
  /\ now' = now + 1
  /\ UNCHANGED <<trades, seeding, store, history>>

Trade(s) ==
  /\ now \notin trades[s] /\ TimeOfDay(now) \in TradeUnits
  /\ MapThenSumSet(LAMBDA x : Cardinality(trades[x]), Symbols) < MaxTrades
  /\ trades' = [trades EXCEPT ![s] = @ \cup {now}]
  /\ UNCHANGED <<now, seeding, store, history>>

-----------------------------------------------------------------------------
(* _seed_historical, from start() with no socket or from refresh_daily()   *)
(* with the old one open.  The instruments are fetched concurrently.       *)

BeginSeed(socket) ==
  /\ seedNow = NoSeed /\ seeds < MaxSeeds
  /\ seeds' = seeds + 1
  /\ seedNow' = now /\ pending' = Symbols
  /\ live' = socket
  /\ UNCHANGED <<market, store, history>>

\* start(), at boot or after stop(): a watchdog restart or a new token.
Start == BeginSeed(FALSE)

\* refresh_daily(), when the loop sees PRE_OPEN turn into OPEN.
RefreshDaily == live /\ TimeOfDay(now) = 0 /\ BeginSeed(TRUE)

\* The bars of a seed.  History is complete, except that the bar still forming
\* may be missing or not show the last trade; 15m comes from a request of its
\* own, or from the 5m bars when that fails, and 60m from the 15m bars.  A
\* merged bar whose bucket is still forming is odd: live ticks build it again.
MarkForming(tf, bars) ==
  [i \in DOMAIN bars |-> [bars[i] EXCEPT !.odd = bars[i].ts = Bucket(tf, seedNow)]]
\* Mutation: the forming bar is seeded with the finished ones.
CompletedAndForming(s) == {t \in trades[s] : t <= seedNow}
\* The trades of the 5m bars that are over.
Completed(s) == {t \in trades[s] : t < Bucket("5m", seedNow)}
Recent(s) ==
  LET recent == {t \in Completed(s) : Bucket("5m", t) >= seedNow - RingSpan}
  IN  Bars("5m", IF recent = {} THEN Completed(s) ELSE recent)
FifteenMin(s, fetched) ==
  LET finished == Bars("15m", {t \in trades[s] : t < Bucket("15m", seedNow)})
  IN  IF fetched /\ finished # <<>>
        THEN finished
        ELSE MarkForming("15m", Aggregate("15m", Bars("5m", Completed(s))))
SeedBars(s, fetched) ==
  [ring[s] EXCEPT
    !["5m"] = Capped(Recent(s)),
    !["15m"] = Capped(FifteenMin(s, fetched)),
    !["60m"] = Capped(MarkForming("60m", Aggregate("60m", FifteenMin(s, fetched))))]

\* seed() leaves the bars being built alone.  Odd are those of a bucket that is
\* over, and those that hold the volume of a gap the seed has just filled.
Overtaken(tf, bar) ==
  \/ bar.ts < Bucket(tf, seedNow)
  \/ \E t \in bar.vol : Bucket(tf, t) < bar.ts
Kept(s) ==
  [tf \in Frames |->
    [i \in DOMAIN building[s][tf] |->
      [building[s][tf][i] EXCEPT !.odd = @ \/ (tf \in Seeded /\ Overtaken(tf, building[s][tf][i]))]]]

\* seed_intraday_state: the day as history shows it.
\* Mutation: a seed does not correct a day open that is set.
SeedDayKeepsOpen(old, todays) ==
  [open |-> IF old.open = {} THEN {Min(todays)} ELSE old.open, span |-> todays,
   range |-> {t \in todays : InOpeningRange(t)}, locked |-> old.locked]
SeedDay(old, todays) ==
  LET window == {t \in todays : InOpeningRange(t)}
  IN  [open |-> {Min(todays)}, span |-> todays,
       range |-> IF window # {} THEN window ELSE old.range,
       locked |-> old.locked \/ (window # {} /\ TimeOfDay(seedNow) >= OREnd)]

SeedIntradayState(s, todays) ==
  IF todays = {}
    THEN UNCHANGED <<day, stateDate, carried, restored>>
    ELSE /\ stateDate' = Day(seedNow)
         /\ day' = [day EXCEPT ![s] = SeedDay(@, todays)]
         /\ carried' = carried \cup
              IF stateDate \in {NoDate, Day(seedNow)} THEN {}
              ELSE {x \in Symbols : day[x] # Fresh}
         /\ restored' = {s} \cup IF stateDate = Day(seedNow) THEN restored ELSE {}

\* _seed_one with its answers in: both series, or 5m only.
SeedOne(s, fetched) ==
  /\ s \in pending
  /\ \E shot \in {{t \in trades[s] : t <= seedNow}, {t \in trades[s] : t < Bucket("5m", seedNow)}} :
       /\ shot # {}
       /\ SeedIntradayState(s, {t \in shot : Day(t) = Day(seedNow)})
  /\ ring' = [ring EXCEPT ![s] = SeedBars(s, fetched)]
  /\ building' = [building EXCEPT ![s] = Kept(s)]
  /\ pending' = pending \ {s}
  /\ seededAt' = [seededAt EXCEPT ![s] = seedNow]
  /\ UNCHANGED <<market, live, seedNow, seeds, counted>>

\* Throttled to the end, refused, empty: the instrument stays as it was.
SeedMissed(s) ==
  /\ s \in pending
  /\ pending' = pending \ {s}
  /\ UNCHANGED <<market, live, seedNow, seeds, store, history>>

\* Mutation: the volumes keep the baseline from before the seed.
SeedDoneSameBaseline ==
  /\ seedNow # NoSeed /\ pending = {}
  /\ seedNow' = NoSeed /\ live' = TRUE
  /\ UNCHANGED <<market, pending, seeds, store, history>>

\* The volumes are re-baselined; start() opens its socket.
SeedDone ==
  /\ seedNow # NoSeed /\ pending = {}
  /\ counted' = [s \in Symbols |-> {}]
  /\ seedNow' = NoSeed /\ live' = TRUE
  /\ UNCHANGED <<market, pending, seeds, ring, building, day, stateDate, history>>

-----------------------------------------------------------------------------
(* _ingest_tick: the volume since the last reading, then on_tick. *)

Reading(s, t) == {u \in trades[s] : Day(u) = Day(t) /\ u <= t}
Delta(s, t) == IF counted[s] = {} THEN {} ELSE Reading(s, t) \ counted[s]

\* The tick's own part of the day state, after a reset if there was one.
TickDay(old, t) ==
  [open |-> IF old.open = {} THEN {t} ELSE old.open,
   span |-> IF old.open = {} THEN {t} ELSE old.span \cup {t},
   range |-> IF ~old.locked /\ InOpeningRange(t) THEN old.range \cup {t} ELSE old.range,
   locked |-> old.locked \/ TimeOfDay(t) >= OREnd]

\* What one tick does to the bar being built, and the bar it finishes.
\* A bar begun by a tick older than the last seed is odd: the seed has it.
Grown(tf, bar, t, vol, seeded) ==
  IF bar = <<>> \/ Bucket(tf, t) > bar[1].ts
    THEN <<Bar(Bucket(tf, t), vol, tf \in Seeded /\ seeded # NoSeed /\ Bucket(tf, t) < Bucket(tf, seeded))>>
    ELSE <<[bar[1] EXCEPT !.vol = @ \cup vol]>>
Finished(tf, bar, t) == IF bar # <<>> /\ Bucket(tf, t) > bar[1].ts THEN bar ELSE <<>>

\* reset_day, when the tick is of another day than the state.
\* Mutation: the first tick of a day does not reset the state.
NeverNewDay(t) == FALSE
NewDay(t) == stateDate \notin {NoDate, Day(t)}
AfterReset(t) == IF NewDay(t) THEN [s \in Symbols |-> Fresh] ELSE day
BuildingAfterReset(t) ==
  IF NewDay(t) THEN [s \in Symbols |-> [tf \in Frames |-> <<>>]] ELSE building

Tick(s) ==
  /\ live /\ trades[s] # {}
  /\ LET t == Max(trades[s])
         bars == BuildingAfterReset(t)
         base == AfterReset(t)
     IN  /\ counted' = [counted EXCEPT ![s] = Reading(s, t)]
         /\ stateDate' = Day(t)
         /\ day' = [base EXCEPT ![s] = TickDay(@, t)]
         /\ ring' = [ring EXCEPT ![s] = [tf \in Frames |->
                      Capped(@[tf] \o Finished(tf, bars[s][tf], t))]]
         /\ building' = [bars EXCEPT ![s] = [tf \in Frames |->
                          Grown(tf, bars[s][tf], t, Delta(s, t), seededAt[s])]]
         /\ carried' = IF NewDay(t) THEN {} ELSE carried
         /\ restored' = IF NewDay(t) THEN {} ELSE restored
  /\ UNCHANGED <<market, seeding, seededAt>>

Seeding ==
  \/ Start \/ RefreshDaily \/ SeedDone
  \/ \E s \in Symbols : SeedMissed(s) \/ \E fetched \in BOOLEAN : SeedOne(s, fetched)

Next == Elapse \/ Seeding \/ \E s \in Symbols : Trade(s) \/ Tick(s)

Spec == Init /\ [][Next]_vars

-----------------------------------------------------------------------------
(* Properties. *)

Bars2(s, tf) == ring[s][tf] \o building[s][tf]

\* Readers take a ring for the finished bars, oldest first, and the bar being
\* built for the one after them.  No bar is repeated or out of order except
\* the odd ones: coarse bars seeded while still forming, and bars that were
\* being built when a seed already held their bucket.
InOrder ==
  \A s \in Symbols, tf \in Frames :
    LET bars == Bars2(s, tf)
    IN  \A i, j \in DOMAIN bars :
          i < j /\ ~bars[i].odd /\ ~bars[j].odd => bars[i].ts < bars[j].ts

\* No trade's volume is counted in two bars of a timeframe: the seeds, the live
\* deltas and their baselines fit together (again, the odd bars apart).
CountedOnce ==
  \A s \in Symbols, tf \in Frames :
    LET bars == Bars2(s, tf)
    IN  \A i, j \in DOMAIN bars :
          i # j /\ ~bars[i].odd /\ ~bars[j].odd => bars[i].vol \cap bars[j].vol = {}

\* The day open, the extremes and the opening range are of the state's day,
\* the range of its window, and the range is locked only once the window is
\* over; instruments whose state a seed carried into another day apart.
OpeningRangeFinal(s) == day[s].locked => now >= stateDate * DayLen + OREnd
DayStateIsToday ==
  \A s \in Symbols \ carried :
    /\ \A t \in day[s].open \cup day[s].span \cup day[s].range : Day(t) = stateDate
    /\ \A t \in day[s].range : InOpeningRange(t)
    /\ OpeningRangeFinal(s)

\* A (re)start in the middle of the session does not blind the day: once an
\* instrument was seeded its day open is the day's first trade.
DayOpenIsFirst ==
  \A s \in restored :
    day[s].open = {Min({t \in trades[s] : Day(t) = stateDate})}
=============================================================================
