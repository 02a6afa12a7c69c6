# Lumin India engine: TLA+ models, model checks and proofs

The engine (`src/src/`) is one Python process.  It watches Indian index and
stock futures during a market session, emits trade signals, follows each one
to an outcome, keeps both in SQLite and reports a summary at the close.
Everything runs on one asyncio event loop, so two pieces of code interleave
only where one of them awaits.  The exceptions are the threads of the broker's
socket, which hand ticks over with `call_soon_threadsafe`.  What is hard about
it is the awaits, the restarts (every deploy is one, and docker's
`restart: always` boots a dead process) and state that is kept twice, in memory
and in the database.

## 1. Inventory

| Part | State | Operations | Hard behaviour | What makes it correct |
|---|---|---|---|---|
| Main loop (`main.py`) | session state and previous one, suppression cursor, watchdog clocks, `feed_active` | one iteration about every 30 s: transition, scan, route, register, check, writes, watchdog | two dozen awaits per iteration, each a place for an API request or a death; a close made of many writes | no stored signal is forgotten, each is decided once and in its session, each day gets a complete summary |
| Session manager and calendars (`session/`) | tables of dates | clock time to session state, contract expiries, expiry-day flags | expiries moved off holidays, rolls at a fixed hour | the active contract is the one that expires next; the flags are up on the exchange's expiry days and on no other |
| Scanner (`scanner/`, `dependency.py`) | cooldowns, per-day counters, last direction and entry per instrument, list of suppressions | scan, begin_scan, check, check_emission, record_emission, rehydrate, reset_day | the state is per process, the limits are per day; candidates of one scan compete | daily caps, cooldown and no-whipsaw window hold over what was emitted, restarts included |
| Router (`signal_router.py`) | none | insert signal, push, insert suppression | an insert or a push fails in the middle | the others go on; nothing is written twice |
| Trade monitor (`trade_monitor.py`) | open signals with fill mark and TP1 mark, two queues of marks | register, resume, check (walk), force_close_all, drain, clear | re-walks of candles still forming, two resolutions, deadline by candle and by wall clock | outcomes follow the plan and the tape; a restart changes none of them |
| Signal store (`signal_store.py`, `db.py`) | signals, outcomes, suppressions, summaries | inserts, marks, summary, queries for a boot, clear_history | writes of one check are several commits; wipe in several statements | a row only moves forward, its outcome is final and agrees with its marks |
| Fyers feed (`broker/fyers_feed.py`) | running flag, HTTP client, socket, OI poller, tick clock | start, stop, restart, refresh_daily, tick, poll | three coroutines start and stop it; sockets die silently | an active feed is whole, a dead one is noticed |
| Owner alerts (`owner_alerts.py`) | time of the last alert per kind | alert | cooldown drops alerts | the owner learns of a silent feed |
| Tick store, history utilities (`data/india_tick_store.py`, `broker/history_utils.py`) | finished candles and the one being built per symbol and timeframe, day open, extremes, opening range, volume baselines | seed, seed_intraday_state, on_tick, reset_day, delta | a seed in the middle of live ticks, the change of day | bars ascend without doubles, volume is counted once, the day's state is today's |
| FCM dispatcher (`fcm_dispatcher.py`) | cache of device tokens | register, remove, dispatch | the list is filled and handed out across awaits, while registrations and removals ask the same database | the list has every registered device and no removed one; a push leaves out none |
| OI, market-data and macro stores (`data/`) | last values with a time to live | update, read | a value may be stale when read | stale reads as absent |
| Setup evaluators (`channels/india_scalp.py`) | none | evaluate a context, draw up entry, stop and targets | fourteen setups, each with a long and a short half written apart | the stop is on the losing side, targets are worth their risk, the halves mirror each other |
| Scoring (`signal_quality.py`) | none | two scores, floor, tier | two models measured side by side, one of them in force | a read that turns to a candidate's side does not lower its score |
| Context builder, market context, structure code (`scanner/`, `market_context.py`, `dependency.py`, `structure_state.py`, `patterns.py`, `order_blocks.py`, `level_book.py`) | age of the market's direction | votes, direction gates, swings, breaks, zones, levels | two rules for the direction, two gates that may disagree; readings of bars still forming | the gates never silence a base in both directions; a reading of completed bars does not change later |
| Strategy edge and allocator | a snapshot per day | statistics over outcomes | sample sizes | no verdict on too few trades |
| API (`api/server.py`) | the callbacks registered by the main loop | clear-history, reset-gates, token callback, reads | served at any await of the loop | memory and tables agree afterwards |
| Health check, deployment, tools | heartbeat file | kill and reboot; offline replay | a slow iteration is killed | none of its own |

The main loop calls the scanner, hands its signals to the router and then to
the monitor, writes what the monitor returns, and restarts the feed.  The feed
writes the tick, OI and market-data stores.  The context builder reads them for
the scanner, and the monitor reads the candles.  The API calls back into the
loop's state.  `PROJECT.json` lists the components with what is modelled of
each, and every hazard at its line.

## 2. Modules

| Module | Models | Used by |
|---|---|---|
| `SignalPlan` | stages and outcomes of one signal without prices | Engine, SignalLedger, TradeMonitor |
| `SignalLedger` | abstract promise of the store: a row moves forward only | Engine, TradeMonitorProofs (refinements) |
| `Engine` | main loop, router, monitor's open set, store, maintenance requests, crash and boot | EngineProofs |
| `EngineProofs` | inductive invariant and theorems of Engine | |
| `TradeMonitor`, `MCTradeMonitor` | the candle walk of one signal: ticks, polls, two resolutions, marks, restart | TradeMonitorProofs |
| `TradeMonitorProofs` | induction over the walk, inductive invariants and theorems of TradeMonitor | |
| `GateChain`, `MCGateChain` | gates with a memory, suppression list and cursor, router, rehydration, day | GateChainProofs |
| `GateChainProofs` | inductive invariants and theorems of GateChain, its caps by counting | |
| `FeedWatchdog` | feed life cycle, watchdog, token callback, alerts | FeedWatchdogProofs |
| `FeedWatchdogProofs` | inductive invariants and theorems of FeedWatchdog | |
| `TickStore`, `MCTickStore` | seeds and live ticks into candles, day state and volume baselines | TickStoreProofs |
| `TickStoreProofs` | inductive invariant and theorems of TickStore | |
| `Contracts`, `MCContracts` | session clock, expiries, the roll, the contract a feed holds | ContractsProofs |
| `ContractsProofs` | the order of the expiries, inductive invariant and theorems of Contracts | |
| `FcmDispatcher` | device tokens, the list in memory, registrations and pushes over the database queue | FcmDispatcherProofs |
| `FcmDispatcherProofs` | inductive invariants and theorems of FcmDispatcher | |
| `Tape` | index biases, the two directions of the market, the two gates of direction | Evaluators |
| `Structure` | swings, breaks of structure, bar patterns, zones, the book of levels | Evaluators |
| `Evaluators` | the fourteen setups with their stops and targets | SetupGates |
| `SetupGates` | the gates that judge a candidate by its market alone | Confidence |
| `Confidence` | both scores, floor and tier | SetupScan |
| `SetupScan`, `MCSetupScan` | the pure half of a scan, one input at a time | SetupScanProofs |
| `SetupScanProofs` | theorems of SetupScan: the reads, the geometry of each evaluator, the scores, the reflection of its halves | |

### Correspondence with the code

**Engine.**  `pc` names the piece of the loop that runs next and each value of
it is a place of `main.py`: `sleep` is the wait at the bottom, `opening` the
loads at the open, `scan`, `route`, `check` the scan, `router.route` and
`monitor.check`, `persist`, `trigger`, `tp1` the three groups of writes after a
check, `force` and `backup` the end of a close.  `AtAwait` lists the places
where the loop is suspended, which is where a request is served.  `stage` is
the monitor's `_open`; `rows`, `triggeredAt`, `tp1TouchedAt`, `outcome`,
`summary` are the tables.  One write is one step and a batch is written in any
order, a superset of the code's order.  What `check` makes of a signal is any
result `SignalPlan!WalkFrom` allows.  The clock is a phase of the day;
`Advance` lets a phase end only when a running loop has seen it, because a
phase lasts at least fifteen minutes and an iteration about thirty seconds.
A crash is possible at every step except while a maintenance request runs (its
deletes are one transaction unless the loop commits between them).

**TradeMonitor.**  Prices are the five levels of a plan, in the order a long
trade meets them, and a short trade sees them upside down.  `tape` is what the
market traded in each minute, `fine` the 1m candles of the running process,
`Coarse` its 5m candles (from history up to the feed's start, from ticks
after).  `Walk` folds `Step` over the candles as `walk_signal` loops over them;
`Window` is `_candles_for`.  `row` is the stored row, which survives `Crash`.
Points, R multiples, excursions and bar counts are left out.

**GateChain.**  `Scan` does the pre-score gates of all candidates at once and
`Emit`/`Reject` take the survivors one at a time, in any order (the code takes
them by confidence, which the model does not have).  Nothing interleaves with
them, as in the code.  The gates that read the market are one nondeterministic
number of rejections in `Scan` and the choice of `Reject` over `Emit`.
Suppressions are serial numbers, so that one lost or repeated can be seen.
A reset is served at any await, also while the router writes: the cursor is
then set from a length read before it, and `cutShort` records that.  `epoch`
counts the requests that reset the gates, since the caps start anew after one.

**FeedWatchdog.**  `task[t]` is where a coroutine stands in `stop()` and
`start()`: `joining` the socket's threads, `closing` the client, `seeding` the
history.  The main coroutine (`LOOP`) boots and restarts the feed, a tap is the
owner's token callback.  Times are ages counted in slices and held at the
largest value a guard tells apart.  `delivering` are the open sockets that
deliver ticks, `pollers` counts poller tasks, `handle` tells whether `_oi_task`
is one of them.  `notice`, `futile` and `overlapped` are history variables:
they record what happened and no guard reads them.

**TickStore.**  An instrument trades at most once in a unit of time, so a trade
is its time, a volume is the set of trades it counts and a day's open, extremes
and opening range are the sets of trades they were taken from.  A bar of history is a bucket
with the trades of it, and `Bars` puts the buckets of a set of trades in order.
`SeedOne` is `_seed_one` with its answers in: `ring` gets the finished bars, `building` is
left alone (`Kept`), the day state is written by `SeedIntradayState`.
`SeedDone` re-baselines all volumes at once; `SeedMissed` is the instrument
throttled to the end.  `Tick` is `_ingest_tick` with `on_tick`, its day change
and the bars it finishes.  A bar is `odd` where the code puts or leaves it
although a seed has its bucket already: a 60m bar merged while its hour is
still forming (a 15m one on the fallback), a bar that was being built when a
seed overtook it, a bar begun by a tick older than the seed.  Both properties
of bars hold for the others; `carried` marks an instrument whose day state a
seed renamed to a new day.

**Contracts.**  A date is a day number; any of the seven weekdays may be the
first of the month and any of six days around the expiries a holiday.
`ShiftOffHoliday` is the loop over preceding days, which ends at the last
trading day up to the nominal expiry; `ContractExpiry` and
`WeeklyExpiry` are the two methods of `ExpiryManager`, `CurrentState` that of
`SessionManager`.  `StartFeed` resolves the contract as the chosen broker's
feed does when it starts.

**FcmDispatcher.**  aiosqlite serves all requests of the one connection by one
thread in the order they were made, and the loop resumes their tasks in the
order they were served.  `line` is that queue and `served` counts the requests
done whose task has not resumed.  A registration and a removal make two
requests (`insert` or `delete`, `commit`), a read two (`select`, `fetch`); the
rows of a read are taken at either.  `shared` tells that a push walks the list
in memory itself (a cache hit returns it, not a copy), and `torn` that it was
emptied between two batches.

**Tape, Structure, Evaluators, SetupGates, Confidence, SetupScan.**  The pure
half of a scan.  A context is a record of the readings the code's `ScanContext`
holds, prices in whole points and shares in percents or hundredths of a percent;
indicator values are readings, not computed from candles.  An operator per
evaluator, gate and term of a score, in the order of the code.  `SetupScan`
puts one input at a time through them: a tape of the indices, a context of an
instrument, a candidate with its context, a series of completed 15m bars.  The
order of candidates and what remembers earlier ones is in `GateChain`.

## 3. Runs

| Run | Configuration | Result |
|---|---|---|
| `engine` | two signals (two-target LEVEL, legacy MARKET), two days, one crash in any phase but the hour after the close, failing inserts | TypeOK, NoLostSignal, SummaryIsComplete, ResolvedInItsSession, refinement of SignalLedger, EventuallyDecided, EventuallySummarised hold |
| `engine_admin` | one maintenance request of any kind and one crash anywhere, outages across phases | DecidedOnce, MarksAgree hold |
| `monitor` | one signal of three plans, every tape of three trades in three minutes after the entry, one restart, late feed | TargetAfterFill, NoInventedTouch, FollowsPlan, StopHonoured, ReplayAgrees hold |
| `gates` | two setups, two instruments of one group, two directions, two scans, two days, one crash, one reset at any await, failing inserts | TypeOK, DailyCaps, NoWhipsaw, CooldownKept, ScanCaps, LoggedOnce, NoneSkipped hold |
| `feed` | one token callback at any await, unbounded crashes, boots and restarts, sockets that fall silent, starts that fail | TypeOK, ActiveFeedIsWhole, LineWatched, SilenceNoticed hold |
| `candles` | two instruments, a session and the start of the next, three trades, two seeds begun at any time and answered in any order or not | InOrder, CountedOnce, DayStateIsToday, DayOpenIsFirst hold |
| `contracts` | twelve days around a monthly expiry, any weekday for the first, any of six days a holiday, either broker, feeds started at any time | ContractIsNearest, ExpiryFlagsRight, HeldIsActive hold |
| `scan` | tapes of three indices, contexts around the levels of every evaluator, candidates of every setup, zigzags of nineteen bars | ShadowNeverOpposes, OneSideOpen, StopsAndTargets, MirrorImage, AlignmentNeverCosts, NoRepaint hold |
| `pushes` | three devices (one the owner's) in batches of two, three pushes or alerts, two registrations, tokens that expire at any time | CacheIsCurrent, EveryDeviceTried hold |
| `resume` | one restart after the fill of a resting entry | NoTargetAfterStop violated |
| `futile` | a feed that every restart leaves mute | FutileRestartsEnd violated |
| `inverted` | the contexts of `scan` for the two setups that do not ask on which side a level lies | StopBelowEntry violated |

### Why the bounds are enough

- *Engine.*  Signals do not interact except through the shared steps of the
  loop (one batch, one summary), which two signals exercise; two days are
  needed for a verdict to fall on the wrong one; a second crash meets the state
  the first one left, since a boot rebuilds memory from the tables alone.
  `EngineProofs` removes these bounds for the safety properties.
- *TradeMonitor.*  Two fine candles in a coarse one are enough for the two
  resolutions to disagree, and fill, first target and end of the runner are
  three trades.  A fourth trade repeats a level already met.
  `TradeMonitorProofs` removes the bounds.
- *GateChain.*  The caps are one or two, so two scans reach and pass them; the
  cooldown is longer than the conflict window so that each is the binding one
  in some behaviour.  A day change and a crash meet in two scans.  With caps of
  one emission per group and setup the total of one scan is bound by them, so
  the scan cap itself is the binding one in no behaviour of this run.
  `GateChainProofs` removes the bounds for all its safety properties.
- *FeedWatchdog.*  Ages are cut at the limits, so only the number of taps (one)
  and of sockets (three: the one held, the one being closed, the one opened) is
  bounded.  Two taps do not finish in a reasonable time.
- *TickStore.*  Eight units are a session of five and the start of the next;
  bars of 15m and 60m hold several units and those of 1m one.  Trades may fall
  in the first, second and last unit of a session (`TradeUnits`), which covers
  a bar's first and last trade, the opening range and the day change; two seeds
  are a start and the refresh at the open.  Rings of two bars make the limit
  bite.  `TickStoreProofs` removes the bounds.
- *Contracts.*  All weekdays and all subsets of the holidays are explored, so
  each month of any year around its expiry is one of the behaviours; the marks
  are the minutes at which a comparison changes.  The month after the first is
  only needed for the contract that follows.  `ContractsProofs` removes the
  bounds.
- *FcmDispatcher.*  A list of three in batches of two has a full and a partial
  batch; two registrations and one push overlap in every way two requests of
  each allow.  `FcmDispatcherProofs` removes the bounds.
- *SetupScan.*  Bars lie on grids of five or seven prices ten points apart
  around the levels; with an ATR of 20 points that is the pad of most stops,
  and two steps are the distance most setups call near, so each comparison
  comes out both ways.  Readings take values on both sides of each threshold.
  `SetupScanProofs` removes the bounds.
  Arithmetic is exact here; contexts in which the rounding of a float decides
  are not explored.

### What the violations show

- `resume`: after a restart the walk falls back to 5m candles but skips those
  that opened before the fill, so a stop inside the fill's 5m candle is lost
  and a later target is credited (`trade_monitor.py:221`).
- `futile`: `start()` writes the tick clock the watchdog reads to see whether
  the last restart revived the feed (`main.py:458`), so the process never gives
  up on a feed that stays mute.
- `inverted`: PCR_EXTREME and OI_SPIKE_REVERSAL take the level nearest to the
  price on either side, up to one ATR away, and put the stop half an ATR behind
  it (`india_scalp.py:655`, `:851`): a level on the wrong side gives a long a
  stop above its entry, and no gate asks for the side.

### Observations without a run

Where the code differs from what one may expect and no line of the repository
says otherwise, or the case is outside the models:

- A first state of CLOSED after a boot skips the close (`main.py:355`) although
  the boot resumed the day's signals: they are decided on the next trading day.
  `ResolvedInItsSession` is therefore checked without crashes after the close.
- A clear-history request while the router writes is followed by the
  registration of the wiped signals (`main.py:399`), whose outcomes then have
  no signal row; reset-gates also drops every tracked signal (`main.py:272`).
  `NoLostSignal` is checked and proved without maintenance requests.
- A reset while the router writes lets the cursor skip the next suppressions of
  the day (`main.py:400`); `NoneSkipped` says it is the only thing that does.
- An alert dropped by its cooldown is not sent later (`owner_alerts.py:38`).
- The seed of the 60m series merges 15m bars of an hour still forming, and the
  live bar of that hour comes after it: the hour appears twice.  The 15m series
  has the same on the fallback to 5m bars.
- A seed that finds candles of a new day before its first tick does renames the
  day state, so that tick does not reset the state of the other instruments
  (`india_tick_store.py:185`); an opening range locked the day before stays
  locked for an instrument the seed missed.
- A feed keeps the contract it resolved at its start (`fyers_feed.py:246`);
  `HeldIsActive` says it is the active one exactly until its roll.  Angel takes
  the nearest expiry not before today, which on an expiry day is the contract
  that ends (`angel_feed.py:245`).
- A weekly expiry that a holiday moved to Monday is still the weekly expiry
  after it is over (`expiry_manager.py:117`); `ExpiryFlagsRight` excepts it.
- A push that walks the list in memory stops early when a registration or a
  removal empties it between two batches (`fcm_dispatcher.py:147`), which takes
  more devices than one batch of 500; `EveryDeviceTried` excepts it.
- The round-number candidates of a first target reach further up than down
  (`india_scalp.py:148`); the pullback setup uses one RSI band for both
  directions; a bar that sweeps both swings, and a gap day with the opening
  range outside yesterday's, are judged as longs first.  `MirrorImage` names
  these among its exceptions (section 4).

### Fairness

`Engine!FairSpec`, `FeedWatchdog!FairSpec`: the event loop keeps running its
coroutines (weak fairness of the loop's steps and of each callback's), docker
boots a dead process (weak fairness of Boot), and time passes (Advance, Elapse).
No fairness is assumed of crashes, failures, ticks, requests or the broker.
`EventuallyDecided` and `EventuallySummarised` are checked without outages
across phases and without a crash in the hour after the close, for the reason
given above.  The other modules state no liveness: what a tick, a seed or a
registration waits for is the broker or a client.

## 4. Proofs

Every theorem rests on the assumptions named in the module of its constants
(`ConstantsAssumption`, `MonitorAssumption`, `GatesAssumption`,
`FeedAssumption`, `StoreAssumption`, `CalendarAssumption`, `WeeksAssumption`,
`DispatcherAssumption`, and for a scan `EvaluatorsAssumption`,
`TapesAssumption`, `BarsAssumption`, `ContextsAssumption`, `InputsAssumption`)
and on nothing else.

**Engine** (`EngineProofs`), for every set of signals, any number of days and
crashes:

- with any maintenance requests: `TypeCorrect`, `OutcomesDecidedOnce`
  (DecidedOnce), `MarksAlwaysAgree` (MarksAgree);
- if `AdminOps = {}`: `NothingIsLost` (NoLostSignal), `SummariesAreComplete`
  (SummaryIsComplete), `StoreImplementsLedger` (every step of the engine is a
  step of `SignalLedger` or leaves it unchanged);
- if moreover no outage ends in a later part of the day than it began in and no
  crash falls after the close: `ResolvedBySameSession` (ResolvedInItsSession).

The inductive invariant `IInv` is TypeOK, `QueueControl` (a queue of writes is
non-empty only at the places of the loop that empty it) and, for each signal,
`SignalInv`, which relates its stage in memory, its outcome in a queue or in
its row, and its marks wherever they are (pending in the monitor, drained but
not written, stored): a signal with a fill mark anywhere is not pending and not
on its way to NOT_TRIGGERED, one with a TP1 mark is banked or no longer tracked
and its outcome is one that keeps the target, and a stored LEVEL signal that is
filled has its fill mark somewhere.  None of the properties is inductive by
itself: whether a mark written late may contradict an outcome depends on what
was queued beside it when the check ran.  `SessionInv` adds what only holds
without maintenance requests: the clock and the loop's place agree
(`ClockControl`), and signals stored on a day are tracked on that day
(`DayInv`).  `ResolvedBySameSession` adds `Settled`: when the day changes
nothing is tracked or queued, so what is tracked or queued was emitted today.

**TradeMonitor** (`TradeMonitorProofs`), for any plans, candle width, deadline,
trades and restarts: `FollowsPlanHolds` (FollowsPlan), `TargetAfterFillHolds`
(TargetAfterFill), `NoInventedTouchHolds` (NoInventedTouch),
`StopHonouredHolds` (StopHonoured), `ReplayAgreesHolds` (ReplayAgrees).  The
walk is a recursive function of the minute it has reached, so what is true of
it is proved by induction on that minute (`Iterates` says that the recursion
has a solution, `UptoInduction` is the induction, both from the well-founded
order of the naturals).  `MarksInv` is the types, `Drained` (a check leaves
no mark unwritten, and memory and row differ only in marks still queued) and `Marks` (a target in memory or in the
row is later than its fill).  `Recorded` says what the candles have to do with
the market: a fine candle shows no price that was not traded, none before the
feed was started and, once closed, all that was traded since; without it a walk
over candles says nothing of the tape.  `Seen` then follows any mark or outcome
to the trade that made it, through a restart that changes the resolution.
StopHonoured is about one step and still needs a history: `Cleared` says that a
target banked by an earlier check, perhaps on a half-formed candle, had no stop
before it, so that the walk that sees the stop cannot have been past it.
ReplayAgrees needs `ClosedMarks`: without a restart, after checks on closed
candles only, what memory holds is the state of the walk over the tape at some
minute; the rest is that a walk from that state agrees with the one from
scratch.

`RowImplementsLedger` is the refinement: the stored row, seen as the one stored
signal of a `SignalLedger` of all plans, starts absent or freshly stored, and
every step of the monitor is a step of the ledger or leaves it unchanged.  The
invariant beside `MarksInv` is `Agreed`: a decision on its way to the store is
one that may follow the marks of the row (`Ledger!Follows`), and the row has an
outcome only behind the write of it.  It rests on `Drained`: a check begins
with the stage of the row in memory, after a resume as well, whatever stage a
dead process had reached.  The outcome is written before the marks of the same
check, so a row may go from PENDING to an outcome that implies both; the ledger
says which outcomes those are.

**GateChain** (`GateChainProofs`), for any setups, instruments, directions,
limits and bounds: `GatesTypeCorrect` (TypeOK), `NeverWhipsawed` (NoWhipsaw),
`CooldownAlwaysKept` (CooldownKept), `NeverLoggedTwice` (LoggedOnce) and
`CursorSkipsNone` (NoneSkipped).  `Typed` adds to the types that nothing is
dated in the future and that the router's queues are empty when it does not
work.  The two properties of rows follow from `Memory` (while the process is
up, the last fire of a setup and the last direction of a base are as recent as
every known signal of the day, a boot included), `Judged` (a candidate of the present scan was let through by that
memory) and `Apart` (any two known signals keep their distance).  Neither is
inductive by itself: a crash forgets everything, and whether the rows give
enough back depends on which inserts failed.  `Cursor` relates the serial
numbers behind the cursor, in the router's hands and in the store.

`DailyCapsAlwaysHold` (DailyCaps) and `ScanCapsAlwaysHold` (ScanCaps) are
proved by counting.  A cap is on the signals of some kind, and
`Held` is how many of a kind are stored or in flight, between the scan that
emits them and the router's insert.  No step but an emission makes it larger
(`HeldEmitted`, `HeldRouted`, `HeldStep`), and the counters of a live process
are never below it (`CountersKnow`), after a boot because they are read back
from the rows.  In a scan every signal of the kind is still in flight when the
next candidate is judged (`ScanInFlight`).

**FeedWatchdog** (`FeedWatchdogProofs`), for any number of token callbacks and
sockets and any limits: `FeedTypeCorrect` (TypeOK); `LineAlwaysWatched`
(LineWatched), which is inductive as it stands; `ActiveFeedAlwaysWhole`
(ActiveFeedIsWhole); and `NeverGivesUp`, the cause of what the run `futile`
shows: the count of restarts in a row never exceeds the limit, so the process
never exits by itself.  ActiveFeedIsWhole is not inductive, because it says
nothing of a feed being stopped or started; `FeedInv` adds that a process that
is down has no feed and, while no two tasks have been at it at once, that the
one at work finds the feed marked inactive and without a poller (`Alone`,
`OnePoller`).  `NeverGivesUp` rests on `RevivedByStart`: whenever the loop is
not between a verdict and the end of the restart it ordered, the tick clock is
newer than the last restart.

**TickStore** (`TickStoreProofs`), for any instruments, timeframes, widths of
bars, sessions, ring sizes, trades and seeds: `BarsInOrder` (InOrder),
`TradesCountedOnce` (CountedOnce), `DayStateHolds` (DayStateIsToday) and
`DayOpenHolds` (DayOpenIsFirst).  The invariant `StoreInv` is `TypeOK`,
`SeedInv` (a seed in progress began on this day, and with an open socket at the
open), `DayInv` and `BarsInv`.  Bars are ordered in pairs: `Fits` says of two bars,
the earlier one in the ring or the one being built, that unless one is odd they
begin in order and share no trade.  That is not inductive, because the bar a
tick adds or grows must fit those before it: `CountedInv` says that what is
counted is a day up to some trade, so a delta is only of newer trades;
`VolumeInv` that a trade in a bar is `Accounted` for: counted, from before the
seed of the open, or there is no baseline the next tick would use; `RingInv`
and `BuildingInv` that a finished bar is older than a seed or than a later
trade, and a bar being built that is older than its seed is odd
(`SeededBefore`).  The last is what a tick from before the re-baseline of a seed
comes to: its volume is in the seeded bars already.  Buckets and days are
arithmetic (`BucketIs`, `BucketsGoOn`); that a finite set can be put in order
(`InOrderExists`) is proved by the least counterexample of its cardinality.

**Contracts** (`ContractsProofs`), for any calendar whose months have 28 to 31
days, any holidays, any days and minutes: `ActiveContractIsNearest`
(ContractIsNearest), `FlagsAreRight` (ExpiryFlagsRight), `HeldUntilOver`
(HeldIsActive).  `WeeksAssumption` says that a trading day lies in the week up
to each day an expiry is due, as in every year of the exchange; without it the
loop over preceding days can leave the month.  `CalendarAssumption` includes
that the roll hour (`EXPIRY_ROLL_HOUR`, 9) is after midnight and not after the
hour of the open (9:15): a roll after the open would leave signals on a
contract that ends that day.  An expiry lies in its month (`ExpiryInMonth`) and
is the only one of the exchange's rule there, so expiries ascend with the
months.  The first two properties hold in every state of the right types.  The
third needs `NeverAhead`: all contracts nearer than the one held are over,
which the clock keeps, as what is over stays so.

**FcmDispatcher** (`FcmDispatcherProofs`), for any devices, batch size and
number of registrations and pushes: `ListAlwaysCurrent` (CacheIsCurrent) and
`EveryDeviceAlwaysTried` (EveryDeviceTried).  Nothing locks the list in memory.
It is current because of the queue: a device that the read of a push missed
has its own request behind the push (`ReadIsRecent`), so it empties the list
after the push has filled it; a device that registers while its row is being
deleted is ahead of the deletion's return (`Rowless`).  The lemmas `Joins`,
`Leaves`, `Rotated` and `NextIsServed` say what the order of the queue becomes
when a task asks, resumes, asks again, or is served.  `OnItsWay` adds that what
a push owes is tried, in its batch, or in what the list still holds.

**SetupScan** (`SetupScanProofs`), for any tapes, bars, contexts and candidates:
`LabelsNeverOppose` (ShadowNeverOpposes), `OneSideStaysOpen` (OneSideOpen),
`BreaksDoNotRepaint` (NoRepaint), `CandidatesAreSound` (StopsAndTargets),
`AlignmentIsFree` (AlignmentNeverCosts) and `HalvesMirror` (MirrorImage).  The first two are proved from the
votes: both rules count votes of the same readings, and the gates let a side
through unless a vote is against it.  The third rests on a break being a
function of the bars up to its own.  `CandidatesAreSound` has one lemma per
evaluator, from the comparisons that let it draw up a candidate to the side of
its stop and its targets.  The set `Contexts` says what those need of a context
and every one of the code has: a candle reaches from its low to its high, the
recent extremes include the last bar, the bands lie about their mean, an
average ends a bar between its value before and the close, a fast one after a
larger part of the way.  Targets among several levels are least elements
(`Least`, `ListedExtremes`), and the level book's clusters are typed by
induction on their size (`SumTyped`).  `AlignmentIsFree` compares the scores
term by term before and after the turn of the market (`SamePoints`,
`MorePoints`, `OtherPoints`) and then their sums, the best terms of the second
score included.

`HalvesMirror` says that the long and the short half of each evaluator, and of
each term of the scores, are one another's reflection, although the code writes
them twice.  A context is reflected in twice the price the setup would enter at
(`AxisOf`), so that shares of the entry are kept.  `Mirrored` says what two
contexts must have in common for that, `Twins` what the two candidates then
are to each other; both are relations, not functions, so that a lemma about
one helper applies to either half.  The proof goes through the helpers (swings,
rejections, nearest and least levels, second targets, the level book and its
clusters), then through the evaluators.  Each has a lemma that gives its result
as a function of a direction and of what it reads (`OrbIs`, `PcrIs`, ...), one
that reflects that function (`OrbToFlips`, ...) and one that reflects the
order in which the two sides are tried.  The first-of-a-list rules are where
that is hard: the nearest level of a list need not be the nearest of the
reflected list when two are as near, and the proof says when it is
(`NearestAt`, `SpikeLists`).  For the scores every term is shown to stand
(`TrendPointsStand`, `StructurePointsStand`, `ConfluencePointsStand`, ...).

Where the halves do differ, `MirrorImage` names it, and each clause was needed
by the proof:

- sides tried in an order, when a bar asks for both (`BothSides`,
  `BreaksBothWays`); the second is why a score with such a bar is left out;
- the setups or readings that are one-sided (`Lopsided`): the fear spike is
  bought only, the pullback is judged by one RSI band in both directions, a
  flip may be configured to be sold only, and halfway between two round numbers
  the lower one is listed first;
- prices that stand for none at zero (`Quoted`), cluster averages rounded down
  (`SameBook`), a stop judged as a share of an entry that is not the axis
  (`Refits`);
- targets on the grid of round numbers, which reaches further up than down
  (`OnGrid`), and a second target among two levels as far from where it is
  sought (`SameSecond`): the two halves then agree on all but the targets, or
  are only as far.

### How induction is done

The library's induction theorems take an operator and cannot be used.  What is
proved for every number here (the walk of TradeMonitor, the order of bars, the
sums of levels, the months) is instead proved by a least counterexample: a
non-empty set of naturals has a least element (`LeastNatural`, from
`WFMin`), and the step shows that it has a smaller one.

### Only model-checked

The liveness properties and everything that rests on fairness or ENABLED
(SilenceNoticed, EventuallyDecided, EventuallySummarised).  The three
properties whose runs expect a violation are false of the code.  All invariants
and action properties of the passing runs are proved.

## 5. Not modelled

- Indicators (averages, ATR, RSI, ADX, bands), the regime classifier over them
  and the market profile: float series without a crisp contract.  The models
  take their values as readings.
- The stores of OI, market data and macro values, the strategy edge and the
  allocator: they are read into a context, which the models enumerate, and the
  allocator decides nothing unless it is armed.
- Points, R multiples and excursions of a signal; texts of notifications; the
  read endpoints, the column migration, the backup and the logs.
- Two callbacks racing a watchdog restart: `LineWatched` holds there too, but
  `ActiveFeedIsWhole` and `SilenceNoticed` speak of behaviours in which at most
  one task is in `stop()` or `start()`.  With an overlap the feed can end up
  with a second poller, a closed client or a start that fails.
- In TickStore: a crash (memory starts empty, which is `Init`), the pre-open
  auction, two seeds at once, the previous-session levels and the daily regime.
- In FcmDispatcher: a commit that fails, a crash in the middle of a
  registration (the list in memory starts empty again).
- A crash between two deletes of clear-history.
- Health-check timing: a kill is possible at any step instead.
- The Angel One feed beyond its choice of the contract; the operations tools,
  which run outside the engine.

## 6. Plan

1. Stores with a time to live together with the thread that updates them.
2. The health check's timing, with a clock that relates one iteration of the
   loop to the next.
3. Two callbacks racing a watchdog restart with a poller of their own each, and
   what `SilenceNoticed` may still promise then.
