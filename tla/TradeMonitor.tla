---------------------------- MODULE TradeMonitor ----------------------------
(***************************************************************************)
(* One signal under the trade monitor, with its prices: the candles it is  *)
(* walked over, while they form and after a restart that lost the 1m ring, *)
(* the marks and the outcome that reach the store, and the resume from     *)
(* them.  Code: src/src/trade_monitor.py over the candles of               *)
(* src/src/data/india_tick_store.py, polled by src/src/main.py.            *)
(*                                                                         *)
(* Time is counted in minutes.  The signal is registered inside minute 0,  *)
(* and everything that happens in a minute happens after its start, so a   *)
(* candle opens at or after an instant inside minute m when its ts > m.    *)
(***************************************************************************)
EXTENDS Integers, FiniteSetsExt

CONSTANTS
  Plans,         \* the kinds of signal explored
  BlockLen,      \* minutes in a candle of the coarse (5m) timeframe
  Expiry,        \* ENTRY_TRIGGER_EXPIRY_MIN
  MaxMinute, MaxTicks, MaxRestarts   \* bounds of the exploration

\* tp2 = 0 is the legacy single-target signal.
AllPlans == [long : BOOLEAN, level : BOOLEAN, legacy : BOOLEAN]

ASSUME MonitorAssumption ==
  /\ Plans \subseteq AllPlans
  /\ BlockLen \in Nat \ {0} /\ Expiry \in Nat
  /\ MaxMinute \in Nat /\ MaxTicks \in Nat /\ MaxRestarts \in Nat

INSTANCE SignalPlan

VARIABLES
  plan,        \* direction, entry type and targets of the signal
  now,         \* the current minute
  tape, ticks, \* the traded range of each minute, and how many trades so far
  fine,        \* the 1m candles built from the ticks this process received
  seededAt,    \* minute of the feed's start, NoMark before it
  registered, triggered, banked,   \* TrackedSignal: registered_at and marks
  decision,    \* outcome returned by check, Undecided while tracked
  pendingTrigger, pendingTp1,      \* marks not yet drained
  row,         \* what the store holds: created_at, the marks, the outcome
  pc, restarts,
  onClosedBars \* TRUE while every check found the forming minute without a tick

market == <<plan, now, tape, ticks>>
candles == <<fine, seededAt>>
tracked == <<registered, triggered, banked, decision>>
queues == <<pendingTrigger, pendingTp1>>
vars == <<plan, now, tape, ticks, fine, seededAt, registered, triggered, banked,
          decision, pendingTrigger, pendingTp1, row, pc, restarts, onClosedBars>>

NoMark == -1
Minutes == 0..MaxMinute
Times == Minutes \cup {NoMark}

(***************************************************************************)
(* Prices are what the plan tells apart, in the order a long trade meets   *)
(* them; a short trade meets the same prices upside down.                  *)
(***************************************************************************)
Sl == 1
Entry == 2
Be == 3
Tp1 == 4
Tp2 == 5
Prices == Sl..Tp2
Price(p) == IF plan.long THEN p ELSE Sl + Tp2 - p

\* A candle without a tick is the empty range.
NoBar == [low |-> Tp2 + 1, high |-> Sl - 1]
Bars == {b \in [low : Prices, high : Prices] : b.low <= b.high} \cup {NoBar}
Traded(b) == b.low <= b.high
Span(bars) == [low |-> Min({b.low : b \in bars}), high |-> Max({b.high : b \in bars})]

\* The candle trades at p or at a price less, or more, favourable than p.
Adverse(c, p) == IF plan.long THEN c.low <= Price(p) ELSE c.high >= Price(p)
Favourable(c, p) == IF plan.long THEN c.high >= Price(p) ELSE c.low <= Price(p)
Touches(c, p) == Adverse(c, p) /\ Favourable(c, p)

\* The candle of minute m.
Candle(m, b) == [ts |-> m, low |-> b.low, high |-> b.high]

(***************************************************************************)
(* walk_signal, one candle at a time.  A walk carries the two marks and    *)
(* the decision; the telemetry it also gathers is left out.                *)
(***************************************************************************)
Deadline == registered + Expiry
Waiting(w) == plan.level /\ w.triggered = NoMark

\* An entry not yet filled is cancelled when the stop or the target comes
\* first, or the deadline has passed.
StepPending(w, c) ==
  IF Adverse(c, Sl) \/ Favourable(c, Tp1) \/ c.ts > Deadline
  THEN [w EXCEPT !.decision = NotTriggered] ELSE w

\* On the fill candle only the stop counts.
StepFill(w, c) == IF Adverse(c, Sl) THEN [w EXCEPT !.decision = "SL_HIT"] ELSE w

\* Mutation: a legacy signal banks its only target.
StepLiveBanksLegacy(w, c) ==
  IF Adverse(c, Sl) THEN [w EXCEPT !.decision = "SL_HIT"]
  ELSE IF ~Favourable(c, Tp1) THEN w ELSE [w EXCEPT !.banked = c.ts]

\* The stop wins a candle that touches both.
StepLive(w, c) ==
  IF Adverse(c, Sl) THEN [w EXCEPT !.decision = "SL_HIT"]
  ELSE IF ~Favourable(c, Tp1) THEN w
  ELSE IF plan.legacy THEN [w EXCEPT !.decision = "TP1_HIT"]
  ELSE [w EXCEPT !.banked = c.ts]

StepRunner(w, c) ==
  IF Adverse(c, Be) THEN [w EXCEPT !.decision = "TP1_BE"]
  ELSE IF Favourable(c, Tp2) THEN [w EXCEPT !.decision = "TP2_HIT"] ELSE w

\* Mutation: a re-walk forgets which candle filled the entry.
NoFillCandle(w, c) == FALSE

\* The candle that filled a resting entry, on this walk or an earlier one.
FillCandle(w, c) == plan.level /\ c.ts = w.triggered

\* Mutation: the candle that banked the target is walked for the runner.
IgnoredBeforeTouch(w, c) ==
  \/ w.decision # Undecided
  \/ plan.level /\ c.ts < w.triggered
  \/ ~Waiting(w) /\ ~FillCandle(w, c) /\ c.ts < w.banked

\* Candles before the fill are ignored, and those up to the banked target.
Ignored(w, c) ==
  \/ w.decision # Undecided
  \/ plan.level /\ c.ts < w.triggered
  \/ ~Waiting(w) /\ ~FillCandle(w, c) /\ c.ts <= w.banked

Step(w, c) ==
  IF Ignored(w, c) THEN w
  ELSE IF Waiting(w) /\ ~Touches(c, Entry) THEN StepPending(w, c)
  ELSE IF Waiting(w) \/ FillCandle(w, c)
  THEN StepFill([w EXCEPT !.triggered = c.ts], c)
  ELSE IF w.banked = NoMark THEN StepLive(w, c) ELSE StepRunner(w, c)

\* The candles of a window are walked in the order of their minutes: what the
\* walk has come to after those that start before minute n.
Walked(w, window) ==
  LET Upto[n \in 0..(MaxMinute + 1)] ==
        IF n = 0 THEN w
        ELSE IF Traded(window[n - 1]) THEN Step(Upto[n - 1], Candle(n - 1, window[n - 1]))
        ELSE Upto[n - 1]
  IN  Upto
Walk(w, window) == Walked(w, window)[MaxMinute + 1]

(***************************************************************************)
(* The candles.                                                            *)
(***************************************************************************)
\* A coarse candle: from the broker's history when it was complete at the
\* feed's start, from the ticks received since otherwise.
Starts == {m \in Minutes : m % BlockLen = 0}
BlockOf(m) == m - (m % BlockLen)
Source(m) == IF m < BlockOf(seededAt) THEN tape ELSE fine
Coarse(m) == Span({Source(m)[i] : i \in m..(m + BlockLen - 1) \cap Minutes})

\* The 1m ring reaches back to the registration, and has candles since.
ReachesBack == \E m \in Minutes : m <= registered + 1 /\ Traded(fine[m])
HasCandles == \E m \in Minutes : m > registered /\ Traded(fine[m])
OnFine == ReachesBack /\ HasCandles

\* Mutation: the window starts with the candle the signal appeared in.
WindowFromItsOwnBar ==
  [m \in Minutes |->
     IF OnFine THEN IF m >= registered THEN fine[m] ELSE NoBar
     ELSE IF seededAt # NoMark /\ m \in Starts /\ m >= BlockOf(registered)
     THEN Coarse(m) ELSE NoBar]

\* Mutation: the first whole candle after the registration is left out.
WindowSkipsOne ==
  [m \in Minutes |->
     IF OnFine THEN IF m > registered + 1 THEN fine[m] ELSE NoBar
     ELSE IF seededAt # NoMark /\ m \in Starts /\ m > registered + 1
     THEN Coarse(m) ELSE NoBar]

\* _candles_for, the candle that starts in each minute: 1m if the ring reaches
\* back to the registration, else 5m.
Window ==
  [m \in Minutes |->
     IF OnFine THEN IF m > registered THEN fine[m] ELSE NoBar
     ELSE IF seededAt # NoMark /\ m \in Starts /\ m > registered
     THEN Coarse(m) ELSE NoBar]

(***************************************************************************)
(* The market.                                                             *)
(***************************************************************************)
Extend(b, p) == Span({b, [low |-> p, high |-> p]})

\* A trade; the process builds its candle when its feed is up.
Tick(p) ==
  /\ row.outcome = Undecided /\ ticks < MaxTicks
  /\ ticks' = ticks + 1
  /\ tape' = [tape EXCEPT ![now] = Extend(@, p)]
  /\ fine' = IF seededAt = NoMark THEN fine ELSE [fine EXCEPT ![now] = Extend(@, p)]
  /\ tape' # tape \/ fine' # fine
  /\ UNCHANGED <<plan, now, seededAt, tracked, queues, row, pc, restarts, onClosedBars>>

NextMinute ==
  /\ row.outcome = Undecided
  /\ now < MaxMinute
  /\ now' = now + 1
  /\ UNCHANGED <<plan, tape, ticks, candles, tracked, queues, row, pc, restarts, onClosedBars>>

(***************************************************************************)
(* The monitor, driven by the main loop.                                   *)
(***************************************************************************)
Stored == row.created <= now
WalkState == [triggered |-> triggered, banked |-> banked, decision |-> Undecided]

\* check: the wall clock cancels an entry whose deadline passed without a
\* candle.  Within the deadline's minute it may or may not have passed.
Check ==
  /\ pc = "idle" /\ Stored
  /\ LET w == Walk(WalkState, Window)
         late == {l \in BOOLEAN : (now > Deadline => l) /\ (now < Deadline => ~l)}
     IN  /\ triggered' = w.triggered
         /\ banked' = w.banked
         /\ \E l \in late :
              decision' = IF w.decision = Undecided /\ Waiting(w) /\ l
                          THEN NotTriggered ELSE w.decision
  /\ pendingTrigger' = (triggered' # triggered)
  /\ pendingTp1' = (banked' # banked)
  /\ onClosedBars' = (onClosedBars /\ ~Traded(fine[now]))
  /\ pc' = "outcome"
  /\ UNCHANGED <<market, candles, registered, row, restarts>>

StageOf(t, b) ==
  IF plan.level /\ t = NoMark THEN Pending ELSE IF b # NoMark THEN Banked ELSE Live

\* force_close_all, at the end of the session.
ForceClose ==
  /\ pc = "idle" /\ Stored
  /\ decision' = ForcedOutcome(StageOf(triggered, banked))
  /\ pc' = "outcome"
  /\ UNCHANGED <<market, candles, registered, triggered, banked, queues, row,
                 restarts, onClosedBars>>

\* insert_outcome, for a decided signal.
PersistOutcome ==
  /\ pc = "outcome"
  /\ row' = [row EXCEPT !.outcome = decision]
  /\ pc' = "trigger"
  /\ UNCHANGED <<market, candles, tracked, queues, restarts, onClosedBars>>

MarkTriggered ==
  /\ pc = "trigger"
  /\ row' = IF pendingTrigger /\ row.triggered = NoMark
            THEN [row EXCEPT !.triggered = triggered] ELSE row
  /\ pendingTrigger' = FALSE
  /\ pc' = "tp1"
  /\ UNCHANGED <<market, candles, tracked, pendingTp1, restarts, onClosedBars>>

MarkTp1Touched ==
  /\ pc = "tp1"
  /\ row' = IF pendingTp1 /\ row.banked = NoMark
            THEN [row EXCEPT !.banked = banked] ELSE row
  /\ pendingTp1' = FALSE
  /\ pc' = IF decision = Undecided THEN "idle" ELSE "done"
  /\ UNCHANGED <<market, candles, tracked, pendingTrigger, restarts, onClosedBars>>

(***************************************************************************)
(* Crash and restart.                                                      *)
(***************************************************************************)
NoFine == [m \in Minutes |-> NoBar]

Crash ==
  /\ pc \notin {"down", "done"} /\ Stored
  /\ restarts < MaxRestarts
  /\ restarts' = restarts + 1
  /\ pc' = "down"
  /\ fine' = NoFine /\ seededAt' = NoMark
  /\ registered' = 0 /\ triggered' = NoMark /\ banked' = NoMark
  /\ decision' = Undecided
  /\ pendingTrigger' = FALSE /\ pendingTp1' = FALSE
  /\ UNCHANGED <<market, row, onClosedBars>>

\* resume, for a row without an outcome.
Resume ==
  /\ pc = "down"
  /\ row.outcome = Undecided
  /\ registered' = row.created
  /\ triggered' = row.triggered
  /\ banked' = row.banked
  /\ pc' = "idle"
  /\ UNCHANGED <<market, candles, decision, queues, row, restarts, onClosedBars>>

\* The feed of the restarted process: it seeds the coarse candles and starts
\* to receive ticks, now or when a token arrives.
FeedStart ==
  /\ pc # "down" /\ seededAt = NoMark
  /\ row.outcome = Undecided
  /\ seededAt' = now
  /\ UNCHANGED <<market, fine, tracked, queues, row, pc, restarts, onClosedBars>>

(***************************************************************************)
(* The specification.  The signal's own minute has traded at its entry.    *)
(***************************************************************************)
Init ==
  /\ plan \in Plans
  /\ now = 0 /\ ticks = 0
  /\ tape = [NoFine EXCEPT ![0] = [low |-> Price(Entry), high |-> Price(Entry)]]
  /\ fine = tape /\ seededAt = 0
  /\ registered = 0 /\ triggered = NoMark /\ banked = NoMark /\ decision = Undecided
  /\ pendingTrigger = FALSE /\ pendingTp1 = FALSE
  /\ \E created \in {0, 1} :
       row = [created |-> created, triggered |-> NoMark, banked |-> NoMark,
              outcome |-> Undecided]
  /\ pc = "idle" /\ restarts = 0 /\ onClosedBars = TRUE

Next ==
  \/ \E p \in Prices : Tick(p)
  \/ NextMinute \/ Check \/ ForceClose
  \/ PersistOutcome \/ MarkTriggered \/ MarkTp1Touched
  \/ Crash \/ Resume \/ FeedStart

Spec == Init /\ [][Next]_vars
-----------------------------------------------------------------------------
(***************************************************************************)
(* Properties.                                                             *)
(***************************************************************************)
\* Whatever the candles, a check makes of a signal's stage one of the results
\* the plan allows: the price-free plan that Engine uses is an abstraction of
\* the walk, half-formed candles, the 5m fallback and restarts included.
FollowsPlan ==
  [][Check => <<StageOf(triggered', banked'), decision'>>
                \in WalkFrom(StageOf(triggered, banked), plan.level, plan.legacy)]_vars

\* The first target is banked on a candle after the one that filled the entry,
\* in memory and in the store.
TargetAfterFill ==
  plan.level =>
    /\ banked # NoMark => triggered # NoMark /\ triggered < banked
    /\ row.banked # NoMark => row.triggered # NoMark /\ row.triggered < row.banked

\* A recorded result was really reached by the market after the registration,
\* the second target in a later minute than the first.
NoInventedTouch ==
  LET target == {m \in 1..MaxMinute : Favourable(tape[m], Tp1)} IN
    /\ row.outcome \in BankedOutcomes \cup {"TP1_HIT"} => target # {}
    /\ row.outcome = "SL_HIT" => \E m \in 1..MaxMinute : Adverse(tape[m], Sl)
    /\ row.outcome = "TP2_HIT" =>
         \E i \in target, m \in 1..MaxMinute : i < m /\ Favourable(tape[m], Tp2)

\* After the fill and before the first target the market traded at the stop.
StoppedOnTape(fill) ==
  \E m \in (fill + 1)..MaxMinute :
     /\ Adverse(tape[m], Sl)
     /\ \A i \in (fill + 1)..m : ~Favourable(tape[i], Tp1)

\* In a process that has tracked the signal since it was emitted, the first
\* check that can see such a stop resolves the signal as stopped, whether or not
\* the candles were complete when it looked.
StopHonoured ==
  [][Check /\ restarts = 0 /\ (plan.level => triggered' # NoMark)
       /\ StoppedOnTape(IF plan.level THEN triggered' ELSE 0)
     => decision' = "SL_HIT"]_vars

\* The ledger credits no target to a filled trade that was stopped before it,
\* restarts included.
NoTargetAfterStop ==
  plan.level /\ row.triggered # NoMark
    /\ (row.banked # NoMark \/ row.outcome \in {"TP1_HIT", "TP1_BE", "TP2_HIT"})
  => ~StoppedOnTape(row.triggered)

\* "Stateless re-walk": checks that never saw a half-formed candle come to what
\* one walk over the whole window from scratch comes to, as tools/replay does.
ReplayAgrees ==
  [][Check /\ onClosedBars' /\ restarts = 0 =>
       LET fresh == Walk([WalkState EXCEPT !.triggered = NoMark, !.banked = NoMark],
                         Window)
       IN  /\ fresh.triggered = triggered' /\ fresh.banked = banked'
           /\ fresh.decision \in {decision', Undecided}
           /\ fresh.decision = Undecided => decision' \in {Undecided, NotTriggered}]_vars
=============================================================================
