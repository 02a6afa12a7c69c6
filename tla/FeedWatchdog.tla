---------------------------- MODULE FeedWatchdog ----------------------------
(***************************************************************************)
(* The life of the market-data feed: its start, stop and restart by three  *)
(* coroutines of one event loop (the boot, the watchdog of the main loop   *)
(* and the owner's token callback), the socket and the OI poller it runs,  *)
(* and the alerts that tell the owner when it is silent.                   *)
(* Code: src/src/main.py, src/src/broker/fyers_feed.py,                    *)
(* src/src/owner_alerts.py.                                                *)
(*                                                                         *)
(* Code between two awaits is one step.  Times are ages, counted in slices *)
(* and held at the largest value any guard tells apart.                    *)
(***************************************************************************)
EXTENDS Integers, FiniteSets

CONSTANTS
  Taps,             \* token callbacks that may be in progress at once
  Sockets,          \* identities of the broker sockets of one process
  StallAfter,       \* FEED_STALL_RESTART_SEC
  RestartCooldown,  \* FEED_RESTART_COOLDOWN_SEC
  SuicideAfter,     \* FEED_SUICIDE_AFTER_RESTARTS, 0 = never
  StartMayFail,     \* whether a start may raise by itself
  MaxTaps           \* bound of the exploration

Loop == "LOOP"              \* the main coroutine, which also boots the feed
Tasks == Taps \cup {Loop}
NoSocket == "NO_SOCKET"
Never == -1                 \* market_live_since = None
Kinds == {"feed_stall", "feed_down", "no_feed_at_open"}

ASSUME FeedAssumption ==
  /\ IsFiniteSet(Taps) /\ Loop \notin Taps
  /\ IsFiniteSet(Sockets) /\ NoSocket \notin Sockets
  /\ StallAfter \in Nat \ {0} /\ RestartCooldown \in Nat \ {0}
  /\ SuicideAfter \in Nat
  /\ StartMayFail \in BOOLEAN
  /\ MaxTaps \in Nat

VARIABLES
  phase,       \* the session: "SHUT", "OPEN" or "CLOSING"
  loop, seen,  \* what the main coroutine does; phase its last iteration saw
  task,        \* where each task is in stop() and start()
  held,        \* the socket a stop() is closing
  running,     \* _running
  http,        \* _http: "none", "open" or "closed"
  ws,          \* _ws
  sockets,     \* sockets that are open
  delivering,  \* those of them that deliver ticks
  pollers,     \* OI pollers alive
  handle,      \* whether _oi_task is one of them
  feedActive,  \* feed_active
  quiet,       \* age of _last_tick_mono
  sinceRestart,\* age of last_feed_restart
  liveFor,     \* age of market_live_since, or Never
  tickNewer,   \* _last_tick_mono is later than last_feed_restart
  count,       \* consecutive_stall_restarts
  muted,       \* alert kinds inside their cooldown
  notice,      \* since the last tick: the owner was "told", by an alert or the
               \* error page, or an alert was "swallowed" by its cooldown
  futile,      \* watchdog restarts since a tick
  overlapped,  \* two tasks were inside stop() or start() at once
  taps

sessionVars == <<phase, seen>>
taskVars == <<task, held>>
socketVars == <<ws, sockets, delivering>>
pollerVars == <<pollers, handle>>
clockVars == <<quiet, sinceRestart, liveFor, tickNewer>>
alertVars == <<muted, notice>>
vars == <<phase, loop, seen, task, held, running, http, ws, sockets, delivering,
          pollers, handle, feedActive, quiet, sinceRestart, liveFor, tickNewer,
          count, muted, notice, futile, overlapped, taps>>

Up == loop \notin {"down", "boot"}
Idle == \A t \in Tasks : task[t] = "idle"
Serving == running /\ delivering # {}

(***************************************************************************)
(* The market, the broker and the clock.                                   *)
(***************************************************************************)
Older(age, most) == IF age < most THEN age + 1 ELSE age

Elapse ==
  /\ quiet' = Older(quiet, StallAfter + 1)
  /\ sinceRestart' = Older(sinceRestart, RestartCooldown)
  /\ liveFor' = IF liveFor = Never THEN Never ELSE Older(liveFor, StallAfter + 1)
  /\ UNCHANGED <<sessionVars, loop, taskVars, running, http, socketVars,
                 pollerVars, feedActive, tickNewer, count, alertVars, futile,
                 overlapped, taps>>

\* Phases are far longer than an iteration, so a running loop sees each of
\* them, and a night is longer than the alerts' cooldown.
PhaseChange ==
  /\ loop # "down" => seen = phase
  /\ phase' = [SHUT |-> "OPEN", OPEN |-> "CLOSING", CLOSING |-> "SHUT"][phase]
  /\ notice' = "none"
  /\ muted' = IF phase = "SHUT" THEN {} ELSE muted
  /\ UNCHANGED <<loop, seen, taskVars, running, http, socketVars, pollerVars,
                 feedActive, clockVars, count, futile, overlapped, taps>>

\* A tick that reaches _process_tick.
Tick ==
  /\ Serving
  /\ quiet' = 0 /\ tickNewer' = TRUE
  /\ futile' = 0 /\ notice' = "none"
  /\ UNCHANGED <<sessionVars, loop, taskVars, running, http, socketVars,
                 pollerVars, feedActive, sinceRestart, liveFor, count, muted,
                 overlapped, taps>>

\* A socket goes silent, or the SDK reconnects it.
LineChange(i) ==
  /\ i \in sockets
  /\ delivering' = IF i \in delivering THEN delivering \ {i} ELSE delivering \cup {i}
  /\ UNCHANGED <<sessionVars, loop, taskVars, running, http, ws, sockets,
                 pollerVars, feedActive, clockVars, count, alertVars, futile,
                 overlapped, taps>>

\* Mutation: a poller that has left its loop is taken for a running one.
PollerEndsUnnoticed ==
  /\ ~running /\ pollers > 0
  /\ pollers' = pollers - 1
  /\ UNCHANGED <<sessionVars, loop, taskVars, running, http, socketVars, handle,
                 feedActive, clockVars, count, alertVars, futile, overlapped,
                 taps>>

\* A poller wakes up, reads _running and leaves its loop.
PollerEnds ==
  /\ ~running
  /\ \/ handle /\ handle' = FALSE
     \/ pollers > (IF handle THEN 1 ELSE 0) /\ handle' = handle
  /\ pollers' = pollers - 1
  /\ UNCHANGED <<sessionVars, loop, taskVars, running, http, socketVars,
                 feedActive, clockVars, count, alertVars, futile, overlapped,
                 taps>>

(***************************************************************************)
(* Alerts.                                                                 *)
(***************************************************************************)
\* owner_alerts.alert: the first of its kind within the cooldown is sent.
Alert(kind) ==
  /\ muted' = muted \cup {kind}
  /\ notice' = IF kind \notin muted \/ notice = "told" THEN "told" ELSE "swallowed"

CooldownOver(kind) ==
  /\ kind \in muted
  /\ muted' = muted \ {kind}
  /\ UNCHANGED <<sessionVars, loop, taskVars, running, http, socketVars,
                 pollerVars, feedActive, clockVars, count, notice, futile,
                 overlapped, taps>>

(***************************************************************************)
(* stop() and start(), by any task.                                        *)
(***************************************************************************)
\* Mutation: the poller is left running.
StopBeginsWithoutCancel(t) ==
  /\ running' = FALSE
  /\ UNCHANGED pollerVars
  /\ IF ws = NoSocket
     THEN /\ http' = IF http = "open" THEN "closed" ELSE http
          /\ task' = [task EXCEPT ![t] = "closing"]
          /\ UNCHANGED held
     ELSE /\ held' = [held EXCEPT ![t] = ws]
          /\ task' = [task EXCEPT ![t] = "joining"]
          /\ UNCHANGED http

\* stop up to its first await: the poller whose handle is known is cancelled.
StopBegins(t) ==
  /\ running' = FALSE
  /\ pollers' = IF handle THEN pollers - 1 ELSE pollers
  /\ handle' = FALSE
  /\ IF ws = NoSocket
     THEN /\ http' = IF http = "open" THEN "closed" ELSE http
          /\ task' = [task EXCEPT ![t] = "closing"]
          /\ UNCHANGED held
     ELSE /\ held' = [held EXCEPT ![t] = ws]
          /\ task' = [task EXCEPT ![t] = "joining"]
          /\ UNCHANGED http

\* The SDK's threads are joined; the client closed next is the current one.
StopJoined(t) ==
  /\ task[t] = "joining"
  /\ sockets' = sockets \ {held[t]}
  /\ delivering' = delivering \ {held[t]}
  /\ held' = [held EXCEPT ![t] = NoSocket]
  /\ http' = IF http = "open" THEN "closed" ELSE http
  /\ task' = [task EXCEPT ![t] = "closing"]
  /\ UNCHANGED <<sessionVars, loop, running, ws, pollerVars, feedActive,
                 clockVars, count, alertVars, futile, overlapped, taps>>

\* start up to its first await; the tick clock restarts with it.
StartBegins(t) ==
  /\ running' = TRUE
  /\ quiet' = 0 /\ tickNewer' = TRUE
  /\ http' = "open"
  /\ task' = [task EXCEPT ![t] = "seeding"]

StopDone(t) ==
  /\ task[t] = "closing"
  /\ StartBegins(t)
  /\ UNCHANGED <<sessionVars, loop, held, socketVars, pollerVars, feedActive,
                 sinceRestart, liveFor, count, alertVars, futile, overlapped,
                 taps>>

\* The main coroutine goes on to its loop; a callback is over.
Returns(t) == IF t = Loop THEN "sleep" ELSE loop

\* Identities for a new socket.
Unused == Sockets \ (sockets \cup {held[t] : t \in Tasks})

\* The seed is in: a socket is opened and a poller started, whatever was there
\* before.  The subscription is skipped when _running is false.
StartDone(t) ==
  /\ task[t] = "seeding" /\ http = "open"
  /\ Unused # {}
  /\ LET i == CHOOSE i \in Unused : TRUE IN
       /\ ws' = i
       /\ sockets' = sockets \cup {i}
       /\ \/ delivering' = delivering
          \/ running /\ delivering' = delivering \cup {i}
  /\ pollers' = pollers + 1 /\ handle' = TRUE
  /\ feedActive' = TRUE
  /\ task' = [task EXCEPT ![t] = "idle"]
  /\ loop' = Returns(t)
  /\ UNCHANGED <<sessionVars, held, running, http, clockVars, count, alertVars,
                 futile, overlapped, taps>>

\* Mutation: a start that raises marks the feed down.
StartFailsMarksDown(t) ==
  /\ task[t] = "seeding"
  /\ StartMayFail \/ http = "closed"
  /\ task' = [task EXCEPT ![t] = "idle"]
  /\ loop' = Returns(t)
  /\ feedActive' = FALSE
  /\ UNCHANGED <<sessionVars, held, running, http, socketVars, pollerVars,
                 clockVars, count, alertVars, futile, overlapped, taps>>

\* The start raises: by itself, or because its client was closed under it.
\* The watchdog alerts, the callback answers with an error page, the boot logs.
StartFails(t) ==
  /\ task[t] = "seeding"
  /\ StartMayFail \/ http = "closed"
  /\ task' = [task EXCEPT ![t] = "idle"]
  /\ loop' = Returns(t)
  /\ IF t # Loop THEN notice' = "told" /\ UNCHANGED muted
     ELSE IF loop = "restart" THEN Alert("feed_down") ELSE UNCHANGED alertVars
  /\ UNCHANGED <<sessionVars, held, running, http, socketVars, pollerVars,
                 feedActive, clockVars, count, futile, overlapped, taps>>

(***************************************************************************)
(* The process.                                                            *)
(***************************************************************************)
\* Memory is lost; a restarted process starts from these values.
MemoryLost ==
  /\ loop' = "down" /\ seen' = "NONE"
  /\ task' = [t \in Tasks |-> "idle"] /\ held' = [t \in Tasks |-> NoSocket]
  /\ running' = FALSE /\ http' = "none"
  /\ ws' = NoSocket /\ sockets' = {} /\ delivering' = {}
  /\ pollers' = 0 /\ handle' = FALSE
  /\ feedActive' = FALSE
  /\ quiet' = 0 /\ sinceRestart' = RestartCooldown
  /\ liveFor' = Never /\ tickNewer' = TRUE
  /\ count' = 0
  /\ muted' = {} /\ notice' = "none"
  /\ futile' = 0 /\ overlapped' = FALSE

Crash ==
  /\ loop # "down"
  /\ MemoryLost
  /\ UNCHANGED <<phase, taps>>

\* _run up to its loop: the feed is started if there is a token for it.
Boot ==
  /\ loop = "down"
  /\ \/ /\ loop' = "boot"
        /\ StartBegins(Loop)
     \/ /\ loop' = "sleep"
        /\ UNCHANGED <<running, quiet, tickNewer, http, task>>
  /\ UNCHANGED <<sessionVars, held, socketVars, pollerVars, feedActive,
                 sinceRestart, liveFor, count, alertVars, futile, overlapped,
                 taps>>

(***************************************************************************)
(* The main loop.                                                          *)
(***************************************************************************)
\* An iteration that sees the session open: the stall clock starts.
LoopOpens ==
  /\ loop = "sleep" /\ phase = "OPEN" /\ seen # "OPEN"
  /\ liveFor' = 0
  /\ loop' = "opening"
  /\ UNCHANGED <<sessionVars, taskVars, running, http, socketVars, pollerVars,
                 feedActive, quiet, sinceRestart, tickNewer, count, alertVars,
                 futile, overlapped, taps>>

\* Mutation: a missing feed at the open is not reported.
OpeningDoneSilently ==
  /\ loop = "opening"
  /\ UNCHANGED alertVars
  /\ seen' = "OPEN"
  /\ loop' = "watch"
  /\ UNCHANGED <<phase, taskVars, running, http, socketVars, pollerVars,
                 feedActive, clockVars, count, futile, overlapped, taps>>

\* The loads at the open are done; without a feed the owner is paged.
OpeningDone ==
  /\ loop = "opening"
  /\ IF feedActive THEN UNCHANGED alertVars ELSE Alert("no_feed_at_open")
  /\ seen' = "OPEN"
  /\ loop' = "watch"
  /\ UNCHANGED <<phase, taskVars, running, http, socketVars, pollerVars,
                 feedActive, clockVars, count, futile, overlapped, taps>>

LoopContinues ==
  /\ loop = "sleep"
  /\ phase = "OPEN" => seen = "OPEN"
  /\ seen' = phase
  /\ loop' = "watch"
  /\ UNCHANGED <<phase, taskVars, running, http, socketVars, pollerVars,
                 feedActive, clockVars, count, alertVars, futile, overlapped,
                 taps>>

\* No tick for too long, in a market that has been live for as long, and the
\* previous restart is far enough back.
Stalled ==
  /\ seen \in {"OPEN", "CLOSING"} /\ feedActive
  /\ liveFor # Never /\ liveFor > StallAfter /\ quiet > StallAfter
  /\ sinceRestart >= RestartCooldown

NothingStalled ==
  /\ loop = "watch" /\ ~Stalled
  /\ loop' = "sleep"
  /\ UNCHANGED <<sessionVars, taskVars, running, http, socketVars, pollerVars,
                 feedActive, clockVars, count, alertVars, futile, overlapped,
                 taps>>

WatchdogFires ==
  /\ loop = "watch" /\ Stalled
  /\ count' = IF tickNewer THEN 1 ELSE count + 1
  /\ sinceRestart' = 0 /\ tickNewer' = FALSE
  /\ futile' = IF futile > SuicideAfter THEN futile ELSE futile + 1
  /\ Alert("feed_stall")
  /\ loop' = "alert"
  /\ UNCHANGED <<sessionVars, taskVars, running, http, socketVars, pollerVars,
                 feedActive, quiet, liveFor, overlapped, taps>>

\* The alert is out: the process exits, or the feed is restarted.
WatchdogActs ==
  /\ loop = "alert"
  /\ IF SuicideAfter > 0 /\ count > SuicideAfter
     THEN MemoryLost /\ UNCHANGED <<phase, taps>>
     ELSE /\ feedActive' = FALSE
          /\ StopBegins(Loop)
          /\ loop' = "restart"
          /\ overlapped' = (overlapped \/ ~Idle)
          /\ UNCHANGED <<sessionVars, socketVars, clockVars, count, alertVars,
                         futile, taps>>

(***************************************************************************)
(* The token callback: _on_token_refresh.                                  *)
(***************************************************************************)
Tap(t) ==
  /\ Up /\ task[t] = "idle" /\ taps < MaxTaps
  /\ taps' = taps + 1
  /\ IF feedActive
     THEN StopBegins(t) /\ UNCHANGED <<quiet, tickNewer>>
     ELSE StartBegins(t) /\ UNCHANGED <<pollerVars, held>>
  /\ feedActive' = FALSE
  /\ overlapped' = (overlapped \/ ~Idle \/ loop = "alert")
  /\ UNCHANGED <<sessionVars, loop, socketVars, sinceRestart, liveFor, count,
                 alertVars, futile>>

(***************************************************************************)
(* The specification.                                                      *)
(***************************************************************************)
Init ==
  /\ phase \in {"SHUT", "OPEN", "CLOSING"}
  /\ loop = "down" /\ seen = "NONE"
  /\ task = [t \in Tasks |-> "idle"] /\ held = [t \in Tasks |-> NoSocket]
  /\ running = FALSE /\ http = "none"
  /\ ws = NoSocket /\ sockets = {} /\ delivering = {}
  /\ pollers = 0 /\ handle = FALSE
  /\ feedActive = FALSE
  /\ quiet = 0 /\ sinceRestart = RestartCooldown
  /\ liveFor = Never /\ tickNewer = TRUE
  /\ count = 0
  /\ muted = {} /\ notice = "none"
  /\ futile = 0 /\ overlapped = FALSE
  /\ taps = 0

FeedStep(t) == StopJoined(t) \/ StopDone(t) \/ StartDone(t) \/ StartFails(t)
LoopStep ==
  \/ Boot \/ LoopOpens \/ OpeningDone \/ LoopContinues
  \/ NothingStalled \/ WatchdogFires \/ WatchdogActs \/ FeedStep(Loop)
World ==
  \/ Elapse \/ PhaseChange \/ Tick \/ PollerEnds \/ Crash
  \/ \E i \in Sockets : LineChange(i)
  \/ \E kind \in Kinds : CooldownOver(kind)

Next == LoopStep \/ World \/ \E t \in Taps : Tap(t) \/ FeedStep(t)

Spec == Init /\ [][Next]_vars

\* The event loop keeps running its tasks, docker boots a dead process, and
\* time passes.
FairSpec ==
  /\ Spec
  /\ WF_vars(LoopStep) /\ \A t \in Taps : WF_vars(FeedStep(t))
  /\ WF_vars(Elapse)

\* Moreover every alert's cooldown ends.
CooldownSpec == FairSpec /\ \A kind \in Kinds : WF_vars(CooldownOver(kind))
-----------------------------------------------------------------------------
(***************************************************************************)
(* Properties.                                                             *)
(***************************************************************************)
\* The poller whose handle is known is among those alive.
PollersCounted == pollers \in Nat /\ (handle => pollers > 0)

FlagsOK ==
  /\ running \in BOOLEAN /\ handle \in BOOLEAN /\ feedActive \in BOOLEAN
  /\ tickNewer \in BOOLEAN /\ overlapped \in BOOLEAN

ClocksOK ==
  /\ quiet \in 0..(StallAfter + 1) /\ sinceRestart \in 0..RestartCooldown
  /\ liveFor \in Never..(StallAfter + 1)
  /\ count \in Nat /\ futile \in 0..(SuicideAfter + 1) /\ taps \in Nat

ControlOK ==
  /\ phase \in {"SHUT", "OPEN", "CLOSING"}
  /\ seen \in {"NONE", "SHUT", "OPEN", "CLOSING"}
  /\ loop \in {"down", "boot", "sleep", "opening", "watch", "alert", "restart"}
  /\ task \in [Tasks -> {"idle", "joining", "closing", "seeding"}]
  /\ held \in [Tasks -> Sockets \cup {NoSocket}]
  /\ http \in {"none", "open", "closed"} /\ ws \in Sockets \cup {NoSocket}
  /\ sockets \subseteq Sockets /\ delivering \subseteq sockets
  /\ muted \subseteq Kinds /\ notice \in {"none", "swallowed", "told"}

TypeOK == FlagsOK /\ PollersCounted /\ ClocksOK /\ ControlOK

\* A feed marked active that nobody is starting or stopping is whole: its
\* client, its socket and exactly one poller are up, unless two of its three
\* users were at it at once.
ActiveFeedIsWhole ==
  feedActive /\ Idle /\ ~overlapped =>
    running /\ http = "open" /\ ws \in sockets /\ pollers = 1

\* The socket the feed holds is under the watchdog: it is open only while the
\* feed is marked active or a stop() is closing it, overlaps included.
LineWatched ==
  ws \in sockets /\ (\A t \in Tasks : held[t] # ws) => feedActive

\* The process is up, the market is open and the feed delivers nothing.
Silent == loop # "down" /\ phase = "OPEN" /\ ~Serving

\* No silence without notice: it ends, or the owner is alerted, or would have
\* been if the alert were not in its cooldown; unless restarts overlapped.
SilenceNoticed == Silent ~> (notice # "none" \/ ~Silent \/ overlapped)

\* "Consecutive watchdog restarts that fail to revive ticks before the engine
\* exits": no restart follows that many futile ones.
FutileRestartsEnd == loop = "restart" => futile <= SuicideAfter
=============================================================================
