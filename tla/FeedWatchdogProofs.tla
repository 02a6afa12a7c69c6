-------------------------- MODULE FeedWatchdogProofs --------------------------
(***************************************************************************)
(* Proofs about module FeedWatchdog, for any number of token callbacks and *)
(* any limits.  Three inductive invariants on top of TypeOK: LineWatched   *)
(* itself, FeedInv (what holds of the feed while no two tasks have been at *)
(* it at once) and RevivedByStart (when the watchdog may fire, the tick    *)
(* clock is newer than the last restart).                                  *)
(***************************************************************************)
EXTENDS FeedWatchdog, TLAPS

\* No step loses the poller whose handle is known.
LEMMA PollerStep == TypeOK /\ [Next]_vars => PollersCounted'
<1> SUFFICES ASSUME TypeOK, [Next]_vars PROVE PollersCounted'
  OBVIOUS
<1>0. pollers \in Nat /\ (handle => pollers > 0) /\ handle \in BOOLEAN
  BY DEF TypeOK, FlagsOK, PollersCounted
<1>1. CASE UNCHANGED pollerVars
  BY <1>0, <1>1 DEF pollerVars, PollersCounted
<1>2. CASE PollerEnds
  <2>1. CASE handle /\ handle' = FALSE
    BY <1>0, <1>2, <2>1 DEF PollerEnds, PollersCounted
  <2>2. CASE handle' = handle /\ handle /\ pollers > 1
    BY <1>0, <1>2, <2>2 DEF PollerEnds, PollersCounted
  <2>3. CASE handle' = handle /\ ~handle /\ pollers > 0
    BY <1>0, <1>2, <2>3 DEF PollerEnds, PollersCounted
  <2> QED
    BY <1>2, <2>1, <2>2, <2>3 DEF PollerEnds
<1>3. CASE pollers' = 0 /\ handle' = FALSE
  BY <1>3 DEF PollersCounted
<1>4. CASE pollers' = (IF handle THEN pollers - 1 ELSE pollers) /\ handle' = FALSE
  <2>1. CASE handle
    BY <1>0, <1>4, <2>1 DEF PollersCounted
  <2>2. CASE ~handle
    BY <1>0, <1>4, <2>2 DEF PollersCounted
  <2> QED
    BY <2>1, <2>2
<1>5. CASE pollers' = pollers + 1
  BY <1>0, <1>5 DEF PollersCounted
<1> QED
  BY <1>1, <1>2, <1>3, <1>4, <1>5 DEF Next, LoopStep, World, FeedStep, vars, pollerVars,
    Elapse, PhaseChange, Tick, Crash, MemoryLost, LineChange, CooldownOver, Boot, StartBegins,
    LoopOpens, OpeningDone, LoopContinues, NothingStalled, WatchdogFires, WatchdogActs,
    StopBegins, Tap, StopJoined, StopDone, StartDone, StartFails

\* The flags of the feed, one action at a time.
LEMMA FlagStep == TypeOK /\ [Next]_vars => FlagsOK'
<1> SUFFICES ASSUME FlagsOK, [Next]_vars PROVE FlagsOK'
  BY DEF TypeOK
<1> USE DEF FlagsOK, pollerVars, clockVars
<1>1. CASE UNCHANGED vars \/ Elapse \/ PhaseChange \/ Tick \/ Crash
  BY <1>1 DEF vars, Elapse, PhaseChange, Tick, Crash, MemoryLost
<1>2. CASE PollerEnds
  BY <1>2 DEF PollerEnds
<1>3. CASE \E i \in Sockets : LineChange(i)
  BY <1>3 DEF LineChange
<1>4. CASE \E kind \in Kinds : CooldownOver(kind)
  BY <1>4 DEF CooldownOver
<1>5. CASE Boot
  BY <1>5 DEF Boot, StartBegins
<1>6. CASE LoopOpens \/ OpeningDone \/ LoopContinues \/ NothingStalled
  BY <1>6 DEF LoopOpens, OpeningDone, LoopContinues, NothingStalled
<1>7. CASE WatchdogFires
  BY <1>7 DEF WatchdogFires
<1>8. CASE WatchdogActs
  BY <1>8 DEF WatchdogActs, MemoryLost, StopBegins
<1>9. CASE \E t \in Taps : Tap(t)
  BY <1>9 DEF Tap, StopBegins, StartBegins
<1>10. CASE \E t \in Tasks : FeedStep(t)
  BY <1>10 DEF FeedStep, StopJoined, StopDone, StartBegins, StartDone, StartFails
<1> QED
  BY <1>1, <1>2, <1>3, <1>4, <1>5, <1>6, <1>7, <1>8, <1>9, <1>10
     DEF Next, LoopStep, World, Tasks

\* The ages stay within their limits.
LEMMA ClockStep == TypeOK /\ [Next]_vars => ClocksOK'
<1> SUFFICES ASSUME ClocksOK, [Next]_vars PROVE ClocksOK'
  BY DEF TypeOK
<1> USE FeedAssumption DEF ClocksOK, clockVars, Never
<1>1. CASE UNCHANGED vars \/ PhaseChange \/ PollerEnds
  BY <1>1 DEF vars, PhaseChange, PollerEnds
<1>2. CASE Elapse
  BY <1>2 DEF Elapse, Older
<1>3. CASE Tick
  BY <1>3 DEF Tick
<1>4. CASE Crash
  BY <1>4 DEF Crash, MemoryLost
<1>5. CASE \E i \in Sockets : LineChange(i)
  BY <1>5 DEF LineChange
<1>6. CASE \E kind \in Kinds : CooldownOver(kind)
  BY <1>6 DEF CooldownOver
<1>7. CASE Boot
  BY <1>7 DEF Boot, StartBegins
<1>8. CASE LoopOpens \/ OpeningDone \/ LoopContinues \/ NothingStalled
  BY <1>8 DEF LoopOpens, OpeningDone, LoopContinues, NothingStalled
<1>9. CASE WatchdogFires
  BY <1>9 DEF WatchdogFires
<1>10. CASE WatchdogActs
  BY <1>10 DEF WatchdogActs, MemoryLost
<1>11. CASE \E t \in Taps : Tap(t)
  BY <1>11 DEF Tap, StartBegins
<1>12. CASE \E t \in Tasks : FeedStep(t)
  BY <1>12 DEF FeedStep, StopJoined, StopDone, StartBegins, StartDone, StartFails
<1> QED
  BY <1>1, <1>2, <1>3, <1>4, <1>5, <1>6, <1>7, <1>8, <1>9, <1>10, <1>11, <1>12
     DEF Next, LoopStep, World, Tasks

\* The identity a start gives to its socket.
LEMMA NewSocket ==
  ASSUME NEW t \in Tasks, StartDone(t)
  PROVE  (CHOOSE i \in Unused : TRUE) \in Unused
  BY DEF StartDone

\* The places of the coroutines, the sockets and the alerts.
LEMMA ControlStep == TypeOK /\ [Next]_vars => ControlOK'
<1> SUFFICES ASSUME ControlOK, [Next]_vars PROVE ControlOK'
  BY DEF TypeOK
<1> USE DEF ControlOK, sessionVars, taskVars, socketVars, alertVars, Tasks
<1>1. CASE UNCHANGED vars \/ Elapse \/ PollerEnds
  BY <1>1 DEF vars, Elapse, PollerEnds
<1>2. CASE PhaseChange \/ Tick
  BY <1>2 DEF PhaseChange, Tick
<1>3. CASE Crash
  BY <1>3 DEF Crash, MemoryLost
<1>4. CASE \E i \in Sockets : LineChange(i)
  BY <1>4 DEF LineChange
<1>5. CASE \E kind \in Kinds : CooldownOver(kind)
  BY <1>5 DEF CooldownOver
<1>6. CASE Boot
  BY <1>6 DEF Boot, StartBegins
<1>7. CASE LoopOpens \/ LoopContinues \/ NothingStalled
  BY <1>7 DEF LoopOpens, LoopContinues, NothingStalled
<1>8. CASE OpeningDone \/ WatchdogFires
  BY <1>8 DEF OpeningDone, WatchdogFires, Alert, Kinds
<1>9. CASE WatchdogActs
  BY <1>9 DEF WatchdogActs, MemoryLost, StopBegins
<1>10. CASE \E t \in Taps : Tap(t)
  BY <1>10 DEF Tap, StopBegins, StartBegins
<1>11. ASSUME NEW t \in Tasks, FeedStep(t) PROVE ControlOK'
  <2>1. CASE StopJoined(t) \/ StopDone(t)
    BY <2>1 DEF StopJoined, StopDone, StartBegins
  <2>2. CASE StartDone(t)
    BY <2>2, NewSocket DEF StartDone, Unused, Returns
  <2>3. CASE StartFails(t)
    BY <2>3 DEF StartFails, Returns, Alert, Kinds
  <2> QED
    BY <1>11, <2>1, <2>2, <2>3 DEF FeedStep
<1> QED
  BY <1>1, <1>2, <1>3, <1>4, <1>5, <1>6, <1>7, <1>8, <1>9, <1>10, <1>11
     DEF Next, LoopStep, World

LEMMA TypeStep == TypeOK /\ [Next]_vars => TypeOK'
  BY FlagStep, PollerStep, ClockStep, ControlStep DEF TypeOK

LEMMA TypeInit == Init => TypeOK
<1> SUFFICES ASSUME Init PROVE TypeOK
  OBVIOUS
<1>1. FlagsOK /\ PollersCounted
  BY DEF Init, FlagsOK, PollersCounted
<1>2. ClocksOK
  BY FeedAssumption DEF Init, ClocksOK, Never
<1>3. ControlOK
  BY DEF Init, ControlOK, Tasks
<1> QED
  BY <1>1, <1>2, <1>3 DEF TypeOK

\* The feed keeps its types and never counts fewer pollers than it runs, for
\* any callbacks, crashes and failures.
THEOREM FeedTypeCorrect == Spec => []TypeOK
<1>1. Init => TypeOK
  BY TypeInit
<1>2. TypeOK /\ [Next]_vars => TypeOK'
  BY TypeStep
<1> QED
  BY <1>1, <1>2, PTL DEF Spec

-----------------------------------------------------------------------------
(***************************************************************************)
(* The watched socket.  LineWatched is inductive: a stop() takes hold of   *)
(* the socket in the step that drops the flag, whoever else is at work.    *)
(***************************************************************************)
LEMMA LineStep == TypeOK /\ LineWatched /\ [Next]_vars => LineWatched'
<1> SUFFICES ASSUME ControlOK, LineWatched, [Next]_vars PROVE LineWatched'
  BY DEF TypeOK
<1> USE FeedAssumption DEF LineWatched, taskVars, socketVars, Tasks
<1>0. ControlOK => ws # NoSocket \/ ws \notin sockets
  BY DEF ControlOK
<1>1. CASE UNCHANGED vars \/ Elapse \/ PhaseChange \/ Tick \/ PollerEnds
  BY <1>1 DEF vars, Elapse, PhaseChange, Tick, PollerEnds
<1>2. CASE Crash
  BY <1>2 DEF Crash, MemoryLost
<1>3. CASE \E i \in Sockets : LineChange(i)
  BY <1>3 DEF LineChange
<1>4. CASE \E kind \in Kinds : CooldownOver(kind)
  BY <1>4 DEF CooldownOver
<1>5. CASE Boot
  BY <1>5 DEF Boot
<1>6. CASE LoopOpens \/ OpeningDone \/ LoopContinues \/ NothingStalled \/ WatchdogFires
  BY <1>6 DEF LoopOpens, OpeningDone, LoopContinues, NothingStalled, WatchdogFires
<1>7. CASE WatchdogActs
  BY <1>0, <1>7 DEF WatchdogActs, MemoryLost, StopBegins, ControlOK
<1>8. CASE \E t \in Taps : Tap(t)
  BY <1>0, <1>8 DEF Tap, StopBegins, ControlOK
<1>9. ASSUME NEW t \in Tasks, FeedStep(t) PROVE LineWatched'
  <2>1. CASE StopJoined(t)
    BY <2>1 DEF StopJoined, ControlOK
  <2>2. CASE StopDone(t) \/ StartDone(t) \/ StartFails(t)
    BY <2>2 DEF StopDone, StartDone, StartFails
  <2> QED
    BY <1>9, <2>1, <2>2 DEF FeedStep
<1> QED
  BY <1>1, <1>2, <1>3, <1>4, <1>5, <1>6, <1>7, <1>8, <1>9 DEF Next, LoopStep, World

\* An open socket that the feed holds is never left unwatched, overlapping
\* restarts included.
THEOREM LineAlwaysWatched == Spec => []LineWatched
<1>1. Init => LineWatched
  BY DEF Init, LineWatched
<1>2. TypeOK /\ LineWatched /\ [Next]_vars => LineWatched'
  BY LineStep
<1> QED
  BY <1>1, <1>2, FeedTypeCorrect, PTL DEF Spec

(***************************************************************************)
(* The feed while no two tasks have been at it at once: the task at work   *)
(* is alone, and what it has dropped or built so far follows from where it *)
(* stands.                                                                 *)
(***************************************************************************)
Working(t) == task[t] # "idle"

Alone ==
  /\ \A t, u \in Tasks : Working(t) /\ Working(u) => t = u
  /\ \A t \in Tasks : task[t] = "seeding" => running /\ http = "open"
  /\ feedActive => Idle /\ running /\ http = "open" /\ ws \in sockets

OnePoller == IF feedActive THEN handle /\ pollers = 1 ELSE ~handle /\ pollers = 0

DeadFeed == Idle /\ ~feedActive /\ OnePoller

FeedInv ==
  /\ loop = "down" => DeadFeed
  /\ ~overlapped => Alone /\ OnePoller

\* A dead process has nothing: nothing acts on the feed until it boots.
LEMMA DeadStep == TypeOK /\ FeedInv /\ [Next]_vars => (loop = "down" => DeadFeed)'
<1> SUFFICES ASSUME FeedInv, [Next]_vars, loop' = "down" PROVE DeadFeed'
  OBVIOUS
<1> USE DEF DeadFeed, OnePoller, Idle, taskVars, pollerVars
<1>1. CASE loop = "down"
  <2>1. DeadFeed
    BY <1>1 DEF FeedInv
  <2>2. CASE UNCHANGED <<task, feedActive, pollers, handle>>
    BY <2>1, <2>2
  <2> QED
    BY <1>1, <2>1, <2>2 DEF Next, LoopStep, World, vars, FeedStep, Tasks, Elapse, PhaseChange,
      Tick, PollerEnds, Crash, LineChange, CooldownOver, Boot, LoopOpens, OpeningDone,
      LoopContinues, NothingStalled, WatchdogFires, WatchdogActs, Tap, Up, StopJoined,
      StopDone, StartDone, StartFails
<1>2. CASE loop # "down"
  <2>1. CASE MemoryLost
    BY <2>1 DEF MemoryLost
  <2> QED
    BY <1>2, <2>1 DEF Next, LoopStep, World, vars, FeedStep, Returns, Elapse, PhaseChange,
      Tick, PollerEnds, Crash, LineChange, CooldownOver, Boot, LoopOpens, OpeningDone,
      LoopContinues, NothingStalled, WatchdogFires, WatchdogActs, Tap, StopJoined,
      StopDone, StartDone, StartFails
<1> QED
  BY <1>1, <1>2

\* A task that finds the feed idle is alone at it.
LEMMA AloneStep ==
  TypeOK /\ FeedInv /\ [Next]_vars => (~overlapped => Alone)'
<1> SUFFICES ASSUME TypeOK, FeedInv, [Next]_vars, ~overlapped' PROVE Alone'
  OBVIOUS
<1>t. ControlOK /\ FlagsOK
  BY DEF TypeOK
<1> USE <1>t, FeedAssumption DEF Alone, Working, Idle, taskVars, socketVars, Tasks
<1>1. CASE MemoryLost
  BY <1>1 DEF MemoryLost
<1>2. CASE loop = "down" /\ Boot
  <2>1. ~feedActive /\ \A u \in Tasks : task[u] = "idle"
    BY <1>2 DEF FeedInv, DeadFeed
  <2>2. ~feedActive'
    BY <1>2, <2>1 DEF Boot
  <2>3. CASE task' = task
    BY <2>1, <2>2, <2>3
  <2>4. CASE StartBegins(Loop)
    <3>1. running' /\ http' = "open" /\ task' = [task EXCEPT ![Loop] = "seeding"]
      BY <2>4 DEF StartBegins
    <3>2. \A u \in Tasks : task'[u] # "idle" => u = Loop
      BY <2>1, <3>1 DEF ControlOK
    <3> QED
      BY <2>2, <3>1, <3>2
  <2> QED
    BY <1>2, <2>3, <2>4 DEF Boot
<1>3. CASE ~overlapped /\ UNCHANGED <<task, running, http, feedActive, ws, sockets>>
  BY <1>3 DEF FeedInv
<1>4. ASSUME ~overlapped, NEW t \in Tasks, FeedStep(t) PROVE Alone'
  <2>1. Working(t) /\ ~feedActive /\ Alone
    BY <1>4 DEF FeedInv, FeedStep, StopJoined, StopDone, StartDone, StartFails
  <2>2. \A u \in Tasks : u # t => task[u] = "idle"
    BY <2>1
  <2>3. CASE StopJoined(t)
    BY <2>1, <2>2, <2>3 DEF StopJoined, ControlOK
  <2>4. CASE StopDone(t)
    BY <2>1, <2>2, <2>4 DEF StopDone, StartBegins, ControlOK
  <2>5. CASE StartDone(t)
    BY <2>1, <2>2, <2>5 DEF StartDone, ControlOK
  <2>6. CASE StartFails(t)
    BY <2>1, <2>2, <2>6 DEF StartFails, ControlOK
  <2> QED
    BY <1>4, <2>3, <2>4, <2>5, <2>6 DEF FeedStep
<1>5. ASSUME ~overlapped, NEW t \in Taps, Tap(t) PROVE Alone'
  <2>1. ~feedActive' /\ \A u \in Tasks : task[u] = "idle"
    BY <1>5 DEF Tap
  <2>2. CASE StopBegins(t)
    <3>1. \A u \in Tasks : task'[u] # "idle" => u = t /\ task'[u] # "seeding"
      BY <2>1, <2>2 DEF StopBegins, ControlOK
    <3> QED
      BY <2>1, <3>1
  <2>3. CASE StartBegins(t)
    <3>1. running' /\ http' = "open"
      BY <2>3 DEF StartBegins
    <3>2. \A u \in Tasks : task'[u] # "idle" => u = t
      BY <2>1, <2>3 DEF StartBegins, ControlOK
    <3> QED
      BY <2>1, <3>1, <3>2
  <2> QED
    BY <1>5, <2>2, <2>3 DEF Tap
<1>6. CASE ~overlapped /\ WatchdogActs
  BY <1>1, <1>6 DEF WatchdogActs, StopBegins, ControlOK
<1> QED
  <2>1. CASE overlapped
    BY <1>1, <2>1 DEF Next, LoopStep, World, vars, FeedStep, Elapse, PhaseChange, Tick,
      PollerEnds, Crash, LineChange, CooldownOver, Boot, LoopOpens, OpeningDone, LoopContinues,
      NothingStalled, WatchdogFires, WatchdogActs, Tap, StopJoined, StopDone, StartDone,
      StartFails, FlagsOK
  <2>2. CASE ~overlapped
    <3>1. CASE UNCHANGED vars
      BY <1>3, <2>2, <3>1 DEF vars
    <3>2. CASE World
      BY <1>1, <1>3, <2>2, <3>2 DEF World, Elapse, PhaseChange, Tick, PollerEnds, Crash,
        LineChange, CooldownOver
    <3>3. CASE LoopStep
      BY <1>2, <1>3, <1>4, <1>6, <2>2, <3>3 DEF LoopStep, Boot, LoopOpens, OpeningDone,
        LoopContinues, NothingStalled, WatchdogFires
    <3> QED
      BY <1>4, <1>5, <2>2, <3>1, <3>2, <3>3 DEF Next
  <2> QED
    BY <2>1, <2>2

\* The number of pollers follows from the flag.
LEMMA OnePollerStep ==
  TypeOK /\ FeedInv /\ [Next]_vars => (~overlapped => OnePoller)'
<1> SUFFICES ASSUME TypeOK, FeedInv, [Next]_vars, ~overlapped' PROVE OnePoller'
  OBVIOUS
<1> USE DEF OnePoller, pollerVars
<1>1. CASE MemoryLost
  BY <1>1 DEF MemoryLost
<1>2. CASE loop = "down" /\ Boot
  BY <1>2 DEF FeedInv, DeadFeed, Boot
<1>3. CASE ~overlapped /\ UNCHANGED <<feedActive, pollers, handle>>
  BY <1>3 DEF FeedInv
<1>4. CASE ~overlapped /\ PollerEnds
  BY <1>4 DEF FeedInv, Alone, PollerEnds
<1>5. ASSUME ~overlapped, NEW t \in Tasks, StopBegins(t), ~feedActive' PROVE OnePoller'
  BY <1>5 DEF FeedInv, StopBegins
<1>6. ASSUME ~overlapped, NEW t \in Tasks, StartDone(t) PROVE OnePoller'
  BY <1>6 DEF FeedInv, Alone, Idle, StartDone
<1>7. ASSUME ~overlapped, NEW t \in Taps, Tap(t) PROVE OnePoller'
  <2>1. CASE feedActive
    BY <1>5, <1>7, <2>1 DEF Tap, Tasks
  <2>2. CASE ~feedActive
    BY <1>7, <2>2 DEF Tap, FeedInv
  <2> QED
    BY <2>1, <2>2
<1>8. CASE ~overlapped /\ WatchdogActs
  BY <1>1, <1>5, <1>8 DEF WatchdogActs, Tasks
<1> QED
  <2>1. CASE overlapped
    BY <1>1, <2>1 DEF Next, LoopStep, World, vars, FeedStep, Elapse, PhaseChange, Tick,
      PollerEnds, Crash, LineChange, CooldownOver, Boot, LoopOpens, OpeningDone, LoopContinues,
      NothingStalled, WatchdogFires, WatchdogActs, Tap, StopJoined, StopDone, StartDone,
      StartFails
  <2>2. CASE ~overlapped
    <3>1. CASE UNCHANGED vars
      BY <1>3, <2>2, <3>1 DEF vars
    <3>2. CASE World
      BY <1>1, <1>3, <1>4, <2>2, <3>2 DEF World, Elapse, PhaseChange, Tick, Crash, LineChange,
        CooldownOver
    <3>3. ASSUME NEW t \in Tasks, FeedStep(t) PROVE OnePoller'
      BY <1>3, <1>6, <2>2, <3>3 DEF FeedStep, StopJoined, StopDone, StartFails
    <3>4. CASE LoopStep
      BY <1>2, <1>3, <1>8, <2>2, <3>3, <3>4 DEF LoopStep, Boot, LoopOpens, OpeningDone,
        LoopContinues, NothingStalled, WatchdogFires, Tasks
    <3> QED
      BY <1>7, <2>2, <3>1, <3>2, <3>3, <3>4 DEF Next, Tasks
  <2> QED
    BY <2>1, <2>2

\* Unless two tasks were at it at once, an active feed has its client, its
\* socket and exactly one poller.
THEOREM ActiveFeedAlwaysWhole == Spec => []ActiveFeedIsWhole
<1>1. Init => FeedInv
  BY DEF Init, FeedInv, DeadFeed, OnePoller, Alone, Working, Idle
<1>2. TypeOK /\ FeedInv /\ [Next]_vars => FeedInv'
  BY DeadStep, AloneStep, OnePollerStep DEF FeedInv
<1>3. FeedInv => ActiveFeedIsWhole
  BY DEF FeedInv, Alone, OnePoller, ActiveFeedIsWhole
<1> QED
  BY <1>1, <1>2, <1>3, FeedTypeCorrect, PTL DEF Spec

(***************************************************************************)
(* The watchdog's way out.  start() writes the tick clock that the next    *)
(* verdict reads to see whether the last restart revived the feed.         *)
(***************************************************************************)
RevivedByStart ==
  /\ count <= 1
  /\ task[Loop] # "idle" => loop \in {"boot", "restart"}
  /\ loop \notin {"alert", "restart"} => tickNewer
  /\ loop = "restart" => task[Loop] # "idle" /\ (task[Loop] = "seeding" => tickNewer)

LEMMA RevivedStep == TypeOK /\ RevivedByStart /\ [Next]_vars => RevivedByStart'
<1> SUFFICES ASSUME FlagsOK, count \in Nat, task \in [Tasks -> {"idle", "joining", "closing", "seeding"}],
                    RevivedByStart, [Next]_vars
             PROVE  RevivedByStart'
  BY DEF TypeOK, ClocksOK, ControlOK
<1> USE FeedAssumption DEF RevivedByStart, FlagsOK, taskVars, clockVars, Tasks
<1>1. CASE MemoryLost
  BY <1>1 DEF MemoryLost
<1>2. CASE UNCHANGED <<count, loop, tickNewer, task>>
  BY <1>2
<1>3. CASE Tick
  BY <1>3 DEF Tick
<1>4. CASE Boot
  BY <1>4 DEF Boot, StartBegins
<1>5. CASE LoopOpens \/ OpeningDone \/ LoopContinues \/ NothingStalled
  BY <1>5 DEF LoopOpens, OpeningDone, LoopContinues, NothingStalled
<1>6. CASE WatchdogFires
  BY <1>6 DEF WatchdogFires
<1>7. CASE WatchdogActs
  BY <1>1, <1>7 DEF WatchdogActs, StopBegins
<1>8. CASE \E t \in Taps : Tap(t)
  BY <1>8 DEF Tap, StopBegins, StartBegins
<1>9. ASSUME NEW t \in Tasks, FeedStep(t) PROVE RevivedByStart'
  <2>1. UNCHANGED count
    BY <1>9 DEF FeedStep, StopJoined, StopDone, StartDone, StartFails
  <2>2. CASE StopJoined(t)
    BY <2>2 DEF StopJoined
  <2>3. CASE StopDone(t)
    BY <2>3 DEF StopDone, StartBegins
  <2>4. CASE StartDone(t) \/ StartFails(t)
    <3>1. task' = [task EXCEPT ![t] = "idle"] /\ loop' = Returns(t) /\ tickNewer' = tickNewer
      BY <2>4 DEF StartDone, StartFails
    <3>2. CASE t = Loop
      <4>1. tickNewer
        BY <2>4, <3>2 DEF StartDone, StartFails
      <4> QED
        BY <2>1, <3>1, <3>2, <4>1 DEF Returns
    <3>3. CASE t # Loop
      BY <2>1, <3>1, <3>3 DEF Returns
    <3> QED
      BY <3>2, <3>3
  <2> QED
    BY <1>9, <2>2, <2>3, <2>4 DEF FeedStep
<1>10. CASE World
  BY <1>1, <1>2, <1>3, <1>10
     DEF World, Elapse, PhaseChange, PollerEnds, Crash, LineChange, CooldownOver
<1>11. CASE UNCHANGED vars
  BY <1>2, <1>11 DEF vars
<1>12. CASE LoopStep
  <2>1. CASE FeedStep(Loop)
    BY <1>9, <2>1
  <2> QED
    BY <1>4, <1>5, <1>6, <1>7, <1>12, <2>1 DEF LoopStep
<1> QED
  <2>1. CASE \E t \in Taps : Tap(t) \/ FeedStep(t)
    BY <1>8, <1>9, <2>1
  <2> QED
    BY <1>10, <1>11, <1>12, <2>1 DEF Next

\* The watchdog never exits the process, whatever limit it is given: no restart
\* is ever counted as the second in a row (the cause of what FutileRestartsEnd
\* shows).
THEOREM NeverGivesUp == Spec => [](SuicideAfter > 0 => count <= SuicideAfter)
<1>1. Init => RevivedByStart
  BY DEF Init, RevivedByStart, Tasks
<1>2. TypeOK /\ RevivedByStart /\ [Next]_vars => RevivedByStart'
  BY RevivedStep
<1>3. TypeOK /\ RevivedByStart => (SuicideAfter > 0 => count <= SuicideAfter)
  BY FeedAssumption DEF RevivedByStart, TypeOK, ClocksOK
<1> QED
  BY <1>1, <1>2, <1>3, FeedTypeCorrect, PTL DEF Spec
=============================================================================
