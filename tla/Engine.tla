------------------------------- MODULE Engine -------------------------------
(***************************************************************************)
(* The engine process: the session-gated main loop of src/src/main.py with *)
(* the signal router, the trade monitor's open set, the signal store it    *)
(* writes to, the owner's two maintenance requests served on the same      *)
(* event loop, and the crash and restart of the process.                   *)
(*                                                                         *)
(* One asyncio process runs everything, so code between two awaits is      *)
(* atomic with respect to the API handlers.  `pc` names the piece of the   *)
(* loop that runs next; handlers run only where the loop is suspended      *)
(* (AtAwait).  A write to SQLite is one step.                              *)
(***************************************************************************)
EXTENDS Naturals, SignalPlan

CONSTANTS
  Signals,        \* the ids the scanner may give to the signals it emits
  Level,          \* those whose entry is a resting level (entry_type LEVEL)
  Legacy,         \* those with a single target (tp2 = 0)
  MaxDay,         \* number of trading days explored
  MaxCrashes,     \* bound on the crashes of the process
  CrashPhases,    \* the phases of the day in which it may crash
  OutagePhases,   \* the phases whose end may find the process down
  AdminOps,       \* maintenance requests served: "clear_all", "clear_today", "reset"
  MaxAdmin,       \* bound on their number
  InsertMayFail   \* whether insert_signal may raise (the router goes on)

\* The clock's part of the day; SessionManager.current_state calls both ends CLOSED.
Phases == {"BEFORE", "PRE_OPEN", "OPEN", "CLOSING", "AFTER"}

ASSUME ConstantsAssumption ==
  /\ Level \subseteq Signals
  /\ Legacy \subseteq Signals
  /\ MaxDay \in Nat \ {0}
  /\ MaxCrashes \in Nat
  /\ CrashPhases \subseteq Phases
  /\ OutagePhases \subseteq Phases
  /\ AdminOps \subseteq {"clear_all", "clear_today", "reset"}
  /\ MaxAdmin \in Nat
  /\ InsertMayFail \in BOOLEAN

VARIABLES
  day, phase,      \* the IST clock: trading day and part of it
  pc,              \* what the main loop does next
  state,           \* session state read at the top of this iteration
  prevState,       \* session state of the previous iteration
  scanned,         \* signals of this iteration's scan, not yet registered
  toStore,         \* those the router has not handled yet
  outQ,            \* outcomes returned by the monitor, not yet written
  triggerQ, tp1Q,  \* marks drained from the monitor, not yet written
  stage,           \* the monitor's _open: stage of each tracked signal
  pendingTrigger,  \* _pending_trigger_marks
  pendingTp1,      \* _pending_tp1_marks
  emittedOn,       \* day of emission of each signal, 0 before it
  rows,            \* signals stored in india_signals
  triggeredAt,     \* rows with triggered_at set
  tp1TouchedAt,    \* rows with tp1_touched_at set
  outcome,         \* india_signal_outcomes, Undecided where there is no row
  resolvedOn,      \* day of each outcome row, 0 where there is none
  summary,         \* days with a row in india_session_summary
  request,         \* the maintenance request being served and its step
  crashes, requests

clockVars == <<day, phase>>
loopVars == <<state, prevState>>
queueVars == <<scanned, toStore, outQ, triggerQ, tp1Q>>
monitorVars == <<stage, pendingTrigger, pendingTp1>>
outcomeVars == <<outcome, resolvedOn>>
storeVars == <<rows, triggeredAt, tp1TouchedAt, outcome, resolvedOn, summary>>
adminVars == <<request, requests>>
vars == <<day, phase, pc, state, prevState, scanned, toStore, outQ, triggerQ,
          tp1Q, stage, pendingTrigger, pendingTp1, emittedOn, rows, triggeredAt,
          tp1TouchedAt, outcome, resolvedOn, summary, request, crashes, requests>>

NoState == "NONE"     \* prev_state before the first iteration
NoRequest == <<"idle", "none">>

(***************************************************************************)
(* The session clock.                                                      *)
(***************************************************************************)
SessionState(p) == IF p \in {"BEFORE", "AFTER"} THEN "CLOSED" ELSE p

NextPhase(p) ==
  [BEFORE |-> "PRE_OPEN", PRE_OPEN |-> "OPEN", OPEN |-> "CLOSING",
   CLOSING |-> "AFTER", AFTER |-> "BEFORE"][p]

\* A phase lasts at least fifteen minutes and an iteration about thirty
\* seconds, so a running loop has seen a phase before the next one starts.
Advance ==
  /\ IF pc = "down" THEN phase \in OutagePhases ELSE prevState = SessionState(phase)
  /\ phase = "AFTER" => day < MaxDay
  /\ phase' = NextPhase(phase)
  /\ day' = IF phase = "AFTER" THEN day + 1 ELSE day
  /\ UNCHANGED <<pc, loopVars, queueVars, monitorVars, emittedOn, storeVars,
                 adminVars, crashes>>

(***************************************************************************)
(* Boot and crash.                                                         *)
(***************************************************************************)

\* Mutation: the query joins nothing and returns decided signals too.
UnresolvedIncludesDecided == {s \in rows : emittedOn[s] = day}

\* Mutation: the query drops rows that carry no fill mark.
UnresolvedFilledOnly ==
  {s \in triggeredAt : emittedOn[s] = day /\ outcome[s] = Undecided}

\* get_unresolved_signals_today.
UnresolvedToday ==
  {s \in rows : emittedOn[s] = day /\ outcome[s] = Undecided}

\* The stage resume() gives to a stored row.
Resumed(s) == ResumedStage(s \in Level, s \in triggeredAt, s \in tp1TouchedAt)

\* Mutation: resume() registers the rows as new signals, marks forgotten.
BootForgetsMarks ==
  /\ pc = "down"
  /\ pc' = "sleep"
  /\ prevState' = NoState
  /\ stage' = [s \in Signals |-> IF s \in UnresolvedToday
                               THEN FirstStage(s \in Level) ELSE Untracked]
  /\ UNCHANGED <<clockVars, state, queueVars, pendingTrigger, pendingTp1,
                 emittedOn, storeVars, adminVars, crashes>>

\* _run up to the loop: nothing else runs before the API task is created.
Boot ==
  /\ pc = "down"
  /\ pc' = "sleep"
  /\ prevState' = NoState
  /\ stage' = [s \in Signals |->
                 IF s \in UnresolvedToday THEN Resumed(s) ELSE Untracked]
  /\ UNCHANGED <<clockVars, state, queueVars, pendingTrigger, pendingTp1,
                 emittedOn, storeVars, adminVars, crashes>>

\* The process dies (kill, self-exit of the watchdog, an exception out of a
\* database write of the loop): memory is lost, the database stays.  A crash
\* inside clear_history's open transaction is not modelled.
Crash ==
  /\ pc # "down"
  /\ crashes < MaxCrashes
  /\ phase \in CrashPhases
  /\ request = NoRequest
  /\ crashes' = crashes + 1
  /\ pc' = "down"
  /\ stage' = [s \in Signals |-> Untracked]
  /\ pendingTrigger' = {} /\ pendingTp1' = {}
  /\ scanned' = {} /\ toStore' = {}
  /\ outQ' = [s \in Signals |-> Undecided]
  /\ triggerQ' = {} /\ tp1Q' = {}
  /\ UNCHANGED <<clockVars, loopVars, emittedOn, storeVars, adminVars>>

(***************************************************************************)
(* The top of an iteration: read the session state, handle a transition.   *)
(***************************************************************************)

\* Where the iteration goes once the transition block is done.
BodyOf(st) ==
  IF st = "OPEN" THEN "scan" ELSE IF st = "CLOSING" THEN "check" ELSE "sleep"

\* PRE_OPEN -> OPEN or a boot into OPEN: the macro, edge and allocator loads
\* are awaited before the scan.
LoopOpens ==
  /\ pc = "sleep"
  /\ SessionState(phase) = "OPEN" /\ prevState # "OPEN"
  /\ state' = "OPEN"
  /\ pc' = "opening"
  /\ UNCHANGED <<clockVars, prevState, queueVars, monitorVars, emittedOn, storeVars,
                 adminVars, crashes>>

OpeningDone ==
  /\ pc = "opening"
  /\ prevState' = state
  /\ pc' = BodyOf(state)
  /\ UNCHANGED <<clockVars, state, queueVars, monitorVars, emittedOn, storeVars,
                 adminVars, crashes>>

\* Any state -> CLOSED, except on the first iteration after a boot.
LoopCloses ==
  /\ pc = "sleep"
  /\ SessionState(phase) = "CLOSED" /\ prevState \notin {"CLOSED", NoState}
  /\ state' = "CLOSED"
  /\ pc' = "check"
  /\ UNCHANGED <<clockVars, prevState, queueVars, monitorVars, emittedOn, storeVars,
                 adminVars, crashes>>

LoopContinues ==
  /\ pc = "sleep"
  /\ LET now == SessionState(phase) IN
       /\ \/ now = prevState
          \/ now \in {"PRE_OPEN", "CLOSING"}
          \/ now = "CLOSED" /\ prevState = NoState
       /\ state' = now
       /\ prevState' = now
       /\ pc' = BodyOf(now)
  /\ UNCHANGED <<clockVars, queueVars, monitorVars, emittedOn, storeVars,
                 adminVars, crashes>>

(***************************************************************************)
(* Scan, route, register.                                                  *)
(***************************************************************************)

\* scanner.scan emits any set of new signals (module GateChain says which).
\* With nothing to route the loop goes on to the monitor without an await.
Scan ==
  /\ pc = "scan"
  /\ \E new \in SUBSET {s \in Signals : emittedOn[s] = 0} :
       /\ emittedOn' = [s \in Signals |-> IF s \in new THEN day ELSE emittedOn[s]]
       /\ scanned' = new
       /\ toStore' = new
       /\ pc' = IF new = {} THEN "check" ELSE "route"
  /\ UNCHANGED <<clockVars, loopVars, outQ, triggerQ, tp1Q, monitorVars, storeVars,
                 adminVars, crashes>>

\* IndiaSignalRouter.route for one signal: INSERT OR IGNORE, or the insert
\* raises, is logged and the signal is skipped.
RouteSignal(s) ==
  /\ pc = "route"
  /\ s \in toStore
  /\ toStore' = toStore \ {s}
  /\ \/ rows' = rows \cup {s}
     \/ InsertMayFail /\ rows' = rows
  /\ UNCHANGED <<clockVars, pc, loopVars, scanned, outQ, triggerQ, tp1Q, monitorVars,
                 emittedOn, triggeredAt, tp1TouchedAt, outcomeVars, summary,
                 adminVars, crashes>>

\* route() has returned: monitor.register(signals, now) tracks every signal
\* of the scan, stored or not.
Register ==
  /\ pc = "route"
  /\ toStore = {}
  /\ stage' = [s \in Signals |->
                 IF s \in scanned /\ stage[s] = Untracked
                 THEN FirstStage(s \in Level) ELSE stage[s]]
  /\ scanned' = {}
  /\ pc' = "check"
  /\ UNCHANGED <<clockVars, loopVars, toStore, outQ, triggerQ, tp1Q, pendingTrigger,
                 pendingTp1, emittedOn, storeVars, adminVars, crashes>>

(***************************************************************************)
(* The trade monitor and the writes that follow it.                        *)
(***************************************************************************)
Open == {s \in Signals : stage[s] # Untracked}

\* monitor.check: each tracked signal is re-walked; a decided one leaves the
\* open set at once, before its outcome is written.
Check ==
  /\ pc = "check"
  /\ \E walk \in [Open -> TrackedStages \X (Outcomes \cup {Undecided})] :
       /\ \A s \in Open : walk[s] \in WalkFrom(stage[s], s \in Level, s \in Legacy)
       /\ stage' = [s \in Signals |->
                      IF s \in Open /\ walk[s][2] = Undecided
                      THEN walk[s][1] ELSE Untracked]
       /\ outQ' = [s \in Signals |-> IF s \in Open THEN walk[s][2] ELSE Undecided]
       /\ pendingTrigger' = pendingTrigger \cup
            {s \in Open : stage[s] = Pending /\ walk[s][1] # Pending}
       /\ pendingTp1' = pendingTp1 \cup
            {s \in Open : stage[s] # Banked /\ walk[s][1] = Banked}
  /\ pc' = "persist"
  /\ UNCHANGED <<clockVars, loopVars, scanned, toStore, triggerQ, tp1Q, emittedOn,
                 storeVars, adminVars, crashes>>

\* insert_outcome: INSERT OR IGNORE keyed by the signal's id, whether or not
\* the signal has a row.
WriteOutcome(s) ==
  /\ outQ[s] # Undecided
  /\ outQ' = [outQ EXCEPT ![s] = Undecided]
  /\ IF outcome[s] = Undecided
     THEN /\ outcome' = [outcome EXCEPT ![s] = outQ[s]]
          /\ resolvedOn' = [resolvedOn EXCEPT ![s] = day]
     ELSE UNCHANGED outcomeVars

NothingQueued == \A s \in Signals : outQ[s] = Undecided

PersistOutcome(s) ==
  /\ pc = "persist"
  /\ WriteOutcome(s)
  /\ UNCHANGED <<clockVars, pc, loopVars, scanned, toStore, triggerQ, tp1Q, monitorVars,
                 emittedOn, rows, triggeredAt, tp1TouchedAt, summary, adminVars, crashes>>

\* drain_trigger_marks.
DrainTriggerMarks ==
  /\ pc = "persist"
  /\ NothingQueued
  /\ triggerQ' = pendingTrigger
  /\ pendingTrigger' = {}
  /\ pc' = "trigger"
  /\ UNCHANGED <<clockVars, loopVars, scanned, toStore, outQ, tp1Q, stage, pendingTp1,
                 emittedOn, storeVars, adminVars, crashes>>

\* Mutation: the mark is an upsert and creates the row's mark anyway.
MarkTriggeredUpserts(s) ==
  /\ pc = "trigger"
  /\ s \in triggerQ
  /\ triggerQ' = triggerQ \ {s}
  /\ triggeredAt' = triggeredAt \cup {s}
  /\ UNCHANGED <<clockVars, pc, loopVars, scanned, toStore, outQ, tp1Q, monitorVars,
                 emittedOn, rows, tp1TouchedAt, outcomeVars, summary, adminVars, crashes>>

\* mark_triggered: an UPDATE, so a signal without a row gets no mark.
MarkTriggered(s) ==
  /\ pc = "trigger"
  /\ s \in triggerQ
  /\ triggerQ' = triggerQ \ {s}
  /\ triggeredAt' = triggeredAt \cup ({s} \cap rows)
  /\ UNCHANGED <<clockVars, pc, loopVars, scanned, toStore, outQ, tp1Q, monitorVars,
                 emittedOn, rows, tp1TouchedAt, outcomeVars, summary, adminVars, crashes>>

\* drain_tp1_marks.
DrainTp1Marks ==
  /\ pc = "trigger"
  /\ triggerQ = {}
  /\ tp1Q' = pendingTp1
  /\ pendingTp1' = {}
  /\ pc' = "tp1"
  /\ UNCHANGED <<clockVars, loopVars, scanned, toStore, outQ, triggerQ, stage,
                 pendingTrigger, emittedOn, storeVars, adminVars, crashes>>

MarkTp1Touched(s) ==
  /\ pc = "tp1"
  /\ s \in tp1Q
  /\ tp1Q' = tp1Q \ {s}
  /\ tp1TouchedAt' = tp1TouchedAt \cup ({s} \cap rows)
  /\ UNCHANGED <<clockVars, pc, loopVars, scanned, toStore, outQ, triggerQ, monitorVars,
                 emittedOn, rows, triggeredAt, outcomeVars, summary, adminVars, crashes>>

\* OPEN or CLOSING: the iteration is over; the feed watchdog is module
\* FeedWatchdog's.
MonitorDone ==
  /\ pc = "tp1"
  /\ tp1Q = {}
  /\ state # "CLOSED"
  /\ pc' = "sleep"
  /\ UNCHANGED <<clockVars, loopVars, queueVars, monitorVars, emittedOn, storeVars,
                 adminVars, crashes>>

(***************************************************************************)
(* The close of the session.                                               *)
(***************************************************************************)

\* Mutation: the sweep leaves unfilled LEVEL signals tracked.
ForceCloseFilled ==
  /\ pc = "tp1"
  /\ tp1Q = {}
  /\ state = "CLOSED"
  /\ outQ' = [s \in Signals |-> IF stage[s] \in {Live, Banked}
                              THEN ForcedOutcome(stage[s]) ELSE Undecided]
  /\ stage' = [s \in Signals |-> IF stage[s] = Pending THEN Pending ELSE Untracked]
  /\ pc' = "force"
  /\ UNCHANGED <<clockVars, loopVars, scanned, toStore, triggerQ, tp1Q, pendingTrigger,
                 pendingTp1, emittedOn, storeVars, adminVars, crashes>>

\* monitor.force_close_all: everything still open is decided and dropped.
ForceCloseAll ==
  /\ pc = "tp1"
  /\ tp1Q = {}
  /\ state = "CLOSED"
  /\ outQ' = [s \in Signals |->
                IF s \in Open THEN ForcedOutcome(stage[s]) ELSE Undecided]
  /\ stage' = [s \in Signals |-> Untracked]
  /\ pc' = "force"
  /\ UNCHANGED <<clockVars, loopVars, scanned, toStore, triggerQ, tp1Q, pendingTrigger,
                 pendingTp1, emittedOn, storeVars, adminVars, crashes>>

PersistForced(s) ==
  /\ pc = "force"
  /\ WriteOutcome(s)
  /\ UNCHANGED <<clockVars, pc, loopVars, scanned, toStore, triggerQ, tp1Q, monitorVars,
                 emittedOn, rows, triggeredAt, tp1TouchedAt, summary, adminVars, crashes>>

\* Mutation: the summary does not wait for the forced outcomes.
SummaryBeforeOutcomes ==
  /\ pc = "force"
  /\ summary' = summary \cup {day}
  /\ pc' = IF NothingQueued THEN "backup" ELSE pc
  /\ UNCHANGED <<clockVars, loopVars, queueVars, monitorVars, emittedOn, rows,
                 triggeredAt, tp1TouchedAt, outcomeVars, adminVars, crashes>>

\* Mutation: a day without signals writes no summary.
SummaryOfBusyDays ==
  /\ pc = "force"
  /\ NothingQueued
  /\ summary' = summary \cup {emittedOn[s] : s \in rows}
  /\ pc' = "backup"
  /\ UNCHANGED <<clockVars, loopVars, queueVars, monitorVars, emittedOn, rows,
                 triggeredAt, tp1TouchedAt, outcomeVars, adminVars, crashes>>

\* write_session_summary: one row per day, rewritten when it exists.
WriteSummary ==
  /\ pc = "force"
  /\ NothingQueued
  /\ summary' = summary \cup {day}
  /\ pc' = "backup"
  /\ UNCHANGED <<clockVars, loopVars, queueVars, monitorVars, emittedOn, rows,
                 triggeredAt, tp1TouchedAt, outcomeVars, adminVars, crashes>>

\* backup_database never raises and changes no table.
CloseDone ==
  /\ pc = "backup"
  /\ prevState' = state
  /\ pc' = BodyOf(state)
  /\ UNCHANGED <<clockVars, state, queueVars, monitorVars, emittedOn, storeVars,
                 adminVars, crashes>>

(***************************************************************************)
(* Maintenance requests.  clear_history deletes table after table with an  *)
(* await between two tables; the in-memory reset follows its commit        *)
(* without one.                                                            *)
(***************************************************************************)
AtAwait == pc \in {"sleep", "opening", "route", "persist", "trigger", "tp1",
                   "force", "backup"}

InScope(d) == request[2] = "clear_all" \/ d = day

\* The request arrives; clear_history's first DELETE is india_signals.
ClearSignals ==
  /\ AtAwait
  /\ request = NoRequest
  /\ requests < MaxAdmin
  /\ \E op \in AdminOps \ {"reset"} :
       LET kept == {s \in rows : op = "clear_today" /\ emittedOn[s] # day} IN
         /\ rows' = kept
         /\ triggeredAt' = triggeredAt \cap kept
         /\ tp1TouchedAt' = tp1TouchedAt \cap kept
         /\ request' = <<"outcomes", op>>
  /\ requests' = requests + 1
  /\ UNCHANGED <<clockVars, pc, loopVars, queueVars, monitorVars, emittedOn,
                 outcomeVars, summary, crashes>>

ClearOutcomes ==
  /\ AtAwait
  /\ request[1] = "outcomes"
  /\ outcome' = [s \in Signals |-> IF InScope(resolvedOn[s]) THEN Undecided
                                   ELSE outcome[s]]
  /\ resolvedOn' = [s \in Signals |-> IF InScope(resolvedOn[s]) THEN 0
                                      ELSE resolvedOn[s]]
  /\ request' = <<"summary", request[2]>>
  /\ UNCHANGED <<clockVars, pc, loopVars, queueVars, monitorVars, emittedOn, rows,
                 triggeredAt, tp1TouchedAt, summary, requests, crashes>>

\* Suppressions and summaries go last, then the commit.
ClearSummary ==
  /\ AtAwait
  /\ request[1] = "summary"
  /\ summary' = {d \in summary : ~InScope(d)}
  /\ request' = <<"memory", request[2]>>
  /\ UNCHANGED <<clockVars, pc, loopVars, queueVars, monitorVars, emittedOn, rows,
                 triggeredAt, tp1TouchedAt, outcomeVars, requests, crashes>>

\* _admin_state_reset: monitor.clear() drops every tracked signal and both
\* lists of pending marks.
ResetMemory ==
  /\ AtAwait
  /\ \/ /\ request[1] = "memory"
        /\ request' = NoRequest
        /\ UNCHANGED requests
     \/ /\ request = NoRequest
        /\ "reset" \in AdminOps
        /\ requests < MaxAdmin
        /\ requests' = requests + 1
        /\ UNCHANGED request
  /\ stage' = [s \in Signals |-> Untracked]
  /\ pendingTrigger' = {}
  /\ pendingTp1' = {}
  /\ UNCHANGED <<clockVars, pc, loopVars, queueVars, emittedOn, storeVars, crashes>>

(***************************************************************************)
(* The specification.                                                      *)
(***************************************************************************)
Init ==
  /\ day = 1 /\ phase = "BEFORE"
  /\ pc = "down" /\ state = "CLOSED" /\ prevState = NoState
  /\ scanned = {} /\ toStore = {}
  /\ outQ = [s \in Signals |-> Undecided]
  /\ triggerQ = {} /\ tp1Q = {}
  /\ stage = [s \in Signals |-> Untracked]
  /\ pendingTrigger = {} /\ pendingTp1 = {}
  /\ emittedOn = [s \in Signals |-> 0]
  /\ rows = {} /\ triggeredAt = {} /\ tp1TouchedAt = {}
  /\ outcome = [s \in Signals |-> Undecided]
  /\ resolvedOn = [s \in Signals |-> 0]
  /\ summary = {}
  /\ request = NoRequest
  /\ crashes = 0 /\ requests = 0

Transition == LoopOpens \/ OpeningDone \/ LoopCloses \/ LoopContinues
RouteStep == Scan \/ Register \/ \E s \in Signals : RouteSignal(s)
MonitorStep ==
  \/ Check \/ DrainTriggerMarks \/ DrainTp1Marks \/ MonitorDone
  \/ \E s \in Signals : PersistOutcome(s)
  \/ \E s \in Signals : MarkTriggered(s)
  \/ \E s \in Signals : MarkTp1Touched(s)
CloseStep ==
  ForceCloseAll \/ WriteSummary \/ CloseDone \/ \E s \in Signals : PersistForced(s)
LoopStep == Transition \/ RouteStep \/ MonitorStep \/ CloseStep
AdminStep == ClearSignals \/ ClearOutcomes \/ ClearSummary \/ ResetMemory

Next == Advance \/ Boot \/ Crash \/ LoopStep \/ AdminStep

Spec == Init /\ [][Next]_vars

\* The event loop keeps running the main coroutine, docker's `restart: always`
\* boots a dead process, and time passes.
FairSpec == Spec /\ WF_vars(LoopStep) /\ WF_vars(Boot) /\ WF_vars(Advance)
-----------------------------------------------------------------------------
(***************************************************************************)
(* Properties.                                                             *)
(***************************************************************************)
TypeOK ==
  /\ day \in 1..MaxDay /\ phase \in Phases
  /\ pc \in {"down", "sleep", "opening", "scan", "route", "check", "persist",
             "trigger", "tp1", "force", "backup"}
  /\ state \in {"CLOSED", "PRE_OPEN", "OPEN", "CLOSING"}
  /\ prevState \in {NoState, "CLOSED", "PRE_OPEN", "OPEN", "CLOSING"}
  /\ scanned \subseteq Signals /\ toStore \subseteq scanned
  /\ outQ \in [Signals -> Outcomes \cup {Undecided}]
  /\ triggerQ \subseteq Signals /\ tp1Q \subseteq Signals
  /\ stage \in [Signals -> Stages]
  /\ pendingTrigger \subseteq Signals /\ pendingTp1 \subseteq Signals
  /\ emittedOn \in [Signals -> Nat]
  /\ rows \subseteq Signals
  /\ triggeredAt \subseteq rows /\ tp1TouchedAt \subseteq rows
  /\ outcome \in [Signals -> Outcomes \cup {Undecided}]
  /\ resolvedOn \in [Signals -> Nat]
  /\ summary \subseteq Nat
  /\ request \in {"idle", "outcomes", "summary", "memory"}
                   \X {"none", "clear_all", "clear_today"}
  /\ crashes \in Nat /\ requests \in Nat

\* While the process is up, a signal stored today without an outcome is in the
\* monitor's open set, on its way there (scanned) or on its way to an outcome
\* (outQ): no interleaving of scan, route, check, crash and boot loses it.
NoLostSignal ==
  pc # "down" =>
    \A s \in rows : emittedOn[s] = day /\ outcome[s] = Undecided =>
      stage[s] # Untracked \/ s \in scanned \/ outQ[s] # Undecided

\* A signal is decided once: what the monitor tracks or hands over for writing
\* has no outcome row, so INSERT OR IGNORE never hides a second, different
\* verdict on the same trade.
DecidedOnce ==
  \A s \in Signals :
    /\ stage[s] # Untracked => outcome[s] = Undecided /\ outQ[s] = Undecided
    /\ outQ[s] # Undecided => outcome[s] = Undecided

\* The two marks and the outcome of a row tell one story: TP1 is never recorded
\* on a LEVEL entry without its fill, a recorded fill is never NOT_TRIGGERED,
\* and a recorded TP1 never ends unfilled, expired in full or, for a MARKET
\* entry, stopped out.
MarksAgree ==
  /\ tp1TouchedAt \cap Level \subseteq triggeredAt
  /\ \A s \in triggeredAt : outcome[s] # NotTriggered
  /\ \A s \in tp1TouchedAt : outcome[s] \in AfterTp1(s \in Level) \cup {Undecided}

\* The session summary counts a finished day: once it is written, every signal
\* stored that day has its outcome row.
SummaryIsComplete ==
  \A s \in rows : emittedOn[s] \in summary => outcome[s] # Undecided

\* A trade is decided by the session it was emitted in: "session ended" is an
\* outcome of its own, so no row is resolved on a later day.
ResolvedInItsSession ==
  \A s \in Signals : outcome[s] # Undecided => resolvedOn[s] = emittedOn[s]

\* The durable view of a signal, as module SignalLedger promises it.
LedgerView ==
  [s \in Signals |->
     IF s \notin rows THEN "ABSENT"
     ELSE IF outcome[s] # Undecided THEN outcome[s]
     ELSE Resumed(s)]

Ledger == INSTANCE SignalLedger WITH ledger <- LedgerView

\* The store implements the ledger: across crashes, restarts and lost marks a
\* row only moves forward and its outcome agrees with the marks before it.
LedgerSpec == Ledger!Spec

\* Every stored signal is decided, if each outage ends within its phase and
\* the close bookkeeping is not itself interrupted.
EventuallyDecided ==
  \A s \in Signals : s \in rows ~> outcome[s] # Undecided

\* Every trading day gets its summary row.
EventuallySummarised ==
  \A d \in 1..MaxDay : day = d /\ phase = "OPEN" ~> d \in summary
=============================================================================
