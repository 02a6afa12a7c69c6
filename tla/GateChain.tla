----------------------------- MODULE GateChain -----------------------------
(***************************************************************************)
(* The scanner's stateful gate chain: cooldowns, per-direction and daily   *)
(* caps, the direction-conflict window, the caps of one scan, the list of  *)
(* suppressions and the main loop's cursor into it, the router that writes *)
(* both to the store, and the rebuild of the gates from the store after a  *)
(* crash.  Code: src/src/scanner/__init__.py, src/src/main.py,             *)
(* src/src/signal_router.py.                                               *)
(*                                                                         *)
(* Time is a number that only grows; a unit stands for any fixed slice of  *)
(* a session.  A scan runs without an await: its candidates are taken one  *)
(* at a time (pc = "emit") and nothing else happens in between.            *)
(***************************************************************************)
EXTENDS Integers, FiniteSets, Sequences

CONSTANTS
  Setups, Bases, Directions,
  Group,            \* correlation group of each base (dependency.group_for)
  Cooldown,         \* _COOLDOWN_SEC, between two fires of a setup on a base
  ConflictWindow,   \* _CONFLICT_WINDOW_MIN, between opposite directions on a base
  MaxPerDirection,  \* emissions per base and direction and day
  MaxPerDay,        \* emissions per day over the universe, 0 = no cap
  MaxPerScan, MaxPerGroup, MaxPerSetup,   \* caps of one scan
  MaxNow, MaxDay, MaxScans, MaxCrashes,   \* bounds of the exploration
  MaxFound,         \* candidates one scan finds
  MaxMarket,        \* candidates of one scan the market gates may suppress
  InsertMayFail,    \* whether an insert may raise
  MaxResets         \* bound on the reset-gates requests

Groups == {Group[b] : b \in Bases}
None == "NONE"

ASSUME GatesAssumption ==
  /\ IsFiniteSet(Setups) /\ IsFiniteSet(Bases) /\ IsFiniteSet(Directions)
  /\ None \notin Directions
  /\ Group \in [Bases -> Groups]
  /\ Cooldown \in Nat /\ ConflictWindow \in Nat \ {0}
  /\ MaxPerDirection \in Nat /\ MaxPerDay \in Nat
  /\ MaxPerScan \in Nat /\ MaxPerGroup \in Nat /\ MaxPerSetup \in Nat
  /\ MaxNow \in Nat /\ MaxDay \in Nat /\ MaxScans \in Nat /\ MaxCrashes \in Nat
  /\ MaxFound \in Nat /\ MaxMarket \in Nat
  /\ InsertMayFail \in BOOLEAN
  /\ MaxResets \in Nat

VARIABLES
  now, day, phase,    \* the clock; phase is "SHUT" or "OPEN"
  pc,                 \* what the main loop does next
  prevState,          \* phase seen by the previous iteration
  scanNo,             \* serial number of the latest scan
  idleSince,          \* when the loop last went to sleep
  candidates,         \* survivors of the pre-score gates, still to be judged
  emitted,            \* signals emitted by the latest scan (per-scan counters)
  toStore,            \* those the router has not handled yet
  toLog, routedLen,   \* suppressions being routed; list length to remember
  lastFire,           \* _last_fire per setup and base, 0 = never
  lastDir, lastAt,    \* _last_base_emission
  emittedToday,       \* _emitted_today per base and direction
  totalToday,         \* _emitted_total_today
  suppressions,       \* _suppressions, as serial numbers
  nextSup,            \* next serial number
  persistedRef,       \* how many of the list have been persisted
  rows,               \* india_signals
  logged, dropped,    \* suppressions written, suppressions whose insert raised
  epoch,              \* number of reset-gates requests served
  cutShort,           \* history: one was served while the router was writing
  crashes

clockVars == <<now, day, phase>>
scanVars == <<scanNo, candidates, emitted>>
routeVars == <<toStore, toLog, routedLen>>
gateVars == <<lastFire, lastDir, lastAt, emittedToday, totalToday>>
listVars == <<suppressions, nextSup, persistedRef>>
storeVars == <<rows, logged, dropped>>
vars == <<now, day, phase, pc, prevState, scanNo, idleSince, candidates, emitted,
          toStore, toLog, routedLen, lastFire, lastDir, lastAt, emittedToday,
          totalToday, suppressions, nextSup, persistedRef, rows, logged, dropped,
          epoch, cutShort, crashes>>
resetVars == <<epoch, cutShort>>

Candidates == [setup : Setups, base : Bases, dir : Directions]
Signals == [setup : Setups, base : Bases, dir : Directions,
            scan : Nat, at : Nat, day : Nat, epoch : Nat]
Rows == [setup : Setups, base : Bases, dir : Directions,
         scan : Nat, at : Nat, day : Nat, epoch : Nat, created : Nat]

(***************************************************************************)
(* The clock.  Sessions alternate with closed time; a running loop has     *)
(* seen a phase before it ends, and an iteration does not straddle two.    *)
(***************************************************************************)
Tick ==
  /\ now < MaxNow
  /\ pc # "emit"
  /\ now' = now + 1
  /\ UNCHANGED <<day, phase, pc, prevState, idleSince, scanVars, routeVars,
                 gateVars, listVars, storeVars, resetVars, crashes>>

PhaseChange ==
  /\ pc = "loop" => prevState = phase
  /\ pc \in {"down", "loop"}
  /\ IF phase = "OPEN"
     THEN day < MaxDay /\ phase' = "SHUT" /\ day' = day + 1
     ELSE phase' = "OPEN" /\ day' = day
  /\ UNCHANGED <<now, pc, prevState, idleSince, scanVars, routeVars, gateVars,
                 listVars, storeVars, resetVars, crashes>>

(***************************************************************************)
(* Restart.                                                                *)
(***************************************************************************)
\* get_signals_today_for_gates.
RowsToday == {r \in rows : r.day = day}

\* The row written last among those of S; rehydrate reads them oldest first.
Newest(S) == CHOOSE r \in S : \A q \in S : q.created <= r.created

RowsOf(S, b, d) == {r \in S : r.base = b /\ r.dir = d}
OfSetup(S, s, b) == {r \in S : r.setup = s /\ r.base = b}
OfBase(S, b) == {r \in S : r.base = b}

\* Mutation: a boot starts with empty gates.
RehydrateNothing ==
  /\ lastFire' = [k \in Setups \X Bases |-> 0]
  /\ lastDir' = [b \in Bases |-> None]
  /\ lastAt' = [b \in Bases |-> 0]
  /\ emittedToday' = [k \in Bases \X Directions |-> 0]
  /\ totalToday' = 0

\* GateChain.rehydrate on an empty chain: a row counts from the time it was
\* written, the only one the database knows.
Rehydrate ==
  /\ lastFire' = [k \in Setups \X Bases |->
       LET fired == OfSetup(RowsToday, k[1], k[2]) IN
         IF fired = {} THEN 0 ELSE Newest(fired).created]
  /\ lastDir' = [b \in Bases |->
       IF OfBase(RowsToday, b) = {} THEN None ELSE Newest(OfBase(RowsToday, b)).dir]
  /\ lastAt' = [b \in Bases |->
       IF OfBase(RowsToday, b) = {} THEN 0 ELSE Newest(OfBase(RowsToday, b)).created]
  /\ emittedToday' = [k \in Bases \X Directions |->
                        Cardinality(RowsOf(RowsToday, k[1], k[2]))]
  /\ totalToday' = Cardinality(RowsToday)

\* A boot takes a while: the first scan is later than anything stored before.
Boot ==
  /\ pc = "down"
  /\ Rehydrate
  /\ pc' = "loop"
  /\ prevState' = None
  /\ idleSince' = now
  /\ UNCHANGED <<clockVars, scanNo, candidates, emitted, routeVars, listVars,
                 storeVars, resetVars, crashes>>

\* Mutation: signals in flight survive the process.
CrashKeepsQueue ==
  /\ pc \in {"loop", "route", "log"}
  /\ crashes < MaxCrashes
  /\ crashes' = crashes + 1
  /\ pc' = "down"
  /\ candidates' = {} /\ emitted' = {} /\ toLog' = <<>>
  /\ suppressions' = <<>> /\ persistedRef' = 0 /\ routedLen' = 0
  /\ cutShort' = FALSE
  /\ UNCHANGED <<clockVars, prevState, scanNo, idleSince, toStore, gateVars,
                 nextSup, storeVars, epoch>>

\* The process dies while the loop is suspended: memory is lost.
Crash ==
  /\ pc \in {"loop", "route", "log"}
  /\ crashes < MaxCrashes
  /\ crashes' = crashes + 1
  /\ pc' = "down"
  /\ candidates' = {} /\ emitted' = {} /\ toStore' = {} /\ toLog' = <<>>
  /\ suppressions' = <<>> /\ persistedRef' = 0 /\ routedLen' = 0
  /\ cutShort' = FALSE
  /\ UNCHANGED <<clockVars, prevState, scanNo, idleSince, gateVars, nextSup,
                 storeVars, epoch>>

(***************************************************************************)
(* The day.                                                                *)
(***************************************************************************)
\* GateChain.reset_day.
ResetDay ==
  /\ lastFire' = [k \in Setups \X Bases |-> 0]
  /\ lastDir' = [b \in Bases |-> None]
  /\ lastAt' = [b \in Bases |-> 0]
  /\ emittedToday' = [k \in Bases \X Directions |-> 0]
  /\ totalToday' = 0
  /\ suppressions' = <<>>
  /\ persistedRef' = 0

\* Mutation: every first iteration of a session resets the day, a boot into
\* an open session included.
OpenSessionAlwaysResets ==
  /\ pc = "loop"
  /\ prevState # phase
  /\ prevState' = phase
  /\ IF phase = "OPEN" THEN ResetDay /\ cutShort' = FALSE
     ELSE UNCHANGED <<gateVars, suppressions, persistedRef, cutShort>>
  /\ UNCHANGED <<clockVars, pc, idleSince, scanVars, routeVars, nextSup,
                 storeVars, epoch, crashes>>

\* The top of an iteration that sees a new state.  The day is reset on the
\* genuine open only, never on a boot into an open session.
NewState ==
  /\ pc = "loop"
  /\ prevState # phase
  /\ prevState' = phase
  /\ IF phase = "OPEN" /\ prevState = "SHUT" THEN ResetDay /\ cutShort' = FALSE
     ELSE UNCHANGED <<gateVars, suppressions, persistedRef, cutShort>>
  /\ UNCHANGED <<clockVars, pc, idleSince, scanVars, routeVars, nextSup,
                 storeVars, epoch, crashes>>

(***************************************************************************)
(* A scan.                                                                 *)
(***************************************************************************)
Serials(n) == [i \in 1..n |-> nextSup + i - 1]

\* Appends n suppressions to the list.
Suppress(n) ==
  /\ suppressions' = suppressions \o Serials(n)
  /\ nextSup' = nextSup + n

\* Mutation: the cooldown ends one unit early.
InCooldownOffByOne(c) ==
  /\ lastFire[<<c.setup, c.base>>] # 0
  /\ now - lastFire[<<c.setup, c.base>>] + 1 < Cooldown

\* _cooldown_gate.
InCooldown(c) ==
  /\ lastFire[<<c.setup, c.base>>] # 0
  /\ now - lastFire[<<c.setup, c.base>>] < Cooldown

\* An evaluator yields at most one candidate per base.
OnePerSetup(cs) ==
  \A c, e \in cs : c.setup = e.setup /\ c.base = e.base => c = e

\* begin_scan and the pre-score gates: the other seventeen gates and the
\* confidence floor read the market, so they may drop any candidate.
Scan ==
  /\ pc = "loop"
  /\ phase = "OPEN" /\ prevState = "OPEN"
  /\ idleSince < now /\ scanNo < MaxScans
  /\ \E found \in SUBSET Candidates, market \in 0..MaxMarket :
       /\ OnePerSetup(found) /\ Cardinality(found) <= MaxFound
       /\ candidates' = {c \in found : ~InCooldown(c)}
       /\ Suppress(market + Cardinality({c \in found : InCooldown(c)}))
  /\ emitted' = {}
  /\ scanNo' = scanNo + 1
  /\ pc' = "emit"
  /\ UNCHANGED <<clockVars, prevState, idleSince, routeVars, gateVars,
                 persistedRef, storeVars, resetVars, crashes>>

\* An iteration that finds nothing and has nothing to route.
QuietIteration == pc = "loop" /\ prevState = phase /\ UNCHANGED vars

SameGroup(c) == {e \in emitted : Group[e.base] = Group[c.base] /\ e.dir = c.dir}
SameSetup(c) == {e \in emitted : e.setup = c.setup /\ e.dir = c.dir}

\* direction_conflict_gate.
Whipsaw(c) ==
  /\ lastDir[c.base] \notin {None, c.dir}
  /\ now - lastAt[c.base] < ConflictWindow

\* Mutation: the scan's own emissions are not counted.
PassesWithoutScanCaps(c) ==
  /\ emittedToday[<<c.base, c.dir>>] < MaxPerDirection
  /\ ~Whipsaw(c)
  /\ MaxPerDay > 0 => totalToday < MaxPerDay

\* check_emission, without the two gates that read prices or the edge ledger.
Passes(c) ==
  /\ emittedToday[<<c.base, c.dir>>] < MaxPerDirection
  /\ ~Whipsaw(c)
  /\ Cardinality(SameGroup(c)) < MaxPerGroup
  /\ Cardinality(SameSetup(c)) < MaxPerSetup
  /\ Cardinality(emitted) < MaxPerScan
  /\ MaxPerDay > 0 => totalToday < MaxPerDay

\* record_emission.
Emit(c) ==
  /\ pc = "emit"
  /\ c \in candidates
  /\ Passes(c)
  /\ candidates' = candidates \ {c}
  /\ emitted' = emitted \cup
       {[setup |-> c.setup, base |-> c.base, dir |-> c.dir,
         scan |-> scanNo, at |-> now, day |-> day, epoch |-> epoch]}
  /\ lastFire' = [lastFire EXCEPT ![<<c.setup, c.base>>] = now]
  /\ lastDir' = [lastDir EXCEPT ![c.base] = c.dir]
  /\ lastAt' = [lastAt EXCEPT ![c.base] = now]
  /\ emittedToday' = [emittedToday EXCEPT ![<<c.base, c.dir>>] = @ + 1]
  /\ totalToday' = totalToday + 1
  /\ UNCHANGED <<clockVars, pc, prevState, scanNo, idleSince, routeVars,
                 listVars, storeVars, resetVars, crashes>>

\* A candidate the emission gates reject; the gates on prices and on the
\* allocator's verdicts may also reject one that passes the others.
Reject(c) ==
  /\ pc = "emit"
  /\ c \in candidates
  /\ candidates' = candidates \ {c}
  /\ Suppress(1)
  /\ UNCHANGED <<clockVars, pc, prevState, scanNo, idleSince, emitted,
                 routeVars, gateVars, persistedRef, storeVars, resetVars, crashes>>

\* The tail of the list beyond the cursor.
NewSuppressions == SubSeq(suppressions, persistedRef + 1, Len(suppressions))

\* scan() returns; the router is entered unless there is nothing to route.
ScanDone ==
  /\ pc = "emit"
  /\ candidates = {}
  /\ IF emitted = {} /\ NewSuppressions = <<>>
     THEN pc' = "loop" /\ idleSince' = now /\ UNCHANGED routeVars
     ELSE /\ pc' = "route"
          /\ UNCHANGED idleSince
          /\ toStore' = emitted
          /\ toLog' = NewSuppressions
          /\ routedLen' = Len(suppressions)
  /\ UNCHANGED <<clockVars, prevState, scanVars, gateVars, listVars, storeVars,
                 resetVars, crashes>>

(***************************************************************************)
(* The router.                                                             *)
(***************************************************************************)
RowOf(s) == [setup |-> s.setup, base |-> s.base, dir |-> s.dir, scan |-> s.scan,
             at |-> s.at, day |-> s.day, epoch |-> s.epoch, created |-> now]

StoreSignal(s) ==
  /\ pc = "route"
  /\ s \in toStore
  /\ toStore' = toStore \ {s}
  /\ \/ rows' = rows \cup {RowOf(s)}
     \/ InsertMayFail /\ rows' = rows
  /\ UNCHANGED <<clockVars, pc, prevState, idleSince, scanVars, toLog,
                 routedLen, gateVars, listVars, logged, dropped, resetVars,
                 crashes>>

SignalsStored ==
  /\ pc = "route"
  /\ toStore = {}
  /\ pc' = "log"
  /\ UNCHANGED <<clockVars, prevState, idleSince, scanVars, routeVars, gateVars,
                 listVars, storeVars, resetVars, crashes>>

LogSuppression ==
  /\ pc = "log"
  /\ toLog # <<>>
  /\ toLog' = Tail(toLog)
  /\ \/ logged' = logged \cup {Head(toLog)} /\ dropped' = dropped
     \/ InsertMayFail /\ logged' = logged /\ dropped' = dropped \cup {Head(toLog)}
  /\ UNCHANGED <<clockVars, pc, prevState, idleSince, scanVars, toStore,
                 routedLen, gateVars, listVars, rows, resetVars, crashes>>

\* Mutation: the cursor stays where it was.
RouteDoneCursorStays ==
  /\ pc = "log"
  /\ toLog = <<>>
  /\ pc' = "loop"
  /\ idleSince' = now
  /\ UNCHANGED <<clockVars, prevState, scanVars, routeVars, gateVars, listVars,
                 storeVars, resetVars, crashes>>

\* Mutation: the cursor moves by one scan's suppressions too many.
RouteDoneSkipsOne ==
  /\ pc = "log"
  /\ toLog = <<>>
  /\ pc' = "loop"
  /\ idleSince' = now
  /\ persistedRef' = routedLen + 1
  /\ UNCHANGED <<clockVars, prevState, scanVars, routeVars, gateVars,
                 suppressions, nextSup, storeVars, resetVars, crashes>>

\* route() has returned: the cursor is the length of the list it was given.
RouteDone ==
  /\ pc = "log"
  /\ toLog = <<>>
  /\ pc' = "loop"
  /\ idleSince' = now
  /\ persistedRef' = routedLen
  /\ UNCHANGED <<clockVars, prevState, scanVars, routeVars, gateVars,
                 suppressions, nextSup, storeVars, resetVars, crashes>>

\* _admin_state_reset, served while the loop is suspended.
AdminReset ==
  /\ pc \in {"loop", "route", "log"}
  /\ epoch < MaxResets
  /\ epoch' = epoch + 1
  /\ cutShort' = (pc # "loop")
  /\ ResetDay
  /\ UNCHANGED <<clockVars, pc, prevState, idleSince, scanVars, routeVars,
                 nextSup, storeVars, crashes>>

(***************************************************************************)
(* The specification.                                                      *)
(***************************************************************************)
Init ==
  /\ now = 1 /\ day = 1 /\ phase = "SHUT"
  /\ pc = "down" /\ prevState = None
  /\ scanNo = 0 /\ idleSince = 0 /\ candidates = {} /\ emitted = {}
  /\ toStore = {} /\ toLog = <<>> /\ routedLen = 0
  /\ lastFire = [k \in Setups \X Bases |-> 0]
  /\ lastDir = [b \in Bases |-> None]
  /\ lastAt = [b \in Bases |-> 0]
  /\ emittedToday = [k \in Bases \X Directions |-> 0]
  /\ totalToday = 0
  /\ suppressions = <<>> /\ nextSup = 1 /\ persistedRef = 0
  /\ rows = {} /\ logged = {} /\ dropped = {}
  /\ epoch = 0 /\ cutShort = FALSE /\ crashes = 0

ScanStep == Scan \/ ScanDone \/ \E c \in candidates : Emit(c) \/ Reject(c)
RouteStep ==
  SignalsStored \/ LogSuppression \/ RouteDone \/ \E s \in toStore : StoreSignal(s)

Next ==
  \/ Tick \/ PhaseChange \/ Boot \/ Crash \/ NewState \/ QuietIteration
  \/ ScanStep \/ RouteStep \/ AdminReset

Spec == Init /\ [][Next]_vars
-----------------------------------------------------------------------------
(***************************************************************************)
(* Properties.                                                             *)
(***************************************************************************)
ClockOK ==
  /\ now \in Nat \ {0} /\ day \in Nat /\ phase \in {"SHUT", "OPEN"}
  /\ pc \in {"down", "loop", "emit", "route", "log"}
  /\ prevState \in {None, "SHUT", "OPEN"}
  /\ scanNo \in Nat /\ idleSince \in Nat
  /\ epoch \in Nat /\ cutShort \in BOOLEAN /\ crashes \in Nat

ScanOK ==
  /\ candidates \subseteq Candidates
  /\ emitted \subseteq Signals /\ toStore \subseteq emitted

GatesOK ==
  /\ lastFire \in [Setups \X Bases -> Nat]
  /\ lastDir \in [Bases -> Directions \cup {None}]
  /\ lastAt \in [Bases -> Nat]
  /\ emittedToday \in [Bases \X Directions -> Nat] /\ totalToday \in Nat

ListOK ==
  /\ suppressions \in Seq(Nat) /\ nextSup \in Nat /\ persistedRef \in Nat
  /\ toLog \in Seq(Nat) /\ routedLen \in Nat

StoreOK == rows \subseteq Rows /\ logged \subseteq Nat /\ dropped \subseteq Nat

TypeOK == ClockOK /\ ScanOK /\ GatesOK /\ ListOK /\ StoreOK

\* The daily caps hold for what was stored, however often the process was
\* restarted during the day: only reset-gates opens a new budget.
DailyCaps ==
  \A d \in {r.day : r \in rows}, e \in 0..epoch :
    LET ofDay == {r \in rows : r.day = d /\ r.epoch = e} IN
      /\ MaxPerDay > 0 => Cardinality(ofDay) <= MaxPerDay
      /\ \A b \in Bases, x \in Directions :
           Cardinality(RowsOf(ofDay, b, x)) <= MaxPerDirection

\* No whipsaw: within a day, opposite directions on one base are emitted at
\* least the conflict window apart, across restarts.
NoWhipsaw ==
  \A r, q \in rows :
    r.day = q.day /\ r.epoch = q.epoch
      /\ r.base = q.base /\ r.dir # q.dir /\ r.at <= q.at =>
        q.at - r.at >= ConflictWindow

\* A setup does not fire twice on a base within its cooldown, across restarts.
CooldownKept ==
  \A r, q \in rows :
    r.day = q.day /\ r.epoch = q.epoch /\ r.scan < q.scan
      /\ r.setup = q.setup /\ r.base = q.base => q.at - r.at >= Cooldown

\* What one scan stores respects the caps of a scan.
ScanCaps ==
  \A r \in rows :
    LET scan == {q \in rows : q.scan = r.scan} IN
      /\ Cardinality(scan) <= MaxPerScan
      /\ Cardinality({q \in scan : Group[q.base] = Group[r.base] /\ q.dir = r.dir})
           <= MaxPerGroup
      /\ Cardinality({q \in scan : q.setup = r.setup /\ q.dir = r.dir}) <= MaxPerSetup

\* No suppression is handed to the store twice.
LoggedOnce == \A i \in 1..Len(toLog) : toLog[i] \notin logged \cup dropped

\* Between two iterations every suppression in the list has been handed to the
\* store, unless a reset-gates request was served while the router was writing:
\* the cursor then points beyond the list it was measured on.
NoneSkipped ==
  pc = "loop" /\ ~cutShort =>
    \A i \in 1..Len(suppressions) : suppressions[i] \in logged \cup dropped
=============================================================================
