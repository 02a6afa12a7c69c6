--------------------------- MODULE GateChainProofs ---------------------------
(***************************************************************************)
(* Proofs about module GateChain, for any setups, instruments, directions, *)
(* limits and bounds: what the list of suppressions and its cursor say of  *)
(* each other, that neither a restart nor a scan loses the memory the      *)
(* cooldown and the conflict window are judged by, and that the caps hold  *)
(* over what is stored.                                                    *)
(***************************************************************************)
EXTENDS GateChain, FiniteSetTheorems, WellFoundedInduction, TLAPS

\* What is known of a signal, stored or of the latest scan.
Known == rows \cup emitted

\* Nothing is dated in the future.
Times ==
  /\ idleSince <= now
  /\ \A r \in rows : r.at <= r.created /\ r.created <= now
  /\ \A r \in Known : /\ 0 < r.at /\ r.at <= now
                      /\ r.day <= day /\ r.epoch <= epoch /\ r.scan <= scanNo
  /\ \A b \in Bases : lastAt[b] <= now

\* The router's queues are filled only while it works.
Queues ==
  /\ pc # "route" => toStore = {}
  /\ pc \notin {"route", "log"} => toLog = <<>>
  /\ IsFiniteSet(rows)

Typed == TypeOK /\ Times /\ Queues

LEMMA KnownTypes ==
  ASSUME TypeOK, NEW r \in Known
  PROVE  /\ r.setup \in Setups /\ r.base \in Bases /\ r.dir \in Directions
         /\ r.scan \in Nat /\ r.at \in Nat /\ r.day \in Nat /\ r.epoch \in Nat
         /\ r \in rows => r.created \in Nat
  BY DEF TypeOK, ScanOK, StoreOK, Known, Rows, Signals

\* Of rows that are not empty and not from the future one was written last.
LEMMA NewestIsThere ==
  ASSUME NEW S, S # {}, NEW limit \in Nat,
         \A r \in S : r.created \in Nat /\ r.created <= limit
  PROVE  Newest(S) \in S /\ \A q \in S : q.created <= Newest(S).created
<1> DEFINE ages == {k \in Nat : \E r \in S : k = limit - r.created}
           less == {pair \in Nat \X Nat : pair[1] < pair[2]}
<1>1. ages \subseteq Nat /\ ages # {}
  <2>1. PICK r \in S : TRUE
    OBVIOUS
  <2>2. limit - r.created \in ages
    BY <2>1
  <2> QED
    BY <2>2
<1>2. IsWellFoundedOn(less, Nat)
  BY NatLessThanWellFounded, Zenon DEF OpToRel
<1>3. PICK k \in ages : \A j \in ages : ~ (<<j, k>> \in less)
  <2> HIDE DEF ages, less
  <2> QED
    BY <1>1, <1>2, WFMin
<1>4. PICK r \in S : k = limit - r.created
  BY <1>3
<1>5. \A q \in S : q.created <= r.created
  <2> SUFFICES ASSUME NEW q \in S PROVE q.created <= r.created
    OBVIOUS
  <2>1. limit - q.created \in ages /\ limit - q.created \in Nat
    OBVIOUS
  <2>2. ~ (limit - q.created < k)
    BY <1>3, <2>1
  <2> QED
    BY <1>4, <2>2
<1>6. \E n \in S : \A q \in S : q.created <= n.created
  BY <1>5
<1> QED
  BY <1>6 DEF Newest

\* What the gates are after a restart.
LEMMA RehydrateTypes ==
  ASSUME Typed, Rehydrate
  PROVE  /\ lastFire' \in [Setups \X Bases -> Nat]
         /\ lastDir' \in [Bases -> Directions \cup {None}]
         /\ lastAt' \in [Bases -> Nat]
         /\ \A b \in Bases : lastAt'[b] <= now
         /\ emittedToday' \in [Bases \X Directions -> Nat] /\ totalToday' \in Nat
<1>1. \A r \in rows : r.created \in Nat /\ r.created <= now /\ r.dir \in Directions
  BY DEF Typed, TypeOK, StoreOK, Times, Rows
<1>2. now \in Nat
  BY DEF Typed, TypeOK, ClockOK
<1>3. ASSUME NEW S \in SUBSET rows, S # {}
      PROVE  Newest(S) \in rows
  BY <1>1, <1>2, <1>3, NewestIsThere
<1>4. lastFire' \in [Setups \X Bases -> Nat]
  <2> SUFFICES ASSUME NEW k \in Setups \X Bases, OfSetup(RowsToday, k[1], k[2]) # {}
               PROVE  Newest(OfSetup(RowsToday, k[1], k[2])).created \in Nat
    BY DEF Rehydrate
  <2> QED
    BY <1>1, <1>3 DEF OfSetup, RowsToday
<1>5. \A b \in Bases : OfBase(RowsToday, b) # {} => Newest(OfBase(RowsToday, b)) \in rows
  BY <1>3 DEF OfBase, RowsToday
<1> HIDE DEF OfBase, RowsToday
<1>6. lastDir' \in [Bases -> Directions \cup {None}]
  BY <1>1, <1>5 DEF Rehydrate
<1>7. lastAt' \in [Bases -> Nat] /\ \A b \in Bases : lastAt'[b] <= now
  BY <1>1, <1>2, <1>5 DEF Rehydrate
<1>8. \A S \in SUBSET rows : Cardinality(S) \in Nat
  BY FS_Subset, FS_CardinalityType DEF Typed, Queues
<1>9. emittedToday' \in [Bases \X Directions -> Nat] /\ totalToday' \in Nat
  BY <1>8 DEF Rehydrate, RowsOf, RowsToday
<1> QED
  BY <1>4, <1>6, <1>7, <1>9

\* The list stays a list of serial numbers.
LEMMA SuppressTypes ==
  ASSUME TypeOK, NEW n \in Nat, Suppress(n)
  PROVE  suppressions' \in Seq(Nat) /\ nextSup' \in Nat
<1>1. Serials(n) \in Seq(Nat)
  BY DEF Serials, TypeOK, ListOK
<1> QED
  BY <1>1 DEF Suppress, TypeOK, ListOK

\* There are finitely many candidates.
LEMMA FewCandidates == IsFiniteSet(Candidates)
<1> DEFINE Triples == (Setups \X Bases) \X Directions
           f == [t \in Triples |-> [setup |-> t[1][1], base |-> t[1][2], dir |-> t[2]]]
<1>1. IsFiniteSet(Triples)
  BY GatesAssumption, FS_Product
<1>2. f \in Surjection(Triples, Candidates)
  <2>1. f \in [Triples -> Candidates]
    BY DEF Candidates
  <2>2. ASSUME NEW c \in Candidates
        PROVE  \E t \in Triples : f[t] = c
    <3>1. <<<<c.setup, c.base>>, c.dir>> \in Triples
      BY DEF Candidates
    <3>2. f[<<<<c.setup, c.base>>, c.dir>>] = c
      BY <3>1 DEF Candidates
    <3> QED
      BY <3>1, <3>2
  <2> QED
    BY <2>1, <2>2 DEF Surjection
<1> QED
  BY <1>1, <1>2, FS_Surjection

\* Every variable keeps its type.
LEMMA TypeStep == Typed /\ [Next]_vars => TypeOK'
<1> SUFFICES ASSUME Typed, [Next]_vars PROVE TypeOK'
  OBVIOUS
<1> USE DEF TypeOK, clockVars, scanVars, routeVars, gateVars, listVars, storeVars, resetVars
<1>0. TypeOK
  BY DEF Typed
<1>20. UNCHANGED gateVars => GatesOK'
  BY <1>0 DEF GatesOK
<1>21. UNCHANGED <<listVars, toLog, routedLen>> => ListOK'
  BY <1>0 DEF ListOK
<1>22. UNCHANGED storeVars => StoreOK'
  BY <1>0 DEF StoreOK
<1>23. UNCHANGED <<candidates, emitted, toStore>> => ScanOK'
  BY <1>0 DEF ScanOK
<1>24. UNCHANGED <<now, day, phase, pc, prevState, scanNo, idleSince, epoch, cutShort, crashes>>
       => ClockOK'
  BY <1>0 DEF ClockOK
<1> HIDE DEF TypeOK
<1>1. CASE Tick
  <2>1. ClockOK'
    BY <1>0, <1>1 DEF Tick, TypeOK, ClockOK
  <2> QED
    BY <2>1, <1>1, <1>20, <1>21, <1>22, <1>23 DEF Tick, TypeOK
<1>2. CASE PhaseChange
  <2>1. ClockOK'
    BY <1>0, <1>2 DEF PhaseChange, TypeOK, ClockOK
  <2> QED
    BY <2>1, <1>2, <1>20, <1>21, <1>22, <1>23 DEF PhaseChange, TypeOK
<1>3. CASE Boot
  <2>1. ClockOK'
    BY <1>0, <1>3 DEF Boot, TypeOK, ClockOK
  <2>3. GatesOK'
    BY <1>3, RehydrateTypes DEF Boot, GatesOK
  <2> QED
    BY <2>1, <2>3, <1>3, <1>21, <1>22, <1>23 DEF Boot, TypeOK
<1>4. CASE Crash
  <2>1. cutShort' \in BOOLEAN
    BY <1>4 DEF Crash
  <2>2. /\ now' = now /\ day' = day /\ phase' = phase /\ prevState' = prevState
        /\ scanNo' = scanNo /\ idleSince' = idleSince /\ epoch' = epoch
    BY <1>4 DEF Crash
  <2>3. pc' = "down" /\ crashes' = crashes + 1
    BY <1>4 DEF Crash
  <2>4. ClockOK'
    BY <1>0, <2>1, <2>2, <2>3 DEF TypeOK, ClockOK
  <2>5. ScanOK'
    BY <1>4 DEF Crash, ScanOK
  <2>6. ListOK'
    BY <1>0, <1>4 DEF Crash, TypeOK, ListOK
  <2> QED
    BY <2>4, <2>5, <2>6, <1>4, <1>20, <1>22 DEF Crash, TypeOK
<1>30. ASSUME ResetDay, UNCHANGED <<nextSup, toLog, routedLen>>
       PROVE  GatesOK' /\ ListOK'
  BY <1>0, <1>30 DEF ResetDay, TypeOK, GatesOK, ListOK
<1>5. CASE NewState
  <2>1. ClockOK'
    BY <1>0, <1>5 DEF NewState, TypeOK, ClockOK
  <2>2. GatesOK' /\ ListOK'
    BY <1>5, <1>20, <1>21, <1>30 DEF NewState
  <2> QED
    BY <2>1, <2>2, <1>5, <1>22, <1>23 DEF NewState, TypeOK
<1>6. CASE Scan
  <2>1. PICK found \in SUBSET Candidates, market \in 0..MaxMarket :
          /\ candidates' = {c \in found : ~InCooldown(c)}
          /\ Suppress(market + Cardinality({c \in found : InCooldown(c)}))
    BY <1>6 DEF Scan
  <2>2. market + Cardinality({c \in found : InCooldown(c)}) \in Nat
    <3>1. {c \in found : InCooldown(c)} \subseteq Candidates
      OBVIOUS
    <3>2. IsFiniteSet({c \in found : InCooldown(c)})
      BY <3>1, FewCandidates, FS_Subset
    <3> QED
      BY <3>2, FS_CardinalityType, GatesAssumption
  <2>3. suppressions' \in Seq(Nat) /\ nextSup' \in Nat
    BY <1>0, <2>1, <2>2, SuppressTypes
  <2>4. ListOK'
    BY <1>0, <1>6, <2>3 DEF Scan, TypeOK, ListOK
  <2>5. ClockOK'
    BY <1>0, <1>6 DEF Scan, TypeOK, ClockOK
  <2>6. ScanOK'
    <3>1. candidates' \subseteq Candidates
      BY <2>1
    <3>2. emitted' = {} /\ toStore' = {}
      BY <1>6 DEF Scan, Typed, Queues
    <3> QED
      BY <3>1, <3>2 DEF ScanOK
  <2> QED
    BY <2>4, <2>5, <2>6, <1>6, <1>20, <1>22 DEF Scan, TypeOK
<1>7. CASE \E c \in candidates : Emit(c)
  <2>1. PICK c \in candidates : Emit(c)
    BY <1>7
  <2>2. c \in Candidates
    BY <1>0 DEF TypeOK, ScanOK
  <2>3. ClockOK' /\ ScanOK'
    <3>1. [setup |-> c.setup, base |-> c.base, dir |-> c.dir,
           scan |-> scanNo, at |-> now, day |-> day, epoch |-> epoch] \in Signals
      BY <1>0, <2>2 DEF TypeOK, ClockOK, Signals, Candidates
    <3> QED
      BY <1>0, <2>1, <3>1 DEF Emit, TypeOK, ClockOK, ScanOK
  <2>4. GatesOK'
    BY <1>0, <2>1, <2>2 DEF Emit, TypeOK, ClockOK, GatesOK, Candidates
  <2> QED
    BY <2>1, <2>3, <2>4, <1>21, <1>22 DEF Emit, TypeOK
<1>8. CASE \E c \in candidates : Reject(c)
  <2>1. PICK c \in candidates : Reject(c)
    BY <1>8
  <2>2. suppressions' \in Seq(Nat) /\ nextSup' \in Nat
    BY <1>0, <2>1, SuppressTypes DEF Reject
  <2>3. ClockOK' /\ ScanOK' /\ ListOK'
    BY <1>0, <2>1, <2>2 DEF Reject, TypeOK, ClockOK, ScanOK, ListOK
  <2> QED
    BY <2>1, <2>3, <1>20, <1>22 DEF Reject, TypeOK
<1>9. CASE ScanDone
  <2>1. NewSuppressions \in Seq(Nat)
    BY <1>0 DEF NewSuppressions, TypeOK, ListOK
  <2>2. ClockOK' /\ ScanOK' /\ ListOK'
    BY <1>0, <1>9, <2>1 DEF ScanDone, TypeOK, ClockOK, ScanOK, ListOK
  <2> QED
    BY <2>2, <1>9, <1>20, <1>22 DEF ScanDone, TypeOK
<1>10. CASE \E s \in toStore : StoreSignal(s)
  <2>1. PICK s \in toStore : StoreSignal(s)
    BY <1>10
  <2>2. s \in Signals
    BY <1>0 DEF TypeOK, ScanOK
  <2>3. RowOf(s) \in Rows
    BY <1>0, <2>2 DEF RowOf, Rows, Signals, TypeOK, ClockOK
  <2>4. StoreOK' /\ ScanOK' /\ ClockOK'
    BY <1>0, <2>1, <2>3 DEF StoreSignal, TypeOK, StoreOK, ScanOK, ClockOK
  <2> QED
    BY <2>1, <2>4, <1>20, <1>21 DEF StoreSignal, TypeOK
<1>11. CASE SignalsStored
  <2>1. ClockOK'
    BY <1>0, <1>11 DEF SignalsStored, TypeOK, ClockOK
  <2> QED
    BY <2>1, <1>11, <1>20, <1>21, <1>22, <1>23 DEF SignalsStored, TypeOK
<1>12. CASE LogSuppression
  <2>1. Head(toLog) \in Nat /\ Tail(toLog) \in Seq(Nat)
    BY <1>0, <1>12 DEF LogSuppression, TypeOK, ListOK
  <2>2. ListOK' /\ ClockOK'
    BY <1>0, <1>12, <2>1 DEF LogSuppression, TypeOK, ListOK, ClockOK
  <2>3. StoreOK'
    BY <1>0, <1>12, <2>1 DEF LogSuppression, TypeOK, StoreOK
  <2> QED
    BY <2>2, <2>3, <1>12, <1>20, <1>23 DEF LogSuppression, TypeOK
<1>13. CASE RouteDone
  <2>1. ListOK' /\ ClockOK'
    BY <1>0, <1>13 DEF RouteDone, TypeOK, ListOK, ClockOK
  <2> QED
    BY <2>1, <1>13, <1>20, <1>22, <1>23 DEF RouteDone, TypeOK
<1>14. CASE AdminReset
  <2>1. ClockOK'
    BY <1>0, <1>14 DEF AdminReset, TypeOK, ClockOK
  <2>2. GatesOK' /\ ListOK'
    BY <1>14, <1>30 DEF AdminReset
  <2> QED
    BY <2>1, <2>2, <1>14, <1>22, <1>23 DEF AdminReset, TypeOK
<1>15. CASE UNCHANGED vars
  BY <1>15, <1>20, <1>21, <1>22, <1>23, <1>24 DEF vars, TypeOK
<1> QED
  BY <1>1, <1>2, <1>3, <1>4, <1>5, <1>6, <1>7, <1>8, <1>9, <1>10, <1>11, <1>12,
     <1>13, <1>14, <1>15 DEF Next, ScanStep, RouteStep, QuietIteration

\* What a stored row takes over from its signal.
LEMMA RowFields ==
  ASSUME NEW s
  PROVE  /\ RowOf(s).setup = s.setup /\ RowOf(s).base = s.base /\ RowOf(s).dir = s.dir
         /\ RowOf(s).scan = s.scan /\ RowOf(s).at = s.at
         /\ RowOf(s).day = s.day /\ RowOf(s).epoch = s.epoch
         /\ RowOf(s).created = now
  BY DEF RowOf

\* Nothing is dated in the future after a step either.
LEMMA TimesStep == Typed /\ [Next]_vars => Times'
<1> SUFFICES ASSUME Typed, [Next]_vars PROVE Times'
  OBVIOUS
<1> USE DEF clockVars, scanVars, routeVars, gateVars, listVars, storeVars, resetVars
<1>0. TypeOK /\ Times /\ (pc # "route" => toStore = {})
  BY DEF Typed, Queues
<1>1. \A r \in Known : r.at \in Nat /\ r.day \in Nat /\ r.epoch \in Nat /\ r.scan \in Nat
  BY <1>0, KnownTypes
<1>2. \A r \in rows : r.created \in Nat /\ r \in Known
  BY <1>0, KnownTypes DEF Known
<1>3. /\ now \in Nat /\ day \in Nat /\ epoch \in Nat /\ scanNo \in Nat /\ idleSince \in Nat
      /\ 0 < now /\ \A b \in Bases : lastAt[b] \in Nat
  BY <1>0 DEF TypeOK, ClockOK, GatesOK
<1>4. CASE Tick
  BY <1>0, <1>1, <1>2, <1>3, <1>4 DEF Tick, Times, Known
<1>5. CASE PhaseChange
  BY <1>0, <1>1, <1>3, <1>5 DEF PhaseChange, Times, Known
<1>6. CASE Boot
  BY <1>0, <1>3, <1>6, RehydrateTypes DEF Boot, Times, Known
<1>7. CASE Crash
  BY <1>0, <1>7 DEF Crash, Times, Known
<1>8. ASSUME ResetDay PROVE \A b \in Bases : lastAt'[b] <= now
  BY <1>3, <1>8 DEF ResetDay
<1>9. CASE NewState
  BY <1>0, <1>8, <1>9 DEF NewState, Times, Known
<1>10. CASE Scan
  BY <1>0, <1>1, <1>2, <1>3, <1>10 DEF Scan, Times, Known
<1>11. CASE \E c \in candidates : Emit(c)
  <2>1. PICK c \in candidates : Emit(c)
    BY <1>11
  <2>2. \A r \in Known' : r \in Known \/ (r.at = now /\ r.day = day /\ r.epoch = epoch /\ r.scan = scanNo)
    BY <2>1 DEF Emit, Known
  <2>3. \A b \in Bases : lastAt'[b] <= now
    BY <1>0, <1>3, <2>1 DEF Emit, Times
  <2>4. UNCHANGED <<now, day, epoch, scanNo, idleSince, rows>>
    BY <2>1 DEF Emit
  <2> QED
    BY <1>0, <1>3, <2>2, <2>3, <2>4 DEF Times
<1>12. CASE \E c \in candidates : Reject(c)
  BY <1>0, <1>12 DEF Reject, Times, Known
<1>13. CASE ScanDone
  BY <1>0, <1>3, <1>13 DEF ScanDone, Times, Known
<1>14. CASE \E s \in toStore : StoreSignal(s)
  <2>1. PICK s \in toStore : StoreSignal(s)
    BY <1>14
  <2>2. s \in Known
    BY <1>0 DEF TypeOK, ScanOK, Known
  <2>3. rows' \subseteq rows \cup {RowOf(s)} /\ Known' \subseteq Known \cup {RowOf(s)}
    BY <2>1 DEF StoreSignal, Known
  <2>4. UNCHANGED <<now, day, epoch, scanNo, idleSince, lastAt>>
    BY <2>1 DEF StoreSignal
  <2> QED
    BY <1>0, <1>1, <1>3, <2>2, <2>3, <2>4, RowFields DEF Times
<1>15. CASE SignalsStored
  BY <1>0, <1>15 DEF SignalsStored, Times, Known
<1>16. CASE LogSuppression
  BY <1>0, <1>16 DEF LogSuppression, Times, Known
<1>17. CASE RouteDone
  BY <1>0, <1>3, <1>17 DEF RouteDone, Times, Known
<1>18. CASE AdminReset
  BY <1>0, <1>1, <1>3, <1>8, <1>18 DEF AdminReset, Times, Known
<1>19. CASE UNCHANGED vars
  BY <1>0, <1>19 DEF vars, Times, Known
<1> QED
  BY <1>4, <1>5, <1>6, <1>7, <1>9, <1>10, <1>11, <1>12, <1>13, <1>14, <1>15, <1>16,
     <1>17, <1>18, <1>19 DEF Next, ScanStep, RouteStep, QuietIteration

\* The queues are empty again when the router is left.
LEMMA QueuesStep == Typed /\ [Next]_vars => Queues'
<1> SUFFICES ASSUME Typed, [Next]_vars PROVE Queues'
  OBVIOUS
<1> USE DEF clockVars, scanVars, routeVars, gateVars, listVars, storeVars, resetVars
<1>0. Queues
  BY DEF Typed
<1>1. CASE Tick \/ PhaseChange \/ Boot \/ Crash \/ NewState
  BY <1>0, <1>1 DEF Queues, Tick, PhaseChange, Boot, Crash, NewState
<1>2. CASE Scan \/ ScanDone \/ \E c \in candidates : Emit(c) \/ Reject(c)
  BY <1>0, <1>2 DEF Queues, Scan, ScanDone, Emit, Reject
<1>3. CASE \E s \in toStore : StoreSignal(s)
  <2>1. PICK s \in toStore : StoreSignal(s)
    BY <1>3
  <2>2. IsFiniteSet(rows \cup {RowOf(s)})
    BY <1>0, FS_AddElement DEF Queues
  <2>3. rows' = rows \cup {RowOf(s)} \/ rows' = rows
    BY <2>1 DEF StoreSignal
  <2> QED
    BY <1>0, <2>1, <2>2, <2>3 DEF Queues, StoreSignal
<1>4. CASE SignalsStored \/ LogSuppression \/ RouteDone
  BY <1>0, <1>4 DEF Queues, SignalsStored, LogSuppression, RouteDone
<1>5. CASE AdminReset \/ UNCHANGED vars
  BY <1>0, <1>5 DEF Queues, AdminReset, vars
<1> QED
  BY <1>1, <1>2, <1>3, <1>4, <1>5 DEF Next, ScanStep, RouteStep, QuietIteration

LEMMA AlwaysTyped == Spec => []Typed
<1>1. Init => Typed
  <2>1. Init => TypeOK
    <3>1. Init => cutShort \in BOOLEAN
      BY DEF Init
    <3>2. Init => ClockOK
      BY <3>1 DEF Init, ClockOK
    <3>3. Init => ScanOK /\ GatesOK /\ StoreOK
      BY DEF Init, ScanOK, GatesOK, StoreOK
    <3>4. Init => ListOK
      BY DEF Init, ListOK
    <3> QED
      BY <3>2, <3>3, <3>4 DEF TypeOK
  <2>2. Init => Times /\ Queues
    BY FS_EmptySet DEF Init, Times, Queues, Known
  <2> QED
    BY <2>1, <2>2 DEF Typed
<1>2. Typed /\ [Next]_vars => Typed'
  BY TypeStep, TimesStep, QueuesStep DEF Typed
<1> QED
  BY <1>1, <1>2, PTL DEF Spec

(***************************************************************************)
(* The order of things.                                                    *)
(***************************************************************************)
\* A day is over when the market has shut, and its signals with it.
DayOrder ==
  /\ pc \in {"emit", "route", "log"} => phase = "OPEN" /\ prevState = "OPEN"
  /\ phase = "SHUT" => \A r \in Known : r.day < day
  /\ pc # "down" /\ prevState = "SHUT" => \A r \in Known : r.day < day
  /\ pc = "down" => emitted = {}

\* The signals of a scan are of one moment; what was stored before it is older
\* than they are, and of no later epoch.
ScanOrder ==
  /\ pc = "loop" => \A n \in rows : n.created <= idleSince
  /\ pc = "emit" => /\ \A n \in rows : n.created < now /\ n.scan < scanNo
                    /\ \A e \in emitted : /\ e.scan = scanNo /\ e.at = now
                                          /\ e.epoch = epoch /\ e.day = day
  /\ \A e \in emitted : e.scan = scanNo
  /\ \A n \in rows, r \in Known : n.scan < r.scan => n.created < r.at
  /\ \A r, q \in Known : r.scan = q.scan => r.at = q.at /\ r.epoch = q.epoch
  /\ \A r, q \in Known : r.scan < q.scan => r.epoch <= q.epoch

Ordered == Typed /\ DayOrder /\ ScanOrder

LEMMA DayOrderStep == Ordered /\ [Next]_vars => DayOrder'
<1> SUFFICES ASSUME Ordered, [Next]_vars PROVE DayOrder'
  OBVIOUS
<1> USE DEF clockVars, scanVars, routeVars, gateVars, listVars, storeVars, resetVars
<1>0. DayOrder /\ TypeOK /\ Times
  BY DEF Ordered, Typed
<1>1. \A r \in Known : r.day \in Nat /\ r.day <= day
  BY <1>0, KnownTypes DEF Times
<1>2. day \in Nat /\ pc \in {"down", "loop", "emit", "route", "log"}
  BY <1>0 DEF TypeOK, ClockOK
<1>3. CASE Tick
  BY <1>0, <1>3 DEF Tick, DayOrder, Known
<1>4. CASE PhaseChange
  BY <1>0, <1>1, <1>2, <1>4 DEF PhaseChange, DayOrder, Known
<1>5. CASE Boot
  BY <1>0, <1>5 DEF Boot, DayOrder, Known, None
<1>6. CASE Crash
  BY <1>0, <1>6 DEF Crash, DayOrder, Known
<1>7. CASE NewState
  BY <1>0, <1>7 DEF NewState, DayOrder, Known
<1>8. CASE Scan
  BY <1>0, <1>8 DEF Scan, DayOrder, Known
<1>9. CASE \E c \in candidates : Emit(c)
  BY <1>0, <1>9 DEF Emit, DayOrder, Known
<1>10. CASE \E c \in candidates : Reject(c)
  BY <1>0, <1>10 DEF Reject, DayOrder, Known
<1>11. CASE ScanDone
  BY <1>0, <1>11 DEF ScanDone, DayOrder, Known
<1>12. CASE \E s \in toStore : StoreSignal(s)
  BY <1>0, <1>12 DEF StoreSignal, DayOrder, Known
<1>13. CASE SignalsStored \/ LogSuppression \/ RouteDone
  BY <1>0, <1>13 DEF SignalsStored, LogSuppression, RouteDone, DayOrder, Known
<1>14. CASE AdminReset \/ UNCHANGED vars
  BY <1>0, <1>14 DEF AdminReset, vars, DayOrder, Known
<1> QED
  BY <1>3, <1>4, <1>5, <1>6, <1>7, <1>8, <1>9, <1>10, <1>11, <1>12, <1>13, <1>14
  DEF Next, ScanStep, RouteStep, QuietIteration

LEMMA ScanOrderStep == Ordered /\ [Next]_vars => ScanOrder'
<1> SUFFICES ASSUME Ordered, [Next]_vars PROVE ScanOrder'
  OBVIOUS
<1> USE DEF clockVars, scanVars, routeVars, gateVars, listVars, storeVars, resetVars
<1>0. ScanOrder /\ DayOrder /\ TypeOK /\ Times /\ Queues
  BY DEF Ordered, Typed
<1>1. \A r \in Known : /\ r.scan \in Nat /\ r.epoch \in Nat /\ r.at \in Nat
                       /\ r.scan <= scanNo /\ r.epoch <= epoch
  BY <1>0, KnownTypes DEF Times
<1>2. \A n \in rows : n \in Known /\ n.created \in Nat /\ n.created <= now
  BY <1>0, KnownTypes DEF Known, Times
<1>3. now \in Nat /\ idleSince \in Nat /\ scanNo \in Nat /\ epoch \in Nat
  BY <1>0 DEF TypeOK, ClockOK
<1>4. CASE Tick
  BY <1>0, <1>4 DEF Tick, ScanOrder, Known
<1>5. CASE PhaseChange
  BY <1>0, <1>5 DEF PhaseChange, ScanOrder, Known
<1>6. CASE Boot
  BY <1>0, <1>2, <1>6 DEF Boot, ScanOrder, Known
<1>7. CASE Crash
  BY <1>0, <1>7 DEF Crash, ScanOrder, Known
<1>8. CASE NewState
  BY <1>0, <1>8 DEF NewState, ScanOrder, Known
<1>9. CASE Scan
  <2>1. rows' = rows /\ Known' = rows /\ emitted' = {} /\ pc' = "emit"
        /\ scanNo' = scanNo + 1 /\ now' = now /\ idleSince < now /\ pc = "loop"
    BY <1>9 DEF Scan, Known
  <2> QED
    BY <1>0, <1>1, <1>2, <1>3, <2>1 DEF ScanOrder
<1>10. CASE \E c \in candidates : Emit(c)
  <2>1. PICK c \in candidates : Emit(c)
    BY <1>10
  <2> DEFINE new == [setup |-> c.setup, base |-> c.base, dir |-> c.dir,
                     scan |-> scanNo, at |-> now, day |-> day, epoch |-> epoch]
  <2>2. /\ rows' = rows /\ emitted' = emitted \cup {new} /\ Known' = Known \cup {new}
        /\ pc = "emit" /\ pc' = "emit"
        /\ UNCHANGED <<now, day, epoch, scanNo, idleSince>>
    BY <2>1 DEF Emit, Known
  <2>3. new.scan = scanNo /\ new.at = now /\ new.epoch = epoch /\ new.day = day
    OBVIOUS
  <2> HIDE DEF new
  <2>4. \A r \in Known : r.scan = scanNo => r.at = now /\ r.epoch = epoch
    BY <1>0, <1>1, <1>3, <2>2 DEF ScanOrder, Known
  <2> QED
    BY <1>0, <1>1, <1>2, <1>3, <2>2, <2>3, <2>4 DEF ScanOrder
<1>11. CASE \E c \in candidates : Reject(c)
  BY <1>0, <1>11 DEF Reject, ScanOrder, Known
<1>12. CASE ScanDone
  BY <1>0, <1>2, <1>12 DEF ScanDone, ScanOrder, Known
<1>13. CASE \E s \in toStore : StoreSignal(s)
  <2>1. PICK s \in toStore : StoreSignal(s)
    BY <1>13
  <2>2. s \in emitted /\ s \in Known /\ s.scan = scanNo
    BY <1>0 DEF TypeOK, ScanOK, Known, ScanOrder
  <2>3. /\ rows' \subseteq rows \cup {RowOf(s)} /\ Known' \subseteq Known \cup {RowOf(s)}
        /\ emitted' = emitted /\ pc = "route" /\ pc' = "route"
        /\ UNCHANGED <<now, day, epoch, scanNo, idleSince>>
    BY <2>1 DEF StoreSignal, Known
  <2> QED
    BY <1>0, <1>1, <1>2, <1>3, <2>2, <2>3, RowFields DEF ScanOrder
<1>14. CASE SignalsStored \/ LogSuppression
  BY <1>0, <1>14 DEF SignalsStored, LogSuppression, ScanOrder, Known
<1>15. CASE RouteDone
  BY <1>0, <1>2, <1>15 DEF RouteDone, ScanOrder, Known
<1>16. CASE AdminReset \/ UNCHANGED vars
  BY <1>0, <1>16 DEF AdminReset, vars, ScanOrder, Known
<1> QED
  BY <1>4, <1>5, <1>6, <1>7, <1>8, <1>9, <1>10, <1>11, <1>12, <1>13, <1>14, <1>15, <1>16
  DEF Next, ScanStep, RouteStep, QuietIteration

(***************************************************************************)
(* What the gates remember.                                                *)
(***************************************************************************)
Current(r) == r.day = day /\ r.epoch = epoch

\* Of every signal of the day the gates of a live process remember a fire at
\* least as late, and the direction of its base.
Memory ==
  pc # "down" =>
    \A r \in Known : Current(r) =>
      /\ r.at <= lastFire[<<r.setup, r.base>>]
      /\ lastDir[r.base] # None /\ r.at <= lastAt[r.base]
      /\ r.dir # lastDir[r.base] => lastAt[r.base] - r.at >= ConflictWindow

\* A candidate that is still to be judged is out of the cooldown of all that
\* came before its scan.
Judged ==
  pc = "emit" =>
    \A c \in candidates, r \in Known :
      Current(r) /\ r.setup = c.setup /\ r.base = c.base /\ r.scan < scanNo =>
        now - r.at >= Cooldown

SameDay(r, q) == r.day = q.day /\ r.epoch = q.epoch /\ r.base = q.base

\* NoWhipsaw and CooldownKept of all that is known, stored or not.
Apart ==
  \A r, q \in Known : SameDay(r, q) =>
    /\ r.dir # q.dir /\ r.at <= q.at => q.at - r.at >= ConflictWindow
    /\ r.scan < q.scan /\ r.setup = q.setup => q.at - r.at >= Cooldown

Remembered == Ordered /\ Memory /\ Judged /\ Apart

\* The rows of the day that a boot reads tell it no less than the process that
\* wrote them knew.
LEMMA MemoryAtBoot == Remembered /\ Boot => Memory'
<1> SUFFICES ASSUME Remembered, Boot, NEW r \in Known', Current(r)'
             PROVE  /\ r.at <= lastFire'[<<r.setup, r.base>>]
                    /\ lastDir'[r.base] # None /\ r.at <= lastAt'[r.base]
                    /\ r.dir # lastDir'[r.base] => lastAt'[r.base] - r.at >= ConflictWindow
  BY DEF Memory, Boot
<1>0. /\ TypeOK /\ Times /\ ScanOrder /\ DayOrder /\ Apart
  BY DEF Remembered, Ordered, Typed
<1>1. r \in rows /\ r \in Known /\ r.day = day /\ r.epoch = epoch
  BY <1>0 DEF Boot, DayOrder, Known, Current, clockVars, storeVars, resetVars
<1>2. /\ r.setup \in Setups /\ r.base \in Bases /\ r.dir \in Directions
      /\ r.at \in Nat /\ r.created \in Nat /\ r.at <= r.created
  BY <1>0, <1>1, KnownTypes DEF Times
<1>3. \A q \in rows : /\ q \in Known /\ q.created \in Nat /\ q.created <= now
                      /\ q.at \in Nat /\ q.at <= q.created /\ q.dir \in Directions
                      /\ q.scan \in Nat /\ q.epoch \in Nat /\ q.epoch <= epoch
  BY <1>0, KnownTypes DEF Known, Times
<1>4. now \in Nat /\ epoch \in Nat
  BY <1>0 DEF TypeOK, ClockOK
<1> DEFINE fired == OfSetup(RowsToday, r.setup, r.base)
           based == OfBase(RowsToday, r.base)
           last == Newest(based)
<1>5. r \in fired /\ r \in based /\ fired \subseteq rows /\ based \subseteq rows
  BY <1>1 DEF OfSetup, OfBase, RowsToday
<1>6. Newest(fired) \in fired /\ r.created <= Newest(fired).created
  <2> HIDE DEF fired
  <2> QED
    BY <1>3, <1>4, <1>5, NewestIsThere
<1>7. last \in based /\ \A q \in based : q.created <= last.created
  <2> HIDE DEF based
  <2> QED
    BY <1>3, <1>4, <1>5, NewestIsThere
<1>8. lastFire'[<<r.setup, r.base>>] = Newest(fired).created
  <2>1. <<r.setup, r.base>> \in Setups \X Bases
    BY <1>2
  <2>2. lastFire'[<<r.setup, r.base>>] = IF fired = {} THEN 0 ELSE Newest(fired).created
    BY <2>1 DEF Boot, Rehydrate
  <2> QED
    BY <1>5, <2>2
<1>9. lastDir'[r.base] = last.dir /\ lastAt'[r.base] = last.created
  BY <1>2, <1>5 DEF Boot, Rehydrate
<1>10. last.base = r.base /\ last.day = day /\ last \in rows /\ last.created \in Nat
       /\ last \in Known
  BY <1>3, <1>5, <1>7 DEF OfBase, RowsToday
\* The row written last is not of an earlier scan, so not of an earlier epoch.
<1>11. ~ (last.scan < r.scan)
  BY <1>0, <1>1, <1>2, <1>5, <1>7, <1>10 DEF ScanOrder
<1>12. last.epoch = epoch
  BY <1>0, <1>1, <1>3, <1>4, <1>10, <1>11 DEF ScanOrder
<1>13. r.at <= last.at
  <2>1. CASE last.scan = r.scan
    BY <1>0, <1>1, <1>2, <1>10, <2>1 DEF ScanOrder
  <2>2. CASE r.scan < last.scan
    BY <1>0, <1>1, <1>2, <1>3, <1>10, <2>2 DEF ScanOrder
  <2> QED
    BY <1>1, <1>3, <1>10, <1>11, <2>1, <2>2
<1>14. r.dir # last.dir => last.at - r.at >= ConflictWindow
  BY <1>0, <1>1, <1>10, <1>12, <1>13 DEF Apart, SameDay
<1>15. last.at \in Nat /\ last.at <= last.created /\ last.dir # None
  BY <1>3, <1>10, GatesAssumption
<1>16. r.at <= Newest(fired).created
  BY <1>2, <1>3, <1>5, <1>6
<1>17. r.dir # last.dir => last.created - r.at >= ConflictWindow
  BY <1>2, <1>10, <1>14, <1>15, GatesAssumption
<1> QED
  BY <1>2, <1>8, <1>9, <1>10, <1>13, <1>15, <1>16, <1>17

LEMMA MemoryStep == Remembered /\ [Next]_vars => Memory'
<1> SUFFICES ASSUME Remembered, [Next]_vars PROVE Memory'
  OBVIOUS
<1> USE DEF clockVars, scanVars, routeVars, gateVars, listVars, storeVars, resetVars
<1>0. TypeOK /\ Times /\ DayOrder /\ ScanOrder /\ Memory
  BY DEF Remembered, Ordered, Typed
<1>1. \A r \in Known : /\ r.setup \in Setups /\ r.base \in Bases /\ r.dir \in Directions
                       /\ r.at \in Nat /\ r.at <= now
                       /\ r.day \in Nat /\ r.day <= day /\ r.epoch \in Nat /\ r.epoch <= epoch
  BY <1>0, KnownTypes DEF Times
<1>2. now \in Nat /\ epoch \in Nat /\ day \in Nat
  BY <1>0 DEF TypeOK, ClockOK
<1>3. CASE Tick
  BY <1>0, <1>3 DEF Tick, Memory, Known, Current
<1>4. CASE PhaseChange
  BY <1>0, <1>1, <1>2, <1>4 DEF PhaseChange, Memory, Known, Current
<1>5. CASE Boot
  BY <1>5, MemoryAtBoot
<1>6. CASE Crash
  BY <1>6 DEF Crash, Memory
<1>7. CASE NewState
  <2>1. CASE phase = "OPEN" /\ prevState = "SHUT"
    <3>1. \A r \in Known : r.day < day
      BY <1>0, <1>7, <2>1 DEF NewState, DayOrder
    <3> QED
      BY <1>1, <1>2, <1>7, <3>1 DEF NewState, Memory, Known, Current
  <2>2. CASE ~ (phase = "OPEN" /\ prevState = "SHUT")
    BY <1>0, <1>7, <2>2 DEF NewState, Memory, Known, Current
  <2> QED
    BY <2>1, <2>2
<1>8. CASE Scan
  BY <1>0, <1>8 DEF Scan, Memory, Known, Current
<1>9. CASE \E c \in candidates : Emit(c)
  <2>1. PICK c \in candidates : Emit(c)
    BY <1>9
  <2> DEFINE new == [setup |-> c.setup, base |-> c.base, dir |-> c.dir,
                     scan |-> scanNo, at |-> now, day |-> day, epoch |-> epoch]
  <2>2. /\ Known' = Known \cup {new} /\ pc = "emit"
        /\ UNCHANGED <<now, day, epoch>>
        /\ lastFire' = [lastFire EXCEPT ![<<c.setup, c.base>>] = now]
        /\ lastDir' = [lastDir EXCEPT ![c.base] = c.dir]
        /\ lastAt' = [lastAt EXCEPT ![c.base] = now]
    BY <2>1 DEF Emit, Known
  <2>3. new.setup = c.setup /\ new.base = c.base /\ new.dir = c.dir /\ new.at = now
    OBVIOUS
  <2>4. c.setup \in Setups /\ c.base \in Bases /\ c.dir \in Directions
    BY <1>0 DEF TypeOK, ScanOK, Candidates
  <2>5. ~Whipsaw(c)
    BY <2>1 DEF Emit, Passes
  <2>6. /\ lastFire \in [Setups \X Bases -> Nat] /\ lastAt \in [Bases -> Nat]
        /\ lastDir \in [Bases -> Directions \cup {None}]
    BY <1>0 DEF TypeOK, GatesOK
  <2> HIDE DEF new
  <2> SUFFICES ASSUME NEW r \in Known', Current(r)'
               PROVE  /\ r.at <= lastFire'[<<r.setup, r.base>>]
                      /\ lastDir'[r.base] # None /\ r.at <= lastAt'[r.base]
                      /\ r.dir # lastDir'[r.base] =>
                           lastAt'[r.base] - r.at >= ConflictWindow
    BY DEF Memory
  <2>7. CASE r = new
    <3>1. lastFire'[<<r.setup, r.base>>] = now
      BY <2>2, <2>3, <2>4, <2>6, <2>7
    <3>2. lastDir'[r.base] = c.dir /\ lastAt'[r.base] = now
      BY <2>2, <2>3, <2>4, <2>6, <2>7
    <3> QED
      BY <1>2, <2>3, <2>4, <2>7, <3>1, <3>2, GatesAssumption
  <2>8. CASE r \in Known
    <3>1. Current(r)
      BY <2>2 DEF Current
    <3>2. /\ r.at <= lastFire[<<r.setup, r.base>>]
          /\ lastDir[r.base] # None /\ r.at <= lastAt[r.base]
          /\ r.dir # lastDir[r.base] => lastAt[r.base] - r.at >= ConflictWindow
      BY <1>0, <2>2, <2>8, <3>1 DEF Memory
    <3>3. r.setup \in Setups /\ r.base \in Bases /\ r.at \in Nat /\ r.at <= now
      BY <1>1, <2>8
    <3>4. r.at <= lastFire'[<<r.setup, r.base>>]
      <4>1. <<r.setup, r.base>> \in Setups \X Bases
        BY <3>3
      <4>2. lastFire'[<<r.setup, r.base>>] \in {now, lastFire[<<r.setup, r.base>>]}
        BY <2>2, <2>6, <4>1
      <4> QED
        BY <3>2, <3>3, <4>2
    <3>5. CASE r.base # c.base
      BY <2>2, <2>6, <3>2, <3>3, <3>4, <3>5
    <3>6. CASE r.base = c.base
      <4>1. lastDir'[r.base] = c.dir /\ lastAt'[r.base] = now
        BY <2>2, <2>4, <2>6, <3>6
      <4>2. lastAt[r.base] \in Nat /\ lastAt[r.base] <= now
        BY <1>0, <2>6, <3>3 DEF Times
      <4>3. r.dir # c.dir => now - r.at >= ConflictWindow
        <5>1. lastDir[c.base] = c.dir \/ now - lastAt[c.base] >= ConflictWindow
          BY <2>5, <3>2, <3>6, <1>2, <4>2, GatesAssumption DEF Whipsaw
        <5> QED
          BY <5>1, <3>2, <3>3, <3>6, <1>2, <4>2, GatesAssumption
      <4> QED
        BY <2>4, <3>3, <3>4, <4>1, <4>3, GatesAssumption
    <3> QED
      BY <3>5, <3>6
  <2> QED
    BY <2>2, <2>7, <2>8
<1>10. CASE \E c \in candidates : Reject(c)
  BY <1>0, <1>10 DEF Reject, Memory, Known, Current
<1>11. CASE ScanDone
  BY <1>0, <1>11 DEF ScanDone, Memory, Known, Current
<1>12. CASE \E s \in toStore : StoreSignal(s)
  <2>1. PICK s \in toStore : StoreSignal(s)
    BY <1>12
  <2>2. s \in Known /\ Known' \subseteq Known \cup {RowOf(s)} /\ pc # "down"
    BY <1>0, <2>1 DEF StoreSignal, TypeOK, ScanOK, Known
  <2>3. UNCHANGED <<day, epoch, lastFire, lastDir, lastAt>>
    BY <2>1 DEF StoreSignal
  <2> QED
    BY <1>0, <2>2, <2>3, RowFields DEF Memory, Current
<1>13. CASE SignalsStored \/ LogSuppression \/ RouteDone
  BY <1>0, <1>13 DEF SignalsStored, LogSuppression, RouteDone, Memory, Known, Current
<1>14. CASE AdminReset
  <2>1. \A r \in Known' : ~ Current(r)'
    BY <1>1, <1>2, <1>14 DEF AdminReset, Known, Current
  <2> QED
    BY <2>1 DEF Memory
<1>15. CASE UNCHANGED vars
  BY <1>0, <1>15 DEF vars, Memory, Known, Current
<1> QED
  BY <1>3, <1>4, <1>5, <1>6, <1>7, <1>8, <1>9, <1>10, <1>11, <1>12, <1>13, <1>14, <1>15
  DEF Next, ScanStep, RouteStep, QuietIteration

LEMMA JudgedStep == Remembered /\ [Next]_vars => Judged'
<1> SUFFICES ASSUME Remembered, [Next]_vars PROVE Judged'
  OBVIOUS
<1> USE DEF clockVars, scanVars, routeVars, gateVars, listVars, storeVars, resetVars
<1>0. TypeOK /\ Times /\ ScanOrder /\ Memory /\ Judged
  BY DEF Remembered, Ordered, Typed
<1>1. CASE Scan
  <2> SUFFICES ASSUME NEW c \in candidates', NEW r \in Known',
                      Current(r)', r.setup = c.setup, r.base = c.base
               PROVE  now - r.at >= Cooldown
    BY <1>1 DEF Scan, Judged
  <2>1. r \in Known /\ Current(r) /\ pc # "down"
    BY <1>1 DEF Scan, Known, Current
  <2>2. ~InCooldown(c)
    BY <1>1 DEF Scan
  <2>3. /\ r.at \in Nat /\ 0 < r.at /\ r.at <= lastFire[<<c.setup, c.base>>]
        /\ r.setup \in Setups /\ r.base \in Bases
    BY <1>0, <2>1, KnownTypes DEF Memory, Times
  <2>4. lastFire[<<c.setup, c.base>>] \in Nat /\ now \in Nat /\ Cooldown \in Nat
    BY <1>0, <2>3, GatesAssumption DEF TypeOK, GatesOK, ClockOK
  <2> QED
    BY <2>2, <2>3, <2>4 DEF InCooldown
<1>2. CASE \E c \in candidates : Emit(c)
  <2>1. PICK c \in candidates : Emit(c)
    BY <1>2
  <2> DEFINE new == [setup |-> c.setup, base |-> c.base, dir |-> c.dir,
                     scan |-> scanNo, at |-> now, day |-> day, epoch |-> epoch]
  <2>2. /\ Known' = Known \cup {new} /\ pc = "emit" /\ candidates' \subseteq candidates
        /\ UNCHANGED <<now, day, epoch, scanNo>>
    BY <2>1 DEF Emit, Known
  <2>3. new.scan = scanNo /\ scanNo \in Nat
    BY <1>0 DEF TypeOK, ClockOK
  <2> HIDE DEF new
  <2> QED
    BY <1>0, <2>2, <2>3 DEF Judged, Current
<1>3. CASE \E c \in candidates : Reject(c)
  BY <1>0, <1>3 DEF Reject, Judged, Known, Current
<1>4. CASE Tick \/ PhaseChange \/ Boot \/ Crash \/ NewState
  BY <1>4 DEF Tick, PhaseChange, Boot, Crash, NewState, Judged
<1>5. CASE ScanDone \/ SignalsStored \/ LogSuppression \/ RouteDone \/ AdminReset
  BY <1>5 DEF ScanDone, SignalsStored, LogSuppression, RouteDone, AdminReset, Judged
<1>6. CASE \E s \in toStore : StoreSignal(s)
  BY <1>6 DEF StoreSignal, Judged
<1>7. CASE UNCHANGED vars
  BY <1>0, <1>7 DEF vars, Judged, Known, Current
<1> QED
  BY <1>1, <1>2, <1>3, <1>4, <1>5, <1>6, <1>7 DEF Next, ScanStep, RouteStep, QuietIteration

LEMMA ApartStep == Remembered /\ [Next]_vars => Apart'
<1> SUFFICES ASSUME Remembered, [Next]_vars PROVE Apart'
  OBVIOUS
<1> USE DEF clockVars, scanVars, routeVars, gateVars, listVars, storeVars, resetVars
<1>0. TypeOK /\ Times /\ ScanOrder /\ Memory /\ Judged /\ Apart
  BY DEF Remembered, Ordered, Typed
<1>1. CASE \E c \in candidates : Emit(c)
  <2>1. PICK c \in candidates : Emit(c)
    BY <1>1
  <2> DEFINE new == [setup |-> c.setup, base |-> c.base, dir |-> c.dir,
                     scan |-> scanNo, at |-> now, day |-> day, epoch |-> epoch]
  <2>2. Known' = Known \cup {new} /\ pc = "emit"
    BY <2>1 DEF Emit, Known
  <2>3. /\ new.setup = c.setup /\ new.base = c.base /\ new.dir = c.dir
        /\ new.scan = scanNo /\ new.at = now /\ new.day = day /\ new.epoch = epoch
    OBVIOUS
  <2>4. ~Whipsaw(c)
    BY <2>1 DEF Emit, Passes
  <2> HIDE DEF new
  <2>5. ASSUME NEW r \in Known, r.day = day, r.epoch = epoch, r.base = c.base
        PROVE  /\ r.at <= now /\ r.scan <= scanNo
               /\ r.dir # c.dir => now - r.at >= ConflictWindow
               /\ r.scan < scanNo /\ r.setup = c.setup => now - r.at >= Cooldown
    <3>1. /\ r.at \in Nat /\ r.at <= now /\ r.scan <= scanNo /\ r.base \in Bases
          /\ Current(r)
      BY <1>0, <2>5, KnownTypes DEF Times, Current
    <3>2. /\ lastDir[c.base] # None /\ r.at <= lastAt[c.base]
          /\ r.dir # lastDir[c.base] => lastAt[c.base] - r.at >= ConflictWindow
      BY <1>0, <2>2, <2>5, <3>1 DEF Memory
    <3>3. lastAt[c.base] \in Nat /\ lastAt[c.base] <= now /\ now \in Nat
      BY <1>0, <2>5, <3>1 DEF Times, TypeOK, GatesOK, ClockOK
    <3>4. r.dir # c.dir => now - r.at >= ConflictWindow
      <4>1. lastDir[c.base] = c.dir \/ now - lastAt[c.base] >= ConflictWindow
        BY <2>4, <3>2, <3>3, GatesAssumption DEF Whipsaw
      <4> QED
        BY <4>1, <3>1, <3>2, <3>3, GatesAssumption
    <3>5. r.scan < scanNo /\ r.setup = c.setup => now - r.at >= Cooldown
      BY <1>0, <2>2, <2>5, <3>1 DEF Judged
    <3> QED
      BY <3>1, <3>4, <3>5
  <2>6. scanNo \in Nat /\ now \in Nat /\ \A r \in Known : r.at \in Nat /\ r.scan \in Nat
    BY <1>0, KnownTypes DEF TypeOK, ClockOK
  <2> SUFFICES ASSUME NEW r \in Known', NEW q \in Known', SameDay(r, q)
               PROVE  /\ r.dir # q.dir /\ r.at <= q.at => q.at - r.at >= ConflictWindow
                      /\ r.scan < q.scan /\ r.setup = q.setup => q.at - r.at >= Cooldown
    BY DEF Apart, SameDay
  <2>7. CASE r \in Known /\ q \in Known
    BY <1>0, <2>7 DEF Apart
  <2>8. CASE r \in Known /\ q = new
    BY <2>3, <2>5, <2>8 DEF SameDay
  <2>9. CASE r = new /\ q = new
    BY <2>3, <2>6, <2>9
  <2>10. CASE r = new /\ q \in Known
    \* Then q is of this moment, and of this scan or an earlier one.
    <3>1. /\ q.at <= now /\ q.scan <= scanNo
          /\ q.dir # c.dir => now - q.at >= ConflictWindow
      BY <2>3, <2>5, <2>10 DEF SameDay
    <3> QED
      BY <2>3, <2>6, <2>10, <3>1, GatesAssumption
  <2> QED
    BY <2>2, <2>7, <2>8, <2>9, <2>10
<1>2. CASE \E s \in toStore : StoreSignal(s)
  <2>1. PICK s \in toStore : StoreSignal(s)
    BY <1>2
  <2>2. s \in Known /\ Known' \subseteq Known \cup {RowOf(s)}
    BY <1>0, <2>1 DEF StoreSignal, TypeOK, ScanOK, Known
  <2> DEFINE Source(r) == IF r \in Known THEN r ELSE s
  <2>3. ASSUME NEW r \in Known'
        PROVE  /\ Source(r) \in Known
               /\ Source(r).setup = r.setup /\ Source(r).base = r.base /\ Source(r).dir = r.dir
               /\ Source(r).scan = r.scan /\ Source(r).at = r.at
               /\ Source(r).day = r.day /\ Source(r).epoch = r.epoch
    BY <2>2, RowFields
  <2> HIDE DEF Source
  <2> SUFFICES ASSUME NEW r \in Known', NEW q \in Known', SameDay(r, q)
               PROVE  /\ r.dir # q.dir /\ r.at <= q.at => q.at - r.at >= ConflictWindow
                      /\ r.scan < q.scan /\ r.setup = q.setup => q.at - r.at >= Cooldown
    BY DEF Apart, SameDay
  <2>4. SameDay(Source(r), Source(q))
    BY <2>3 DEF SameDay
  <2> QED
    BY <1>0, <2>3, <2>4 DEF Apart
<1>3. CASE Known' \subseteq Known
  BY <1>0, <1>3 DEF Apart, SameDay
<1>4. CASE Tick \/ PhaseChange \/ Boot \/ Crash \/ NewState \/ Scan
  <2>1. Known' \subseteq Known
    BY <1>4 DEF Tick, PhaseChange, Boot, Crash, NewState, Scan, Known
  <2> QED
    BY <1>3, <2>1
<1>5. CASE ScanDone \/ SignalsStored \/ LogSuppression \/ RouteDone \/ AdminReset
           \/ (\E c \in candidates : Reject(c)) \/ UNCHANGED vars
  <2>1. Known' \subseteq Known
    BY <1>5 DEF ScanDone, SignalsStored, LogSuppression, RouteDone, AdminReset, Reject,
       Known, vars
  <2> QED
    BY <1>3, <2>1
<1> QED
  BY <1>1, <1>2, <1>4, <1>5 DEF Next, ScanStep, RouteStep, QuietIteration

LEMMA AlwaysRemembered == Spec => []Remembered
<1>1. Init => DayOrder /\ ScanOrder /\ Memory /\ Judged /\ Apart
  BY DEF Init, DayOrder, ScanOrder, Memory, Judged, Apart, Known
<1>2. Remembered /\ Typed' /\ [Next]_vars => Remembered'
  <2>1. Remembered /\ [Next]_vars => DayOrder' /\ ScanOrder'
    BY DayOrderStep, ScanOrderStep DEF Remembered
  <2> QED
    BY <2>1, MemoryStep, JudgedStep, ApartStep DEF Remembered, Ordered
<1>3. Init /\ Typed => Remembered
  BY <1>1 DEF Remembered, Ordered
<1> QED
  BY <1>2, <1>3, AlwaysTyped, PTL DEF Spec

\* Every variable keeps its type, and the router is only handed signals of the
\* latest scan.
THEOREM GatesTypeCorrect == Spec => []TypeOK
  BY AlwaysTyped, PTL DEF Typed

\* Two rows of a day that name opposite directions of a base are at least the
\* conflict window apart, whatever crashes, failed inserts and resets of other
\* epochs lie between them.
THEOREM NeverWhipsawed == Spec => []NoWhipsaw
<1>1. Remembered => NoWhipsaw
  BY DEF Remembered, Apart, SameDay, NoWhipsaw, Known
<1> QED
  BY <1>1, AlwaysRemembered, PTL

\* A setup does not fire twice on a base within its cooldown, whatever lies
\* between the two.
THEOREM CooldownAlwaysKept == Spec => []CooldownKept
<1>1. Remembered => CooldownKept
  BY DEF Remembered, Apart, SameDay, CooldownKept, Known
<1> QED
  BY <1>1, AlwaysRemembered, PTL

(***************************************************************************)
(* The list of suppressions and the cursor into it.                        *)
(***************************************************************************)
Handed == logged \cup dropped

Increasing(list) == \A i, j \in 1..Len(list) : i < j => list[i] < list[j]
Before(list, bound) == \A i \in 1..Len(list) : list[i] < bound
Waiting(x) == \E k \in 1..Len(toLog) : toLog[k] = x

\* Serial numbers grow along the list and along the router's part of it; what
\* the store was handed has an older one than the next.
SerialOrder ==
  /\ Increasing(suppressions) /\ Before(suppressions, nextSup)
  /\ Increasing(toLog) /\ Before(toLog, nextSup)
  /\ \A x \in Handed : x < nextSup

\* Nothing beyond the cursor was handed to the store, nor anything the router
\* still has.
BeyondCursor ==
  /\ \A i \in 1..Len(toLog) : toLog[i] \notin Handed
  /\ pc \in {"loop", "emit"} =>
       \A i \in 1..Len(suppressions) : i > persistedRef => suppressions[i] \notin Handed
  /\ pc \in {"route", "log"} => Len(suppressions) <= routedLen
  /\ pc = "down" => suppressions = <<>> /\ persistedRef = 0

\* Everything up to the cursor was, unless a reset came between.
UpToCursor ==
  ~cutShort =>
    /\ persistedRef <= Len(suppressions)
    /\ pc = "loop" => persistedRef = Len(suppressions)
    /\ \A i \in 1..Len(suppressions) : i <= persistedRef => suppressions[i] \in Handed
    /\ pc \in {"route", "log"} =>
         /\ routedLen = Len(suppressions)
         /\ \A i \in 1..Len(suppressions) : suppressions[i] \in Handed \/ Waiting(suppressions[i])

Cursor == Typed /\ SerialOrder /\ BeyondCursor /\ UpToCursor

\* What appending new suppressions does to the list.
LEMMA Appended ==
  ASSUME TypeOK, SerialOrder, NEW n \in Nat, Suppress(n)
  PROVE  /\ Len(suppressions') = Len(suppressions) + n
         /\ nextSup' = nextSup + n
         /\ \A i \in 1..Len(suppressions) : suppressions'[i] = suppressions[i]
         /\ \A i \in 1..Len(suppressions') :
              i > Len(suppressions) => suppressions'[i] = nextSup + (i - Len(suppressions)) - 1
         /\ Increasing(suppressions') /\ Before(suppressions', nextSup')
<1>1. suppressions \in Seq(Nat) /\ nextSup \in Nat
  BY DEF TypeOK, ListOK
<1>2. Serials(n) \in Seq(Nat) /\ Len(Serials(n)) = n
      /\ \A i \in 1..n : Serials(n)[i] = nextSup + i - 1
  BY <1>1 DEF Serials
<1>3. suppressions' = suppressions \o Serials(n) /\ nextSup' = nextSup + n
  BY DEF Suppress
<1> HIDE DEF Serials
<1>4. Len(suppressions') = Len(suppressions) + n
  <2>1. Len(suppressions \o Serials(n)) = Len(suppressions) + Len(Serials(n))
    BY <1>1, <1>2
  <2> QED
    BY <1>2, <1>3, <2>1
<1>5. \A i \in 1..Len(suppressions) : suppressions'[i] = suppressions[i]
  BY <1>1, <1>2, <1>3
<1>6. \A i \in 1..Len(suppressions') :
        i > Len(suppressions) => suppressions'[i] = nextSup + (i - Len(suppressions)) - 1
  <2> SUFFICES ASSUME NEW i \in 1..Len(suppressions'), i > Len(suppressions)
               PROVE  suppressions'[i] = nextSup + (i - Len(suppressions)) - 1
    OBVIOUS
  <2>1. i - Len(suppressions) \in 1..n
    BY <1>1, <1>4
  <2>2. suppressions'[i] = Serials(n)[i - Len(suppressions)]
    BY <1>1, <1>2, <1>3, <1>4
  <2> QED
    BY <1>2, <2>1, <2>2
<1>7. Len(suppressions) \in Nat /\ \A i \in 1..Len(suppressions) : suppressions[i] \in Nat
  BY <1>1
<1>8. Before(suppressions', nextSup')
  <2> SUFFICES ASSUME NEW i \in 1..Len(suppressions') PROVE suppressions'[i] < nextSup'
    BY DEF Before
  <2>1. CASE i <= Len(suppressions)
    <3>1. suppressions'[i] = suppressions[i] /\ suppressions[i] < nextSup /\ suppressions[i] \in Nat
      BY <1>4, <1>5, <1>7, <2>1 DEF SerialOrder, Before
    <3> QED
      BY <1>1, <1>3, <3>1
  <2>2. CASE i > Len(suppressions)
    BY <1>1, <1>3, <1>4, <1>6, <1>7, <2>2
  <2> QED
    BY <1>4, <1>7, <2>1, <2>2
<1>9. Increasing(suppressions')
  <2> SUFFICES ASSUME NEW i \in 1..Len(suppressions'), NEW j \in 1..Len(suppressions'), i < j
               PROVE  suppressions'[i] < suppressions'[j]
    BY DEF Increasing
  <2>1. CASE j <= Len(suppressions)
    BY <1>4, <1>5, <1>7, <2>1 DEF SerialOrder, Increasing
  <2>2. CASE i <= Len(suppressions) /\ j > Len(suppressions)
    <3>1. suppressions'[i] = suppressions[i] /\ suppressions[i] < nextSup /\ suppressions[i] \in Nat
      BY <1>4, <1>5, <1>7, <2>2 DEF SerialOrder, Before
    <3>2. suppressions'[j] >= nextSup /\ suppressions'[j] \in Nat
      BY <1>1, <1>4, <1>6, <1>7, <2>2
    <3> QED
      BY <1>1, <3>1, <3>2
  <2>3. CASE i > Len(suppressions)
    BY <1>1, <1>4, <1>6, <1>7, <2>3
  <2> QED
    BY <1>4, <1>7, <2>1, <2>2, <2>3
<1> QED
  BY <1>3, <1>4, <1>5, <1>6, <1>8, <1>9

\* A scan, or a gate of the emission stage, adds suppressions.
LEMMA SuppressStep ==
  ASSUME Cursor, NEW n \in Nat, Suppress(n), pc \in {"loop", "emit"}, pc' = "emit",
         UNCHANGED <<toLog, routedLen, persistedRef, logged, dropped, cutShort>>
  PROVE  SerialOrder' /\ BeyondCursor' /\ UpToCursor'
<1>1. TypeOK /\ SerialOrder /\ BeyondCursor /\ UpToCursor
  BY DEF Cursor, Typed
<1>2. /\ Len(suppressions) \in Nat /\ nextSup \in Nat /\ persistedRef \in Nat
      /\ Handed \subseteq Nat /\ toLog \in Seq(Nat)
  BY <1>1 DEF TypeOK, ListOK, StoreOK, Handed
<1>3. Len(suppressions') = Len(suppressions) + n /\ nextSup' = nextSup + n
  BY <1>1, Appended
<1>4. \A i \in 1..Len(suppressions) : suppressions'[i] = suppressions[i]
  BY <1>1, Appended
<1>5. \A i \in 1..Len(suppressions') :
        i > Len(suppressions) => suppressions'[i] = nextSup + (i - Len(suppressions)) - 1
  BY <1>1, Appended
<1>6. Increasing(suppressions') /\ Before(suppressions', nextSup')
  BY <1>1, Appended
<1>7. Handed' = Handed
  BY DEF Handed
<1>8. Before(toLog', nextSup')
  BY <1>1, <1>2, <1>3 DEF SerialOrder, Before
<1>9. SerialOrder'
  BY <1>1, <1>2, <1>3, <1>6, <1>7, <1>8 DEF SerialOrder, Increasing
<1>10. \A i \in 1..Len(suppressions') :
         i > Len(suppressions) => suppressions'[i] \notin Handed
  <2> SUFFICES ASSUME NEW i \in 1..Len(suppressions'), i > Len(suppressions),
                      suppressions'[i] \in Handed
               PROVE  FALSE
    OBVIOUS
  <2>1. suppressions'[i] < nextSup
    BY <1>1 DEF SerialOrder
  <2>2. suppressions'[i] = nextSup + (i - Len(suppressions)) - 1
    BY <1>5
  <2> QED
    BY <1>2, <1>3, <2>1, <2>2
<1>11. BeyondCursor'
  BY <1>1, <1>2, <1>3, <1>4, <1>7, <1>10 DEF BeyondCursor
<1>12. UpToCursor'
  BY <1>1, <1>2, <1>3, <1>4, <1>7 DEF UpToCursor
<1> QED
  BY <1>9, <1>11, <1>12

\* The list is emptied with its cursor.
LEMMA EmptyList ==
  ASSUME Cursor, suppressions' = <<>>, persistedRef' = 0,
         UNCHANGED <<toLog, nextSup, routedLen, logged, dropped>>,
         pc' # "down" => pc' = pc,
         pc' \in {"route", "log"} => cutShort'
  PROVE  SerialOrder' /\ BeyondCursor' /\ UpToCursor'
<1>1. /\ SerialOrder /\ BeyondCursor /\ routedLen \in Nat /\ Handed' = Handed
      /\ Len(suppressions') = 0
  BY DEF Cursor, Typed, TypeOK, ListOK, Handed
<1>2. SerialOrder'
  BY <1>1 DEF SerialOrder, Increasing, Before
<1>3. BeyondCursor'
  BY <1>1 DEF BeyondCursor
<1>4. UpToCursor'
  BY <1>1 DEF UpToCursor
<1> QED
  BY <1>2, <1>3, <1>4

\* The list and its cursor are left alone.
LEMMA SameList ==
  ASSUME Cursor, UNCHANGED <<suppressions, persistedRef, nextSup, toLog, logged, dropped,
                             routedLen, cutShort>>,
         pc' = pc
  PROVE  SerialOrder' /\ BeyondCursor' /\ UpToCursor'
  BY DEF Cursor, SerialOrder, BeyondCursor, UpToCursor, Handed, Waiting, Increasing, Before

\* The router takes what lies beyond the cursor.
LEMMA HandOver == Cursor /\ ScanDone => SerialOrder' /\ BeyondCursor' /\ UpToCursor'
<1> SUFFICES ASSUME Cursor, ScanDone PROVE SerialOrder' /\ BeyondCursor' /\ UpToCursor'
  OBVIOUS
<1> USE DEF clockVars, scanVars, gateVars, listVars, storeVars, resetVars
<1>1. /\ SerialOrder /\ BeyondCursor /\ UpToCursor /\ pc = "emit"
      /\ suppressions \in Seq(Nat) /\ persistedRef \in Nat /\ Len(suppressions) \in Nat
      /\ toLog = <<>>
  BY DEF Cursor, Typed, TypeOK, ListOK, ScanDone, Queues
<1>2. UNCHANGED <<suppressions, nextSup, persistedRef, logged, dropped, cutShort>>
  BY DEF ScanDone
<1>3. Handed' = Handed
  BY <1>2 DEF Handed
<1>4. CASE pc' = "loop"
  <2>1. NewSuppressions = <<>> /\ toLog' = toLog /\ routedLen' = routedLen
    BY <1>4 DEF ScanDone, routeVars
  <2>2. Len(suppressions) <= persistedRef
    <3> SUFFICES ASSUME Len(suppressions) > persistedRef PROVE FALSE
      BY <1>1
    <3>1. Len(NewSuppressions) = Len(suppressions) - persistedRef
      BY <1>1 DEF NewSuppressions
    <3>2. Len(NewSuppressions) = 0
      <4> HIDE DEF NewSuppressions
      <4> QED
        BY <2>1
    <3> QED
      BY <1>1, <3>1, <3>2
  <2>3. SerialOrder'
    BY <1>1, <1>2, <1>3, <2>1 DEF SerialOrder, Increasing, Before
  <2>4. BeyondCursor'
    BY <1>1, <1>2, <1>3, <1>4, <2>1 DEF BeyondCursor
  <2>5. UpToCursor'
    BY <1>1, <1>2, <1>3, <1>4, <2>2 DEF UpToCursor
  <2> QED
    BY <2>3, <2>4, <2>5
<1>5. CASE pc' = "route"
  <2>1. toLog' = NewSuppressions /\ routedLen' = Len(suppressions)
    BY <1>5 DEF ScanDone
  <2>2. \A k \in 1..Len(toLog') : /\ persistedRef + k \in 1..Len(suppressions)
                                  /\ toLog'[k] = suppressions[persistedRef + k]
    BY <1>1, <2>1 DEF NewSuppressions
  <2>3. \A i \in 1..Len(suppressions) : i > persistedRef =>
          i - persistedRef \in 1..Len(toLog') /\ toLog'[i - persistedRef] = suppressions[i]
    BY <1>1, <2>1 DEF NewSuppressions
  <2>4. Len(toLog') \in Nat
    BY <1>1, <2>1 DEF NewSuppressions
  <2> HIDE DEF NewSuppressions
  <2>5. Increasing(toLog')
    BY <1>1, <2>2, <2>4 DEF SerialOrder, Increasing
  <2>6. Before(toLog', nextSup)
    BY <1>1, <2>2 DEF SerialOrder, Before
  <2>7. SerialOrder'
    BY <1>1, <1>2, <1>3, <2>5, <2>6 DEF SerialOrder, Increasing, Before
  <2>8. \A k \in 1..Len(toLog') : toLog'[k] \notin Handed
    BY <1>1, <2>2, <2>4 DEF BeyondCursor
  <2>9. BeyondCursor'
    BY <1>1, <1>2, <1>3, <1>5, <2>1, <2>8 DEF BeyondCursor
  <2>10. \A i \in 1..Len(suppressions) : i > persistedRef => Waiting(suppressions[i])'
    BY <1>2, <2>3 DEF Waiting
  <2>11. UpToCursor'
    BY <1>1, <1>2, <1>3, <1>5, <2>1, <2>10 DEF UpToCursor
  <2> QED
    BY <2>7, <2>9, <2>11
<1> QED
  BY <1>4, <1>5 DEF ScanDone

\* The router hands the first of its suppressions to the store.
LEMMA HandIn == Cursor /\ LogSuppression => SerialOrder' /\ BeyondCursor' /\ UpToCursor'
<1> SUFFICES ASSUME Cursor, LogSuppression PROVE SerialOrder' /\ BeyondCursor' /\ UpToCursor'
  OBVIOUS
<1> USE DEF clockVars, scanVars, gateVars, listVars, storeVars, resetVars
<1>1. /\ SerialOrder /\ BeyondCursor /\ UpToCursor /\ pc = "log" /\ pc' = "log"
      /\ toLog \in Seq(Nat) /\ toLog # <<>>
  BY DEF Cursor, Typed, TypeOK, ListOK, LogSuppression
<1>2. UNCHANGED <<suppressions, nextSup, persistedRef, routedLen, cutShort>>
  BY DEF LogSuppression
<1>3. Handed' = Handed \cup {toLog[1]}
  BY <1>1 DEF LogSuppression, Handed
<1>4. /\ Len(toLog) \in Nat \ {0} /\ Len(toLog') = Len(toLog) - 1
      /\ \A k \in 1..Len(toLog') : toLog'[k] = toLog[k + 1]
      /\ \A k \in 1..Len(toLog) : toLog[k] \in Nat
  BY <1>1 DEF LogSuppression
<1>5. \A k \in 1..Len(toLog') : k + 1 \in 1..Len(toLog)
  BY <1>4
<1>6. Increasing(toLog') /\ Before(toLog', nextSup)
  <2>1. Increasing(toLog) /\ Before(toLog, nextSup)
    BY <1>1 DEF SerialOrder
  <2>2. ASSUME NEW i \in 1..Len(toLog'), NEW j \in 1..Len(toLog'), i < j
        PROVE  toLog'[i] < toLog'[j]
    <3>1. /\ i + 1 \in 1..Len(toLog) /\ j + 1 \in 1..Len(toLog) /\ i + 1 < j + 1
          /\ toLog'[i] = toLog[i + 1] /\ toLog'[j] = toLog[j + 1]
      BY <1>4, <1>5, <2>2
    <3> HIDE DEF LogSuppression
    <3> QED
      BY <2>1, <3>1 DEF Increasing
  <2>3. ASSUME NEW i \in 1..Len(toLog') PROVE toLog'[i] < nextSup
    BY <1>4, <1>5, <2>1, <2>3 DEF Before
  <2> QED
    BY <2>2, <2>3 DEF Increasing, Before
<1>7. toLog[1] < nextSup
  BY <1>1, <1>4 DEF SerialOrder, Before
<1>8. SerialOrder'
  BY <1>1, <1>2, <1>3, <1>6, <1>7 DEF SerialOrder, Increasing, Before
<1>9. \A k \in 1..Len(toLog') : toLog'[k] \notin Handed'
  <2> SUFFICES ASSUME NEW k \in 1..Len(toLog') PROVE toLog'[k] \notin Handed'
    OBVIOUS
  <2>1. toLog[1] < toLog[k + 1] /\ toLog[1] \in Nat /\ toLog[k + 1] \in Nat
    BY <1>1, <1>4, <1>5 DEF SerialOrder, Increasing
  <2>2. toLog[k + 1] \notin Handed
    BY <1>1, <1>5 DEF BeyondCursor
  <2> QED
    BY <1>3, <1>4, <2>1, <2>2
<1>10. BeyondCursor'
  BY <1>1, <1>2, <1>9 DEF BeyondCursor
<1>11. ASSUME NEW x, Waiting(x) PROVE x \in Handed' \/ Waiting(x)'
  <2>1. PICK k \in 1..Len(toLog) : toLog[k] = x
    BY <1>11 DEF Waiting
  <2>2. CASE k = 1
    BY <1>3, <2>1, <2>2
  <2>3. CASE k # 1
    <3>1. k - 1 \in 1..Len(toLog') /\ toLog'[k - 1] = x
      BY <1>4, <2>1, <2>3
    <3> QED
      BY <3>1 DEF Waiting
  <2> QED
    BY <2>2, <2>3
<1>12. UpToCursor'
  BY <1>1, <1>2, <1>3, <1>11 DEF UpToCursor
<1> QED
  BY <1>8, <1>10, <1>12

\* The cursor moves up to what the router was given.
LEMMA CursorMoves == Cursor /\ RouteDone => SerialOrder' /\ BeyondCursor' /\ UpToCursor'
<1> SUFFICES ASSUME Cursor, RouteDone PROVE SerialOrder' /\ BeyondCursor' /\ UpToCursor'
  OBVIOUS
<1> USE DEF clockVars, scanVars, routeVars, gateVars, storeVars, resetVars
<1>1. /\ SerialOrder /\ BeyondCursor /\ UpToCursor /\ pc = "log" /\ pc' = "loop"
      /\ toLog = <<>> /\ suppressions \in Seq(Nat) /\ routedLen \in Nat
  BY DEF Cursor, Typed, TypeOK, ListOK, RouteDone
<1>2. /\ UNCHANGED <<suppressions, nextSup, toLog, routedLen, cutShort, logged, dropped>>
      /\ persistedRef' = routedLen
  BY DEF RouteDone
<1>3. Handed' = Handed
  BY <1>2 DEF Handed
<1>4. SerialOrder'
  BY <1>1, <1>2, <1>3 DEF SerialOrder, Increasing, Before
<1>5. BeyondCursor'
  BY <1>1, <1>2, <1>3 DEF BeyondCursor
<1>6. \A x : ~Waiting(x)
  BY <1>1 DEF Waiting
<1>7. UpToCursor'
  BY <1>1, <1>2, <1>3, <1>6 DEF UpToCursor
<1> QED
  BY <1>4, <1>5, <1>7

LEMMA CursorStep == Cursor /\ [Next]_vars => SerialOrder' /\ BeyondCursor' /\ UpToCursor'
<1> SUFFICES ASSUME Cursor, [Next]_vars PROVE SerialOrder' /\ BeyondCursor' /\ UpToCursor'
  OBVIOUS
<1> USE DEF clockVars, scanVars, routeVars, gateVars, listVars, storeVars, resetVars
<1>1. CASE Tick \/ PhaseChange \/ UNCHANGED vars \/ \E c \in candidates : Emit(c)
  BY <1>1, SameList DEF Tick, PhaseChange, vars, Emit
<1>2. CASE (\E s \in toStore : StoreSignal(s)) \/ SignalsStored
  <2>1. CASE \E s \in toStore : StoreSignal(s)
    BY <2>1, SameList DEF StoreSignal
  <2>2. CASE SignalsStored
    BY <2>2 DEF SignalsStored, Cursor, SerialOrder, BeyondCursor, UpToCursor, Handed,
       Waiting, Increasing, Before
  <2> QED
    BY <1>2, <2>1, <2>2
<1>3. CASE Boot
  <2>1. /\ Cursor /\ pc = "down" /\ pc' = "loop"
        /\ UNCHANGED <<suppressions, persistedRef, nextSup, toLog, logged, dropped,
                       routedLen, cutShort>>
    BY <1>3 DEF Boot
  <2>2. suppressions = <<>> /\ persistedRef = 0 /\ Len(suppressions) = 0
    BY <2>1 DEF Cursor, BeyondCursor
  <2> QED
    BY <2>1, <2>2 DEF Cursor, SerialOrder, BeyondCursor, UpToCursor, Handed, Waiting,
       Increasing, Before
<1>4. CASE Crash
  <2>1. /\ pc' = "down" /\ suppressions' = <<>> /\ persistedRef' = 0 /\ toLog' = <<>>
        /\ routedLen' = 0 /\ UNCHANGED <<nextSup, logged, dropped>>
    BY <1>4 DEF Crash
  <2>2. Len(suppressions') = 0 /\ Len(toLog') = 0 /\ Handed' = Handed
    BY <2>1 DEF Handed
  <2> QED
    BY <2>1, <2>2 DEF Cursor, SerialOrder, BeyondCursor, UpToCursor, Increasing, Before
<1>5. CASE NewState
  <2>1. CASE phase = "OPEN" /\ prevState = "SHUT"
    BY <1>5, <2>1, EmptyList DEF NewState, ResetDay
  <2>2. CASE ~ (phase = "OPEN" /\ prevState = "SHUT")
    BY <1>5, <2>2, SameList DEF NewState
  <2> QED
    BY <2>1, <2>2
<1>6. CASE Scan
  <2>1. PICK found \in SUBSET Candidates, market \in 0..MaxMarket :
          Suppress(market + Cardinality({c \in found : InCooldown(c)}))
    BY <1>6 DEF Scan
  <2>2. market + Cardinality({c \in found : InCooldown(c)}) \in Nat
    <3>1. {c \in found : InCooldown(c)} \subseteq Candidates
      OBVIOUS
    <3>2. IsFiniteSet({c \in found : InCooldown(c)})
      BY <3>1, FewCandidates, FS_Subset
    <3> QED
      BY <3>2, FS_CardinalityType, GatesAssumption
  <2> QED
    BY <1>6, <2>1, <2>2, SuppressStep DEF Scan
<1>7. CASE \E c \in candidates : Reject(c)
  BY <1>7, SuppressStep DEF Reject
<1>8. CASE ScanDone
  BY <1>8, HandOver
<1>9. CASE LogSuppression
  BY <1>9, HandIn
<1>10. CASE RouteDone
  BY <1>10, CursorMoves
<1>11. CASE AdminReset
  BY <1>11, EmptyList DEF AdminReset, ResetDay
<1> QED
  BY <1>1, <1>2, <1>3, <1>4, <1>5, <1>6, <1>7, <1>8, <1>9, <1>10, <1>11
  DEF Next, ScanStep, RouteStep, QuietIteration

LEMMA AlwaysCursor == Spec => []Cursor
<1>1. Init => SerialOrder /\ BeyondCursor /\ UpToCursor
  BY DEF Init, SerialOrder, BeyondCursor, UpToCursor, Handed, Increasing, Before
<1>2. Init /\ Typed => Cursor
  BY <1>1 DEF Cursor
<1>3. Cursor /\ Typed' /\ [Next]_vars => Cursor'
  BY CursorStep DEF Cursor
<1> QED
  BY <1>2, <1>3, AlwaysTyped, PTL DEF Spec

\* No suppression is handed to the store a second time, whatever resets and
\* failed inserts lie between.
THEOREM NeverLoggedTwice == Spec => []LoggedOnce
<1>1. Cursor => LoggedOnce
  BY DEF Cursor, BeyondCursor, LoggedOnce, Handed
<1> QED
  BY <1>1, AlwaysCursor, PTL

\* The cursor skips no suppression but those a reset in the middle of a
\* routing hides from it.
THEOREM CursorSkipsNone == Spec => []NoneSkipped
<1>1. Cursor => NoneSkipped
  <2> SUFFICES ASSUME Cursor, pc = "loop", ~cutShort, NEW i \in 1..Len(suppressions)
               PROVE  suppressions[i] \in logged \cup dropped
    BY DEF NoneSkipped
  <2>1. i <= persistedRef
    BY DEF Cursor, UpToCursor
  <2> QED
    BY <2>1 DEF Cursor, UpToCursor, Handed
<1> QED
  BY <1>1, AlwaysCursor, PTL

-----------------------------------------------------------------------------
(* The caps of a day and of a scan.  A cap is on the signals of some kind;  *)
(* the proofs count those that are stored or on their way, which no step    *)
(* but an emission makes more.                                              *)

SignalOf(r) == [setup |-> r.setup, base |-> r.base, dir |-> r.dir, scan |-> r.scan,
                at |-> r.at, day |-> r.day, epoch |-> r.epoch]

\* How many signals of the kind K are among the rows R and in flight in F.
Stored(R, K) == {r \in R : SignalOf(r) \in K}
Held(R, F, K) == Cardinality(Stored(R, K)) + Cardinality(F \cap K)

LEMMA HeldIsFinite ==
  ASSUME NEW R, NEW F, NEW K, IsFiniteSet(R), IsFiniteSet(F)
  PROVE  /\ IsFiniteSet(Stored(R, K)) /\ Cardinality(Stored(R, K)) \in Nat
         /\ IsFiniteSet(F \cap K) /\ Cardinality(F \cap K) \in Nat
         /\ Held(R, F, K) \in Nat
<1>1. Stored(R, K) \subseteq R /\ F \cap K \subseteq F
  BY DEF Stored
<1>2. IsFiniteSet(Stored(R, K)) /\ IsFiniteSet(F \cap K)
  BY <1>1, FS_Subset
<1> QED
  BY <1>2, FS_CardinalityType DEF Held

LEMMA HeldOfLess ==
  ASSUME NEW R, NEW F, NEW K, IsFiniteSet(R), IsFiniteSet(F),
         NEW R2, R2 \subseteq R, NEW F2, F2 \subseteq F
  PROVE  Held(R2, F2, K) <= Held(R, F, K)
<1>1. Stored(R2, K) \subseteq Stored(R, K) /\ F2 \cap K \subseteq F \cap K
  BY DEF Stored
<1>2. IsFiniteSet(R2) /\ IsFiniteSet(F2)
  BY FS_Subset
<1>3. /\ Cardinality(Stored(R2, K)) <= Cardinality(Stored(R, K))
      /\ Cardinality(F2 \cap K) <= Cardinality(F \cap K)
  BY <1>1, HeldIsFinite, FS_Subset
<1> QED
  BY <1>2, <1>3, HeldIsFinite DEF Held

LEMMA HeldOfNone ==
  ASSUME NEW R, NEW F, NEW K, \A r \in R : SignalOf(r) \notin K, \A s \in F : s \notin K
  PROVE  Held(R, F, K) = 0
<1>1. Stored(R, K) = {} /\ F \cap K = {}
  BY DEF Stored
<1> QED
  BY <1>1, FS_EmptySet DEF Held

LEMMA OneMore ==
  ASSUME NEW S, IsFiniteSet(S), NEW x
  PROVE  /\ IsFiniteSet(S \cup {x})
         /\ Cardinality(S) \in Nat /\ Cardinality(S \cup {x}) \in Nat
         /\ Cardinality(S \cup {x}) <= Cardinality(S) + 1
  BY FS_AddElement, FS_CardinalityType

LEMMA OneLess ==
  ASSUME NEW S, IsFiniteSet(S), NEW x \in S
  PROVE  /\ Cardinality(S) \in Nat /\ Cardinality(S \ {x}) \in Nat
         /\ Cardinality(S \ {x}) = Cardinality(S) - 1
  BY FS_RemoveElement, FS_CardinalityType

\* An emission puts one more in flight.
LEMMA HeldEmitted ==
  ASSUME NEW R, NEW F, NEW K, IsFiniteSet(R), IsFiniteSet(F), NEW s
  PROVE  /\ IsFiniteSet(F \cup {s})
         /\ Held(R, F \cup {s}, K) <= Held(R, F, K) + 1
         /\ s \notin K => Held(R, F \cup {s}, K) = Held(R, F, K)
<1>1. IsFiniteSet(F \cup {s})
  BY FS_AddElement
<1>2. /\ IsFiniteSet(F \cap K) /\ Cardinality(Stored(R, K)) \in Nat
      /\ Cardinality(F \cap K) \in Nat
  BY HeldIsFinite
<1>3. CASE s \in K
  <2>1. (F \cup {s}) \cap K = (F \cap K) \cup {s}
    BY <1>3
  <2>2. /\ Cardinality((F \cap K) \cup {s}) \in Nat
        /\ Cardinality((F \cap K) \cup {s}) <= Cardinality(F \cap K) + 1
    BY <1>2, OneMore
  <2>3. Held(R, F \cup {s}, K) <= Held(R, F, K) + 1
    BY <1>2, <2>1, <2>2 DEF Held
  <2> QED
    BY <1>1, <1>3, <2>3
<1>4. CASE s \notin K
  <2>1. (F \cup {s}) \cap K = F \cap K
    BY <1>4
  <2>2. Held(R, F \cup {s}, K) = Held(R, F, K)
    BY <2>1, Zenon DEF Held
  <2>3. Held(R, F, K) \in Nat
    BY HeldIsFinite
  <2> QED
    BY <1>1, <2>2, <2>3
<1> QED
  BY <1>3, <1>4

\* The router takes one out of flight, and may make it a row.
LEMMA HeldRouted ==
  ASSUME NEW R, NEW F, NEW K, IsFiniteSet(R), IsFiniteSet(F), NEW s \in F,
         NEW row, SignalOf(row) = s, NEW R2, R2 \subseteq R \cup {row}
  PROVE  Held(R2, F \ {s}, K) <= Held(R, F, K)
<1>1. IsFiniteSet(R \cup {row}) /\ IsFiniteSet(F \ {s})
  BY FS_AddElement, FS_Subset
<1>2. IsFiniteSet(R2)
  BY <1>1, FS_Subset
<1>3. CASE s \in K
  <2>1. Stored(R \cup {row}, K) = Stored(R, K) \cup {row}
    BY <1>3 DEF Stored
  <2>2. (F \ {s}) \cap K = (F \cap K) \ {s} /\ s \in F \cap K
    BY <1>3
  <2>3. IsFiniteSet(Stored(R, K)) /\ IsFiniteSet(F \cap K)
    BY HeldIsFinite
  <2>4. /\ Cardinality(Stored(R, K)) \in Nat /\ Cardinality(Stored(R, K) \cup {row}) \in Nat
        /\ Cardinality(Stored(R, K) \cup {row}) <= Cardinality(Stored(R, K)) + 1
    BY <2>3, OneMore
  <2>5. /\ Cardinality(F \cap K) \in Nat
        /\ Cardinality((F \cap K) \ {s}) = Cardinality(F \cap K) - 1
    BY <2>2, <2>3, OneLess
  <2>6. Held(R \cup {row}, F \ {s}, K) <= Held(R, F, K)
    <3>1. Held(R \cup {row}, F \ {s}, K)
            = Cardinality(Stored(R, K) \cup {row}) + Cardinality((F \cap K) \ {s})
      BY <2>1, <2>2, Zenon DEF Held
    <3>2. Held(R, F, K) = Cardinality(Stored(R, K)) + Cardinality(F \cap K)
      BY DEF Held
    <3> QED
      BY <2>4, <2>5, <3>1, <3>2
  <2>7. Held(R2, F \ {s}, K) <= Held(R \cup {row}, F \ {s}, K)
    BY <1>1, HeldOfLess
  <2>8. /\ Held(R2, F \ {s}, K) \in Nat /\ Held(R, F, K) \in Nat
        /\ Held(R \cup {row}, F \ {s}, K) \in Nat
    BY <1>1, <1>2, HeldIsFinite
  <2> QED
    BY <2>6, <2>7, <2>8
<1>4. CASE s \notin K
  <2>1. Stored(R2, K) \subseteq Stored(R, K)
    BY <1>4 DEF Stored
  <2>2. Stored(R2, K) = Stored(Stored(R, K) \cap R2, K) /\ Stored(R, K) \cap R2 \subseteq R
    BY <2>1 DEF Stored
  <2>3. Held(Stored(R, K) \cap R2, F \ {s}, K) <= Held(R, F, K)
    BY <2>2, HeldOfLess
  <2> QED
    BY <2>2, <2>3 DEF Held
<1> QED
  BY <1>3, <1>4

(***************************************************************************)
(* What a step does to what is held.                                       *)
(***************************************************************************)
Flight == IF pc = "emit" THEN emitted ELSE toStore

Counted == Ordered /\ IsFiniteSet(emitted)

NewSignal(c) ==
  [setup |-> c.setup, base |-> c.base, dir |-> c.dir,
   scan |-> scanNo, at |-> now, day |-> day, epoch |-> epoch]

LEMMA FlightIsKnown ==
  Counted => /\ Flight \subseteq emitted /\ IsFiniteSet(Flight) /\ IsFiniteSet(rows)
             /\ rows \subseteq Rows /\ Flight \subseteq Signals
<1> SUFFICES ASSUME Counted
             PROVE  /\ Flight \subseteq emitted /\ IsFiniteSet(Flight) /\ IsFiniteSet(rows)
                    /\ rows \subseteq Rows /\ Flight \subseteq Signals
  OBVIOUS
<1>1. Flight \subseteq emitted
  BY DEF Counted, Ordered, Typed, TypeOK, ScanOK, Flight
<1> QED
  BY <1>1, FS_Subset DEF Counted, Ordered, Typed, TypeOK, ScanOK, StoreOK, Queues

LEMMA StoredSignal ==
  ASSUME NEW s \in Signals
  PROVE  SignalOf(RowOf(s)) = s
  BY DEF SignalOf, RowOf, Signals

\* Only an emission adds to what is held, and no more than itself.
LEMMA HeldStep ==
  ASSUME Counted, [Next]_vars
  PROVE  /\ IsFiniteSet(emitted')
         /\ \/ \A K : Held(rows', Flight', K) <= Held(rows, Flight, K)
            \/ \E c \in candidates :
                 /\ Emit(c)
                 /\ \A K : /\ Held(rows', Flight', K) <= Held(rows, Flight, K) + 1
                           /\ NewSignal(c) \notin K =>
                                Held(rows', Flight', K) = Held(rows, Flight, K)
<1> USE DEF clockVars, scanVars, routeVars, gateVars, listVars, storeVars, resetVars
<1>1. /\ Flight \subseteq emitted /\ IsFiniteSet(Flight) /\ IsFiniteSet(rows)
      /\ rows \subseteq Rows /\ Flight \subseteq Signals /\ IsFiniteSet(emitted)
  BY FlightIsKnown DEF Counted
<1>2. pc # "route" => toStore = {}
  BY DEF Counted, Ordered, Typed, Queues
<1>3. ASSUME rows' = rows, Flight' \subseteq Flight
      PROVE  \A K : Held(rows', Flight', K) <= Held(rows, Flight, K)
  BY <1>1, <1>3, HeldOfLess
<1>4. CASE Tick \/ PhaseChange \/ NewState \/ SignalsStored \/ LogSuppression \/ RouteDone
           \/ AdminReset \/ Boot
  <2>1. emitted' = emitted /\ rows' = rows /\ toStore' = toStore
        /\ (pc = "emit" <=> pc' = "emit")
    BY <1>4 DEF Tick, PhaseChange, NewState, SignalsStored, LogSuppression, RouteDone,
                AdminReset, Boot
  <2> QED
    BY <1>1, <1>3, <2>1 DEF Flight
<1>5. CASE UNCHANGED vars
  BY <1>1, <1>3, <1>5 DEF Flight, vars
<1>6. CASE Crash
  <2>1. emitted' = {} /\ rows' = rows /\ toStore' = {}
    BY <1>6 DEF Crash
  <2> QED
    BY <1>3, <2>1, FS_EmptySet DEF Flight
<1>7. CASE Scan
  <2>1. emitted' = {} /\ rows' = rows /\ pc' = "emit"
    BY <1>7 DEF Scan
  <2> QED
    BY <1>3, <2>1, FS_EmptySet DEF Flight
<1>8. CASE ScanDone
  <2>1. /\ pc = "emit" /\ rows' = rows /\ emitted' = emitted /\ pc' # "emit"
        /\ toStore' = toStore \/ toStore' = emitted
    BY <1>8 DEF ScanDone
  <2> QED
    BY <1>1, <1>2, <1>3, <2>1 DEF Flight
<1>9. ASSUME NEW c \in candidates, Reject(c)
      PROVE  IsFiniteSet(emitted') /\ \A K : Held(rows', Flight', K) <= Held(rows, Flight, K)
  <2>1. emitted' = emitted /\ rows' = rows /\ pc' = pc /\ toStore' = toStore
    BY <1>9 DEF Reject
  <2> QED
    BY <1>1, <1>3, <2>1 DEF Flight
<1>10. ASSUME NEW c \in candidates, Emit(c)
       PROVE  /\ IsFiniteSet(emitted')
              /\ \A K : /\ Held(rows', Flight', K) <= Held(rows, Flight, K) + 1
                        /\ NewSignal(c) \notin K =>
                             Held(rows', Flight', K) = Held(rows, Flight, K)
  <2>1. /\ rows' = rows /\ Flight' = Flight \cup {NewSignal(c)}
        /\ emitted' = emitted \cup {NewSignal(c)}
    BY <1>10 DEF Emit, Flight, NewSignal
  <2> QED
    BY <1>1, <2>1, HeldEmitted, FS_AddElement
<1>11. ASSUME NEW s \in toStore, StoreSignal(s)
       PROVE  IsFiniteSet(emitted') /\ \A K : Held(rows', Flight', K) <= Held(rows, Flight, K)
  <2>1. /\ Flight = toStore /\ Flight' = Flight \ {s} /\ s \in Flight
        /\ emitted' = emitted /\ rows' \subseteq rows \cup {RowOf(s)}
    BY <1>11 DEF StoreSignal, Flight
  <2>2. SignalOf(RowOf(s)) = s
    BY <1>1, <2>1, StoredSignal
  <2>3. \A K : Held(rows', Flight \ {s}, K) <= Held(rows, Flight, K)
    BY <1>1, <2>1, <2>2, HeldRouted
  <2> QED
    BY <1>1, <2>1, <2>3
<1> QED
  BY <1>4, <1>5, <1>6, <1>7, <1>8, <1>9, <1>10, <1>11
     DEF Next, ScanStep, RouteStep, QuietIteration

(***************************************************************************)
(* The caps of a day.                                                      *)
(***************************************************************************)
OfDay(d, e) == {s \in Signals : s.day = d /\ s.epoch = e}
OfSide(d, e, b, x) == {s \in OfDay(d, e) : s.base = b /\ s.dir = x}

WithinDay ==
  \A d \in Nat, e \in Nat :
    /\ MaxPerDay > 0 => Held(rows, Flight, OfDay(d, e)) <= MaxPerDay
    /\ \A b \in Bases, x \in Directions :
         Held(rows, Flight, OfSide(d, e, b, x)) <= MaxPerDirection

\* The counters of a live process count no fewer than there are.
CountersKnow ==
  pc # "down" =>
    /\ Held(rows, Flight, OfDay(day, epoch)) <= totalToday
    /\ \A b \in Bases, x \in Directions :
         Held(rows, Flight, OfSide(day, epoch, b, x)) <= emittedToday[<<b, x>>]

LEMMA HeldType == Counted => \A K : Held(rows, Flight, K) \in Nat
  BY FlightIsKnown, HeldIsFinite

LEMMA EmitsToday ==
  ASSUME Counted, NEW c \in candidates
  PROVE  /\ c.base \in Bases /\ c.dir \in Directions /\ c.setup \in Setups
         /\ \A d, e : NewSignal(c) \in OfDay(d, e) => d = day /\ e = epoch
         /\ \A d, e, b, x : NewSignal(c) \in OfSide(d, e, b, x) =>
              d = day /\ e = epoch /\ b = c.base /\ x = c.dir
  BY DEF Counted, Ordered, Typed, TypeOK, ScanOK, Candidates, NewSignal, OfDay, OfSide

LEMMA WithinDayStep ==
  ASSUME Counted, Counted', [Next]_vars, WithinDay, CountersKnow
  PROVE  WithinDay'
<1>1. \A K : Held(rows, Flight, K) \in Nat /\ Held(rows', Flight', K) \in Nat
  <2>1. /\ IsFiniteSet(rows) /\ IsFiniteSet(Flight)
        /\ IsFiniteSet(rows') /\ IsFiniteSet(Flight')
    <3>1. IsFiniteSet(rows) /\ IsFiniteSet(Flight)
      BY FlightIsKnown
    <3>2. IsFiniteSet(rows') /\ IsFiniteSet(emitted') /\ Flight' \subseteq emitted'
      BY DEF Counted, Ordered, Typed, Queues, TypeOK, ScanOK, Flight
    <3> QED
      BY <3>1, <3>2, FS_Subset
  <2> QED
    BY <2>1, HeldIsFinite
<1>2. /\ MaxPerDay \in Nat /\ MaxPerDirection \in Nat /\ day \in Nat /\ epoch \in Nat
      /\ totalToday \in Nat
      /\ \A b \in Bases, x \in Directions : emittedToday[<<b, x>>] \in Nat
  BY GatesAssumption DEF Counted, Ordered, Typed, TypeOK, ClockOK, GatesOK
<1>3. CASE \A K : Held(rows', Flight', K) <= Held(rows, Flight, K)
  BY <1>1, <1>2, <1>3 DEF WithinDay
<1>4. ASSUME NEW c \in candidates, Emit(c),
             \A K : /\ Held(rows', Flight', K) <= Held(rows, Flight, K) + 1
                    /\ NewSignal(c) \notin K =>
                         Held(rows', Flight', K) = Held(rows, Flight, K)
      PROVE  WithinDay'
  <2>1. /\ pc # "down" /\ emittedToday[<<c.base, c.dir>>] < MaxPerDirection
        /\ MaxPerDay > 0 => totalToday < MaxPerDay
    BY <1>4 DEF Emit, Passes
  <2>2. ASSUME NEW d \in Nat, NEW e \in Nat, MaxPerDay > 0
        PROVE  Held(rows', Flight', OfDay(d, e)) <= MaxPerDay
    <3>1. CASE NewSignal(c) \in OfDay(d, e)
      <4>1. d = day /\ e = epoch
        BY <3>1, EmitsToday
      <4>2. Held(rows, Flight, OfDay(day, epoch)) <= totalToday
        BY <2>1 DEF CountersKnow
      <4>3. Held(rows', Flight', OfDay(d, e)) <= Held(rows, Flight, OfDay(d, e)) + 1
        BY <1>4
      <4>4. Held(rows', Flight', OfDay(d, e)) \in Nat /\ Held(rows, Flight, OfDay(d, e)) \in Nat
        BY <1>1
      <4> QED
        BY <1>2, <2>1, <2>2, <4>1, <4>2, <4>3, <4>4
    <3>2. CASE NewSignal(c) \notin OfDay(d, e)
      BY <1>4, <2>2, <3>2 DEF WithinDay
    <3> QED
      BY <3>1, <3>2
  <2>3. ASSUME NEW d \in Nat, NEW e \in Nat, NEW b \in Bases, NEW x \in Directions
        PROVE  Held(rows', Flight', OfSide(d, e, b, x)) <= MaxPerDirection
    <3>1. CASE NewSignal(c) \in OfSide(d, e, b, x)
      <4>1. d = day /\ e = epoch /\ b = c.base /\ x = c.dir
        BY <3>1, EmitsToday
      <4>2. Held(rows, Flight, OfSide(day, epoch, b, x)) <= emittedToday[<<b, x>>]
        BY <2>1 DEF CountersKnow
      <4>3. Held(rows', Flight', OfSide(d, e, b, x)) <= Held(rows, Flight, OfSide(d, e, b, x)) + 1
        BY <1>4
      <4>4. /\ Held(rows', Flight', OfSide(d, e, b, x)) \in Nat
            /\ Held(rows, Flight, OfSide(d, e, b, x)) \in Nat
        BY <1>1
      <4> QED
        BY <1>2, <2>1, <4>1, <4>2, <4>3, <4>4
    <3>2. CASE NewSignal(c) \notin OfSide(d, e, b, x)
      BY <1>4, <3>2 DEF WithinDay
    <3> QED
      BY <3>1, <3>2
  <2> QED
    BY <2>2, <2>3 DEF WithinDay
<1> QED
  BY <1>3, <1>4, HeldStep

LEMMA NothingYet ==
  ASSUME NEW R, NEW F, NEW d, NEW e,
         \A r \in R : r.day # d \/ r.epoch # e,
         \A s \in F : s.day # d \/ s.epoch # e
  PROVE  /\ Held(R, F, OfDay(d, e)) = 0
         /\ \A b, x : Held(R, F, OfSide(d, e, b, x)) = 0
<1>1. ASSUME NEW K, K \subseteq OfDay(d, e) PROVE Held(R, F, K) = 0
  <2>1. \A r \in R : SignalOf(r) \notin K
    BY <1>1 DEF OfDay, SignalOf
  <2>2. \A s \in F : s \notin K
    BY <1>1 DEF OfDay
  <2> QED
    BY <2>1, <2>2, HeldOfNone
<1> QED
  BY <1>1 DEF OfSide

LEMMA CountersAtBoot == ASSUME Counted, Boot PROVE CountersKnow'
<1>1. /\ rows' = rows /\ day' = day /\ epoch' = epoch /\ pc = "down" /\ pc' = "loop"
      /\ emitted' = emitted /\ toStore' = toStore
  BY DEF Boot, clockVars, storeVars, resetVars, routeVars
<1>2. Flight' = {} /\ IsFiniteSet(rows) /\ rows \subseteq Rows
  BY <1>1, FlightIsKnown DEF Counted, Ordered, Typed, Queues, Flight
<1>3. IsFiniteSet(RowsToday) /\ RowsToday \subseteq rows
  BY <1>2, FS_Subset DEF RowsToday
<1>4. \A K : Held(rows, {}, K) = Cardinality(Stored(rows, K))
  <2> SUFFICES ASSUME NEW K PROVE Held(rows, {}, K) = Cardinality(Stored(rows, K))
    OBVIOUS
  <2>1. {} \cap K = {} /\ Cardinality({}) = 0
    BY FS_EmptySet
  <2>2. Cardinality(Stored(rows, K)) \in Nat
    BY <1>2, FS_EmptySet, HeldIsFinite
  <2> QED
    BY <2>1, <2>2 DEF Held
<1>5. Cardinality(Stored(rows, OfDay(day, epoch))) <= totalToday'
  <2>1. Stored(rows, OfDay(day, epoch)) \subseteq RowsToday
    BY DEF Stored, OfDay, SignalOf, RowsToday
  <2> QED
    BY <1>3, <2>1, FS_Subset DEF Boot, Rehydrate
<1>6. ASSUME NEW b \in Bases, NEW x \in Directions
      PROVE  Cardinality(Stored(rows, OfSide(day, epoch, b, x))) <= emittedToday'[<<b, x>>]
  <2>1. Stored(rows, OfSide(day, epoch, b, x)) \subseteq RowsOf(RowsToday, b, x)
    BY DEF Stored, OfDay, OfSide, SignalOf, RowsToday, RowsOf
  <2>2. RowsOf(RowsToday, b, x) \subseteq RowsToday
    BY DEF RowsOf
  <2>3. IsFiniteSet(RowsOf(RowsToday, b, x))
    BY <1>3, <2>2, FS_Subset
  <2>4. emittedToday'[<<b, x>>] = Cardinality(RowsOf(RowsToday, b, x))
    BY DEF Boot, Rehydrate
  <2> QED
    BY <2>1, <2>3, <2>4, FS_Subset
<1> QED
  BY <1>1, <1>2, <1>4, <1>5, <1>6 DEF CountersKnow

LEMMA CountersStep ==
  ASSUME Counted, Counted', [Next]_vars, CountersKnow
  PROVE  CountersKnow'
<1> USE DEF clockVars, scanVars, routeVars, gateVars, listVars, storeVars, resetVars
<1>1. \A K : Held(rows, Flight, K) \in Nat /\ Held(rows', Flight', K) \in Nat
  <2>1. IsFiniteSet(rows) /\ IsFiniteSet(Flight)
    BY FlightIsKnown
  <2>2. IsFiniteSet(rows') /\ IsFiniteSet(emitted') /\ Flight' \subseteq emitted'
    BY DEF Counted, Ordered, Typed, Queues, TypeOK, ScanOK, Flight
  <2> QED
    BY <2>1, <2>2, FS_Subset, HeldIsFinite
<1>2. /\ TypeOK /\ Times /\ DayOrder /\ Queues /\ totalToday \in Nat /\ day \in Nat /\ epoch \in Nat
      /\ \A b \in Bases, x \in Directions : emittedToday[<<b, x>>] \in Nat
  BY DEF Counted, Ordered, Typed, TypeOK, GatesOK, ClockOK
<1>3. \A r \in Known : r.day \in Nat /\ r.day <= day /\ r.epoch \in Nat /\ r.epoch <= epoch
  BY <1>2, KnownTypes DEF Times
<1>4. Flight \subseteq emitted /\ rows \subseteq Known /\ emitted \subseteq Known
  BY FlightIsKnown DEF Known
\* Steps that open a new budget: no signal of it is known.
<1>5. ASSUME rows' = rows, Flight' \subseteq Known,
             \A r \in Known : r.day # day' \/ r.epoch # epoch',
             totalToday' \in Nat,
             \A b \in Bases, x \in Directions : emittedToday'[<<b, x>>] \in Nat
      PROVE  CountersKnow'
  <2>1. /\ Held(rows', Flight', OfDay(day', epoch')) = 0
        /\ \A b, x : Held(rows', Flight', OfSide(day', epoch', b, x)) = 0
    BY <1>4, <1>5, NothingYet
  <2> QED
    BY <1>5, <2>1 DEF CountersKnow
\* Steps that leave the counters alone.
<1>6. ASSUME \A K : Held(rows', Flight', K) <= Held(rows, Flight, K),
             pc # "down" \/ pc' = "down",
             UNCHANGED <<day, epoch, totalToday, emittedToday>>
      PROVE  CountersKnow'
  <2>1. CASE pc' = "down"
    BY <2>1 DEF CountersKnow
  <2>2. CASE pc # "down"
    BY <1>1, <1>2, <1>6, <2>2 DEF CountersKnow
  <2> QED
    BY <1>6, <2>1, <2>2
<1>7. CASE PhaseChange
  <2>1. /\ rows' = rows /\ Flight' = Flight /\ epoch' = epoch /\ pc' = pc
        /\ UNCHANGED <<totalToday, emittedToday>>
        /\ day' = day \/ day' = day + 1
    BY <1>7 DEF PhaseChange, Flight
  <2>2. CASE day' = day
    BY <1>1, <1>6, <2>1, <2>2
  <2>3. CASE day' = day + 1
    BY <1>2, <1>3, <1>4, <1>5, <2>1, <2>3
  <2> QED
    BY <2>1, <2>2, <2>3
<1>8. CASE Boot
  BY <1>8, CountersAtBoot
<1>9. CASE NewState
  <2>1. /\ rows' = rows /\ Flight' = Flight /\ epoch' = epoch /\ day' = day /\ pc' = pc
        /\ pc = "loop"
    BY <1>9 DEF NewState, Flight
  <2>2. CASE phase = "OPEN" /\ prevState = "SHUT"
    <3>1. \A r \in Known : r.day < day
      BY <1>2, <2>1, <2>2 DEF DayOrder
    <3>2. /\ totalToday' \in Nat
          /\ \A b \in Bases, x \in Directions : emittedToday'[<<b, x>>] \in Nat
      BY <1>9, <2>2 DEF NewState, ResetDay
    <3> QED
      BY <1>2, <1>3, <1>4, <1>5, <2>1, <3>1, <3>2
  <2>3. CASE ~(phase = "OPEN" /\ prevState = "SHUT")
    <3>1. UNCHANGED <<totalToday, emittedToday>>
      BY <1>9, <2>3 DEF NewState
    <3> QED
      BY <1>1, <1>6, <2>1, <3>1
  <2> QED
    BY <2>2, <2>3
<1>10. CASE AdminReset
  <2>1. rows' = rows /\ Flight' = Flight /\ day' = day /\ epoch' = epoch + 1
    BY <1>10 DEF AdminReset, Flight
  <2>2. /\ totalToday' \in Nat
        /\ \A b \in Bases, x \in Directions : emittedToday'[<<b, x>>] \in Nat
    BY <1>10 DEF AdminReset, ResetDay
  <2> QED
    BY <1>2, <1>3, <1>4, <1>5, <2>1, <2>2
<1>11. ASSUME NEW c \in candidates, Emit(c) PROVE CountersKnow'
  <2>1. /\ pc = "emit" /\ pc' = "emit" /\ day' = day /\ epoch' = epoch
        /\ totalToday' = totalToday + 1
        /\ emittedToday' = [emittedToday EXCEPT ![<<c.base, c.dir>>] = @ + 1]
        /\ rows' = rows /\ Flight' = Flight \cup {NewSignal(c)}
    BY <1>11 DEF Emit, Flight, NewSignal
  <2>2. \A K : /\ Held(rows', Flight', K) <= Held(rows, Flight, K) + 1
               /\ NewSignal(c) \notin K => Held(rows', Flight', K) = Held(rows, Flight, K)
    BY <2>1, FlightIsKnown, HeldEmitted
  <2>3. Held(rows', Flight', OfDay(day, epoch)) <= totalToday'
    BY <1>1, <1>2, <2>1, <2>2 DEF CountersKnow
  <2>4. ASSUME NEW b \in Bases, NEW x \in Directions
        PROVE  Held(rows', Flight', OfSide(day, epoch, b, x)) <= emittedToday'[<<b, x>>]
    <3>1. Held(rows, Flight, OfSide(day, epoch, b, x)) <= emittedToday[<<b, x>>]
      BY <2>1 DEF CountersKnow
    <3>2. emittedToday \in [Bases \X Directions -> Nat] /\ emittedToday[<<b, x>>] \in Nat
      BY <1>2 DEF TypeOK, GatesOK
    <3>3. /\ Held(rows', Flight', OfSide(day, epoch, b, x)) \in Nat
          /\ Held(rows, Flight, OfSide(day, epoch, b, x)) \in Nat
      BY <1>1
    <3>4. CASE b = c.base /\ x = c.dir
      <4>1. emittedToday'[<<b, x>>] = emittedToday[<<b, x>>] + 1
        BY <2>1, <3>2, <3>4
      <4>2. Held(rows', Flight', OfSide(day, epoch, b, x))
              <= Held(rows, Flight, OfSide(day, epoch, b, x)) + 1
        BY <2>2
      <4> QED
        BY <3>1, <3>2, <3>3, <4>1, <4>2
    <3>5. CASE ~(b = c.base /\ x = c.dir)
      <4>1. <<b, x>> # <<c.base, c.dir>>
        BY <3>5
      <4>2. emittedToday'[<<b, x>>] = emittedToday[<<b, x>>]
        BY <2>1, <3>2, <4>1
      <4>3. NewSignal(c) \notin OfSide(day, epoch, b, x)
        BY <3>5, EmitsToday
      <4>4. Held(rows', Flight', OfSide(day, epoch, b, x))
              = Held(rows, Flight, OfSide(day, epoch, b, x))
        BY <2>2, <4>3
      <4> QED
        BY <3>1, <4>2, <4>4
    <3> QED
      BY <3>4, <3>5
  <2> QED
    BY <2>1, <2>3, <2>4 DEF CountersKnow
<1>12. CASE Tick \/ Crash \/ Scan \/ ScanDone \/ (\E c \in candidates : Reject(c))
            \/ SignalsStored \/ LogSuppression \/ RouteDone
            \/ (\E s \in toStore : StoreSignal(s)) \/ UNCHANGED vars
  <2>1. /\ pc # "down" \/ pc' = "down"
        /\ UNCHANGED <<day, epoch, totalToday, emittedToday>>
    BY <1>12 DEF Tick, Crash, Scan, ScanDone, Reject, SignalsStored, LogSuppression,
                 RouteDone, StoreSignal, vars
  <2>2. CASE \A K : Held(rows', Flight', K) <= Held(rows, Flight, K)
    BY <1>6, <2>1, <2>2
  <2>3. CASE \E c \in candidates : Emit(c)
    BY <1>11, <2>3
  <2> QED
    BY <2>2, <2>3, HeldStep
<1> QED
  BY <1>7, <1>8, <1>9, <1>10, <1>11, <1>12 DEF Next, ScanStep, RouteStep, QuietIteration

(***************************************************************************)
(* The caps of a scan.                                                     *)
(***************************************************************************)
OfScan(n) == {s \in Signals : s.scan = n}
OfGroup(n, g, x) == {s \in OfScan(n) : Group[s.base] = g /\ s.dir = x}
OfKind(n, k, x) == {s \in OfScan(n) : s.setup = k /\ s.dir = x}

WithinScan ==
  \A n \in Nat :
    /\ Held(rows, Flight, OfScan(n)) <= MaxPerScan
    /\ \A g, x : Held(rows, Flight, OfGroup(n, g, x)) <= MaxPerGroup
    /\ \A k, x : Held(rows, Flight, OfKind(n, k, x)) <= MaxPerSetup

\* While a scan emits, none of its signals is a row.
LEMMA ScanInFlight ==
  ASSUME Counted, pc = "emit", NEW K, K \subseteq OfScan(scanNo)
  PROVE  Held(rows, Flight, K) = Cardinality(emitted \cap K)
<1>1. \A r \in rows : r.scan < scanNo /\ r.scan \in Nat /\ scanNo \in Nat
  BY KnownTypes DEF Counted, Ordered, Typed, TypeOK, ClockOK, ScanOrder, Known
<1>2. \A r \in rows : SignalOf(r) \notin K
  BY <1>1 DEF OfScan, SignalOf
<1>3. Stored(rows, K) = {}
  BY <1>2 DEF Stored
<1>4. Cardinality(emitted \cap K) \in Nat
  BY FS_EmptySet, HeldIsFinite DEF Counted
<1> QED
  BY <1>3, <1>4, FS_EmptySet DEF Held, Flight

LEMMA WithinScanStep ==
  ASSUME Counted, Counted', [Next]_vars, WithinScan
  PROVE  WithinScan'
<1>1. \A K : Held(rows, Flight, K) \in Nat /\ Held(rows', Flight', K) \in Nat
  <2>1. IsFiniteSet(rows) /\ IsFiniteSet(Flight)
    BY FlightIsKnown
  <2>2. IsFiniteSet(rows') /\ IsFiniteSet(emitted') /\ Flight' \subseteq emitted'
    BY DEF Counted, Ordered, Typed, Queues, TypeOK, ScanOK, Flight
  <2> QED
    BY <2>1, <2>2, FS_Subset, HeldIsFinite
<1>2. MaxPerScan \in Nat /\ MaxPerGroup \in Nat /\ MaxPerSetup \in Nat
  BY GatesAssumption
<1>3. CASE \A K : Held(rows', Flight', K) <= Held(rows, Flight, K)
  BY <1>1, <1>2, <1>3 DEF WithinScan
<1>4. ASSUME NEW c \in candidates, Emit(c),
             \A K : /\ Held(rows', Flight', K) <= Held(rows, Flight, K) + 1
                    /\ NewSignal(c) \notin K =>
                         Held(rows', Flight', K) = Held(rows, Flight, K)
      PROVE  WithinScan'
  <2>1. /\ pc = "emit" /\ Cardinality(emitted) < MaxPerScan
        /\ Cardinality(SameGroup(c)) < MaxPerGroup
        /\ Cardinality(SameSetup(c)) < MaxPerSetup
    BY <1>4 DEF Emit, Passes
  <2>2. /\ NewSignal(c).scan = scanNo /\ NewSignal(c).base = c.base
        /\ NewSignal(c).dir = c.dir /\ NewSignal(c).setup = c.setup
    BY DEF NewSignal
  \* A set the gate counted bounds what is held of a kind.
  <2>3. ASSUME NEW K, K \subseteq OfScan(scanNo), NEW S, S \subseteq emitted,
               emitted \cap K \subseteq S, NEW limit \in Nat, Cardinality(S) < limit
        PROVE  Held(rows', Flight', K) <= limit
    <3>1. IsFiniteSet(S) /\ Cardinality(S) \in Nat
      BY <2>3, FS_Subset, FS_CardinalityType DEF Counted
    <3>2. Cardinality(emitted \cap K) <= Cardinality(S)
      BY <2>3, <3>1, FS_Subset
    <3>3. Held(rows, Flight, K) = Cardinality(emitted \cap K)
      BY <2>1, <2>3, ScanInFlight
    <3>4. /\ Held(rows', Flight', K) <= Held(rows, Flight, K) + 1
          /\ Held(rows, Flight, K) \in Nat /\ Held(rows', Flight', K) \in Nat
      BY <1>1, <1>4
    <3> QED
      BY <2>3, <3>1, <3>2, <3>3, <3>4
  <2>4. ASSUME NEW n \in Nat PROVE Held(rows', Flight', OfScan(n)) <= MaxPerScan
    <3>1. CASE NewSignal(c) \in OfScan(n)
      BY <1>2, <2>1, <2>2, <2>3, <3>1 DEF OfScan
    <3>2. CASE NewSignal(c) \notin OfScan(n)
      BY <1>4, <3>2 DEF WithinScan
    <3> QED
      BY <3>1, <3>2
  <2>5. ASSUME NEW n \in Nat, NEW g, NEW x
        PROVE  Held(rows', Flight', OfGroup(n, g, x)) <= MaxPerGroup
    <3>1. CASE NewSignal(c) \in OfGroup(n, g, x)
      <4>1. n = scanNo /\ g = Group[c.base] /\ x = c.dir
        BY <2>2, <3>1 DEF OfGroup, OfScan
      <4>2. /\ OfGroup(n, g, x) \subseteq OfScan(scanNo) /\ SameGroup(c) \subseteq emitted
            /\ emitted \cap OfGroup(n, g, x) \subseteq SameGroup(c)
        BY <4>1 DEF OfGroup, SameGroup
      <4> QED
        BY <1>2, <2>1, <2>3, <4>2
    <3>2. CASE NewSignal(c) \notin OfGroup(n, g, x)
      BY <1>4, <3>2 DEF WithinScan
    <3> QED
      BY <3>1, <3>2
  <2>6. ASSUME NEW n \in Nat, NEW k, NEW x
        PROVE  Held(rows', Flight', OfKind(n, k, x)) <= MaxPerSetup
    <3>1. CASE NewSignal(c) \in OfKind(n, k, x)
      <4>1. n = scanNo /\ k = c.setup /\ x = c.dir
        BY <2>2, <3>1 DEF OfKind, OfScan
      <4>2. /\ OfKind(n, k, x) \subseteq OfScan(scanNo) /\ SameSetup(c) \subseteq emitted
            /\ emitted \cap OfKind(n, k, x) \subseteq SameSetup(c)
        BY <4>1 DEF OfKind, SameSetup
      <4> QED
        BY <1>2, <2>1, <2>3, <4>2
    <3>2. CASE NewSignal(c) \notin OfKind(n, k, x)
      BY <1>4, <3>2 DEF WithinScan
    <3> QED
      BY <3>1, <3>2
  <2> QED
    BY <2>4, <2>5, <2>6 DEF WithinScan
<1> QED
  BY <1>3, <1>4, HeldStep

(***************************************************************************)
(* The theorems.                                                           *)
(***************************************************************************)
Capped == Counted /\ WithinDay /\ CountersKnow /\ WithinScan

LEMMA AlwaysCapped == Spec => []Capped
<1>1. Init => IsFiniteSet(emitted) /\ WithinDay /\ CountersKnow /\ WithinScan
  <2> SUFFICES ASSUME Init
               PROVE  IsFiniteSet(emitted) /\ WithinDay /\ CountersKnow /\ WithinScan
    OBVIOUS
  <2>1. rows = {} /\ Flight = {} /\ emitted = {} /\ pc = "down"
    BY DEF Init, Flight
  <2>2. \A K : Held(rows, Flight, K) = 0
    BY <2>1, HeldOfNone
  <2> QED
    BY <2>1, <2>2, FS_EmptySet, GatesAssumption DEF WithinDay, CountersKnow, WithinScan
<1>2. Capped /\ Ordered' /\ [Next]_vars => Capped'
  <2> SUFFICES ASSUME Capped, Ordered', [Next]_vars PROVE Capped'
    OBVIOUS
  <2>1. Counted'
    BY HeldStep DEF Capped, Counted
  <2> QED
    BY <2>1, WithinDayStep, CountersStep, WithinScanStep DEF Capped
<1>3. Init /\ Ordered => Capped
  BY <1>1 DEF Capped, Counted
<1>4. Spec => []Ordered
  BY AlwaysRemembered, PTL DEF Remembered
<1> QED
  BY <1>2, <1>3, <1>4, PTL DEF Spec

\* What is stored in a day respects its caps, on either direction of every base
\* and in all, however often the process dies and is booted into the day; each
\* reset-gates request alone opens a new budget (scanner/__init__.py).
THEOREM DailyCapsAlwaysHold == Spec => []DailyCaps
<1>1. Capped => DailyCaps
  <2> SUFFICES ASSUME Capped, NEW d \in {r.day : r \in rows}, NEW e \in 0..epoch
      PROVE  LET ofDay == {r \in rows : r.day = d /\ r.epoch = e} IN
             /\ MaxPerDay > 0 => Cardinality(ofDay) <= MaxPerDay
             /\ \A b \in Bases, x \in Directions :
                  Cardinality(RowsOf(ofDay, b, x)) <= MaxPerDirection
    BY DEF DailyCaps
  <2> DEFINE ofDay == {r \in rows : r.day = d /\ r.epoch = e}
  <2>1. rows \subseteq Rows /\ IsFiniteSet(rows) /\ IsFiniteSet(Flight) /\ epoch \in Nat
    BY FlightIsKnown DEF Capped, Counted, Ordered, Typed, TypeOK, ClockOK
  <2>2. d \in Nat /\ e \in Nat
    BY <2>1 DEF Rows
  <2>3. \A K : /\ Cardinality(Stored(rows, K)) \in Nat
               /\ Cardinality(Stored(rows, K)) <= Held(rows, Flight, K)
               /\ Held(rows, Flight, K) \in Nat
    BY <2>1, HeldIsFinite DEF Held
  <2>4. ofDay = Stored(rows, OfDay(d, e))
    BY <2>1 DEF Stored, OfDay, SignalOf, Signals, Rows
  <2>5. \A b \in Bases, x \in Directions : RowsOf(ofDay, b, x) = Stored(rows, OfSide(d, e, b, x))
    BY <2>1 DEF Stored, OfDay, OfSide, SignalOf, Signals, Rows, RowsOf
  <2>6. WithinDay /\ MaxPerDay \in Nat /\ MaxPerDirection \in Nat
    BY GatesAssumption DEF Capped
  <2>7. MaxPerDay > 0 => Cardinality(ofDay) <= MaxPerDay
    <3>1. MaxPerDay > 0 => Held(rows, Flight, OfDay(d, e)) <= MaxPerDay
      BY <2>2, <2>6 DEF WithinDay
    <3>2. MaxPerDay > 0 => Cardinality(Stored(rows, OfDay(d, e))) <= MaxPerDay
      BY <2>3, <2>6, <3>1
    <3> QED
      BY <2>4, <3>2, Zenon
  <2>8. \A b \in Bases, x \in Directions : Cardinality(RowsOf(ofDay, b, x)) <= MaxPerDirection
    BY <2>2, <2>3, <2>5, <2>6 DEF WithinDay
  <2> QED
    BY <2>7, <2>8
<1> QED
  BY <1>1, AlwaysCapped, PTL

\* What one scan stores respects the caps of a scan: in all, of correlated
\* instruments on one side, of a setup on one side (scanner/__init__.py).
THEOREM ScanCapsAlwaysHold == Spec => []ScanCaps
<1>1. Capped => ScanCaps
  <2> SUFFICES ASSUME Capped, NEW r \in rows
      PROVE  LET scan == {q \in rows : q.scan = r.scan} IN
             /\ Cardinality(scan) <= MaxPerScan
             /\ Cardinality({q \in scan : Group[q.base] = Group[r.base] /\ q.dir = r.dir})
                  <= MaxPerGroup
             /\ Cardinality({q \in scan : q.setup = r.setup /\ q.dir = r.dir}) <= MaxPerSetup
    BY DEF ScanCaps
  <2> DEFINE scan == {q \in rows : q.scan = r.scan}
  <2>1. rows \subseteq Rows /\ IsFiniteSet(rows) /\ IsFiniteSet(Flight) /\ r.scan \in Nat
    BY FlightIsKnown DEF Capped, Rows
  <2>2. \A K : /\ Cardinality(Stored(rows, K)) \in Nat
               /\ Cardinality(Stored(rows, K)) <= Held(rows, Flight, K)
               /\ Held(rows, Flight, K) \in Nat
    BY <2>1, HeldIsFinite DEF Held
  <2>3. \A q \in rows : SignalOf(q) \in Signals
    BY <2>1 DEF SignalOf, Signals, Rows
  <2>4. scan = Stored(rows, OfScan(r.scan))
    BY <2>3 DEF Stored, OfScan, SignalOf
  <2>5. {q \in scan : Group[q.base] = Group[r.base] /\ q.dir = r.dir}
          = Stored(rows, OfGroup(r.scan, Group[r.base], r.dir))
    BY <2>3 DEF Stored, OfScan, OfGroup, SignalOf
  <2>6. {q \in scan : q.setup = r.setup /\ q.dir = r.dir}
          = Stored(rows, OfKind(r.scan, r.setup, r.dir))
    BY <2>3 DEF Stored, OfScan, OfKind, SignalOf
  <2>7. WithinScan /\ MaxPerScan \in Nat /\ MaxPerGroup \in Nat /\ MaxPerSetup \in Nat
    BY GatesAssumption DEF Capped
  <2>8. Cardinality(scan) <= MaxPerScan
    <3>1. Held(rows, Flight, OfScan(r.scan)) <= MaxPerScan
      BY <2>1, <2>7 DEF WithinScan
    <3>2. Cardinality(Stored(rows, OfScan(r.scan))) <= MaxPerScan
      BY <2>2, <2>7, <3>1
    <3> QED
      BY <2>4, <3>2, Zenon
  <2>9. Cardinality({q \in scan : Group[q.base] = Group[r.base] /\ q.dir = r.dir}) <= MaxPerGroup
    <3>1. Held(rows, Flight, OfGroup(r.scan, Group[r.base], r.dir)) <= MaxPerGroup
      BY <2>1, <2>7 DEF WithinScan
    <3>2. Cardinality(Stored(rows, OfGroup(r.scan, Group[r.base], r.dir))) <= MaxPerGroup
      BY <2>2, <2>7, <3>1
    <3> QED
      BY <2>5, <3>2, Zenon
  <2>10. Cardinality({q \in scan : q.setup = r.setup /\ q.dir = r.dir}) <= MaxPerSetup
    <3>1. Held(rows, Flight, OfKind(r.scan, r.setup, r.dir)) <= MaxPerSetup
      BY <2>1, <2>7 DEF WithinScan
    <3>2. Cardinality(Stored(rows, OfKind(r.scan, r.setup, r.dir))) <= MaxPerSetup
      BY <2>2, <2>7, <3>1
    <3> QED
      BY <2>6, <3>2, Zenon
  <2> QED
    BY <2>8, <2>9, <2>10
<1> QED
  BY <1>1, AlwaysCapped, PTL
=============================================================================
