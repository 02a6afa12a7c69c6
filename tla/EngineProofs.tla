---------------------------- MODULE EngineProofs ----------------------------
(***************************************************************************)
(* Proofs about module Engine, for any sets of signals, any number of days *)
(* and crashes and any choice of the phases in which they happen.          *)
(*                                                                         *)
(* The inductive invariant is TypeOK, what each queue may hold at each     *)
(* point of the loop (QueueControl), and what the places a signal can be   *)
(* in say of each other (SignalInv).                                       *)
(***************************************************************************)
EXTENDS Engine, TLAPS

\* A queue is filled only between the step that fills it and the writes that
\* empty it; a dead process has none.
QueueControl ==
  /\ pc = "down" => pendingTrigger = {} /\ pendingTp1 = {}
  /\ pc # "route" => scanned = {}
  /\ pc # "trigger" => triggerQ = {}
  /\ pc # "tp1" => tp1Q = {}
  /\ pc \in {"trigger", "tp1", "force", "backup"} => pendingTrigger = {}
  /\ pc \notin {"persist", "force"} => NothingQueued

\* Places that mention the fill, or the first target, of a signal.
FillMarks == triggeredAt \cup pendingTrigger \cup triggerQ
Tp1Marks == tp1TouchedAt \cup pendingTp1 \cup tp1Q

Untouched(s) ==
  /\ stage[s] = Untracked /\ outcome[s] = Undecided /\ outQ[s] = Undecided
  /\ s \notin FillMarks /\ s \notin Tp1Marks

SignalInv(s) ==
  /\ emittedOn[s] = 0 => Untouched(s) /\ s \notin rows /\ s \notin scanned
  /\ s \in scanned => Untouched(s)
  /\ stage[s] # Untracked => outcome[s] = Undecided /\ outQ[s] = Undecided
  /\ outQ[s] # Undecided => outcome[s] = Undecided
  /\ s \in FillMarks =>
       stage[s] # Pending /\ outcome[s] # NotTriggered /\ outQ[s] # NotTriggered
  /\ s \in Tp1Marks =>
       /\ stage[s] \in {Banked, Untracked}
       /\ outcome[s] \in AfterTp1(s \in Level) \cup {Undecided}
       /\ outQ[s] \in AfterTp1(s \in Level) \cup {Undecided}
  /\ s \in Level /\ s \in rows /\ (stage[s] \in {Live, Banked} \/ s \in pendingTp1) =>
       s \in FillMarks
  /\ s \in Level /\ s \in rows /\ s \in tp1Q => s \in triggeredAt
  /\ s \in Level /\ s \in tp1TouchedAt => s \in triggeredAt

IInv == TypeOK /\ QueueControl /\ \A s \in Signals : SignalInv(s)

\* What one call of check() can do to a signal, stage by stage.
LEMMA WalkFacts ==
  ASSUME NEW stg \in TrackedStages, NEW lev \in BOOLEAN, NEW leg \in BOOLEAN,
         NEW w \in WalkFrom(stg, lev, leg)
  PROVE  /\ w[1] \in TrackedStages
         /\ w[2] \in Outcomes \cup {Undecided}
         /\ w[1] = Pending => stg = Pending
         /\ w[2] = NotTriggered => w[1] = Pending
         /\ stg = Banked => w[1] = Banked
         /\ w[1] = Banked => w[2] \in AfterTp1(lev) \cup {Undecided}
  BY DEF WalkFrom, WalkFromLive, WalkFromBanked, TrackedStages, Outcomes, Undecided,
     Pending, Live, Banked, NotTriggered, AfterTp1, BankedOutcomes

LEMMA PlanTypes ==
  ASSUME NEW a \in BOOLEAN, NEW b \in BOOLEAN, NEW c \in BOOLEAN,
         NEW stg \in Stages
  PROVE  /\ FirstStage(a) \in Stages
         /\ ResumedStage(a, b, c) \in Stages
         /\ ForcedOutcome(stg) \in Outcomes
  BY DEF FirstStage, ResumedStage, ForcedOutcome, Stages, TrackedStages, Outcomes,
     Pending, Live, Banked, Untracked, NotTriggered

\* Every variable keeps its type: in particular a mark is only ever set on a
\* stored row and the router only handles signals of the current scan.
LEMMA TypeStep == TypeOK /\ [Next]_vars => TypeOK'
<1> SUFFICES ASSUME TypeOK, [Next]_vars PROVE TypeOK'
  OBVIOUS
<1> USE DEF TypeOK, clockVars, loopVars, queueVars, monitorVars, outcomeVars,
    storeVars, adminVars
<1>1. CASE Advance
  BY <1>1, ConstantsAssumption DEF Advance, NextPhase, Phases
<1>2. CASE Boot
  BY <1>2 DEF Boot, Resumed, ResumedStage, Stages, TrackedStages
<1>3. CASE Crash
  BY <1>3 DEF Crash, Stages
<1>4. CASE LoopOpens
  BY <1>4 DEF LoopOpens
<1>5. CASE OpeningDone
  BY <1>5 DEF OpeningDone, BodyOf
<1>6. CASE LoopCloses
  BY <1>6 DEF LoopCloses
<1>7. CASE LoopContinues
  BY <1>7 DEF LoopContinues, SessionState, BodyOf, Phases, NoState
<1>8. CASE Scan
  BY <1>8 DEF Scan
<1>9. CASE Register
  BY <1>9 DEF Register, FirstStage, Stages, TrackedStages, Pending, Live
<1>10. CASE \E s \in Signals : RouteSignal(s)
  BY <1>10 DEF RouteSignal
<1>11. CASE Check
  BY <1>11 DEF Check, Open, Untracked, Stages, TrackedStages
<1>12. CASE DrainTriggerMarks
  BY <1>12 DEF DrainTriggerMarks
<1>13. CASE DrainTp1Marks
  BY <1>13 DEF DrainTp1Marks
<1>14. CASE MonitorDone
  BY <1>14 DEF MonitorDone
<1>15. CASE \E s \in Signals : PersistOutcome(s)
  BY <1>15 DEF PersistOutcome, WriteOutcome, Undecided
<1>16. CASE \E s \in Signals : MarkTriggered(s)
  BY <1>16 DEF MarkTriggered
<1>17. CASE \E s \in Signals : MarkTp1Touched(s)
  BY <1>17 DEF MarkTp1Touched
<1>18. CASE ForceCloseAll
  BY <1>18, PlanTypes DEF ForceCloseAll, Open, Untracked, Stages, Undecided
<1>19. CASE WriteSummary
  BY <1>19 DEF WriteSummary
<1>20. CASE CloseDone
  BY <1>20 DEF CloseDone, BodyOf
<1>21. CASE \E s \in Signals : PersistForced(s)
  BY <1>21 DEF PersistForced, WriteOutcome, Undecided
<1>22. CASE ClearSignals
  BY <1>22, ConstantsAssumption DEF ClearSignals, NoRequest
<1>23. CASE ClearOutcomes
  BY <1>23 DEF ClearOutcomes, InScope, Undecided
<1>24. CASE ClearSummary
  BY <1>24 DEF ClearSummary
<1>25. CASE ResetMemory
  BY <1>25 DEF ResetMemory, NoRequest, Untracked, Stages
<1>26. CASE UNCHANGED vars
  BY <1>26 DEF vars
<1> HIDE DEF TypeOK
<1> QED
  BY <1>1, <1>2, <1>3, <1>4, <1>5, <1>6, <1>7, <1>8, <1>9, <1>10, <1>11, <1>12, <1>13, <1>14, <1>15, <1>16, <1>17, <1>18, <1>19, <1>20, <1>21, <1>22, <1>23, <1>24, <1>25, <1>26
     DEF Next, LoopStep, Transition, RouteStep, MonitorStep, CloseStep, AdminStep

\* The queues are empty outside the part of the loop they belong to.
LEMMA QueueStep == TypeOK /\ QueueControl /\ [Next]_vars => QueueControl'
<1> SUFFICES ASSUME TypeOK, QueueControl, [Next]_vars PROVE QueueControl'
  OBVIOUS
<1> USE DEF TypeOK, QueueControl, NothingQueued, clockVars, loopVars, queueVars,
    monitorVars, outcomeVars, storeVars, adminVars
<1>1. CASE Advance
  BY <1>1 DEF Advance
<1>2. CASE Boot
  BY <1>2 DEF Boot
<1>3. CASE Crash
  BY <1>3 DEF Crash, Undecided
<1>4. CASE LoopOpens
  BY <1>4 DEF LoopOpens
<1>5. CASE OpeningDone
  BY <1>5 DEF OpeningDone, BodyOf
<1>6. CASE LoopCloses
  BY <1>6 DEF LoopCloses
<1>7. CASE LoopContinues
  BY <1>7 DEF LoopContinues, BodyOf
<1>8. CASE Scan
  BY <1>8 DEF Scan
<1>9. CASE Register
  BY <1>9 DEF Register
<1>10. CASE \E s \in Signals : RouteSignal(s)
  BY <1>10 DEF RouteSignal
<1>11. CASE Check
  BY <1>11 DEF Check
<1>12. CASE DrainTriggerMarks
  BY <1>12 DEF DrainTriggerMarks
<1>13. CASE DrainTp1Marks
  BY <1>13 DEF DrainTp1Marks
<1>14. CASE MonitorDone
  BY <1>14 DEF MonitorDone
<1>15. CASE \E s \in Signals : PersistOutcome(s)
  BY <1>15 DEF PersistOutcome, WriteOutcome
<1>16. CASE \E s \in Signals : MarkTriggered(s)
  BY <1>16 DEF MarkTriggered
<1>17. CASE \E s \in Signals : MarkTp1Touched(s)
  BY <1>17 DEF MarkTp1Touched
<1>18. CASE ForceCloseAll
  BY <1>18 DEF ForceCloseAll, Open
<1>19. CASE WriteSummary
  BY <1>19 DEF WriteSummary
<1>20. CASE CloseDone
  BY <1>20 DEF CloseDone, BodyOf
<1>21. CASE \E s \in Signals : PersistForced(s)
  BY <1>21 DEF PersistForced, WriteOutcome
<1>22. CASE ClearSignals
  BY <1>22 DEF ClearSignals, AtAwait
<1>23. CASE ClearOutcomes
  BY <1>23 DEF ClearOutcomes, AtAwait
<1>24. CASE ClearSummary
  BY <1>24 DEF ClearSummary
<1>25. CASE ResetMemory
  BY <1>25 DEF ResetMemory, AtAwait
<1>26. CASE UNCHANGED vars
  BY <1>26 DEF vars
<1> HIDE DEF TypeOK, QueueControl
<1> QED
  BY <1>1, <1>2, <1>3, <1>4, <1>5, <1>6, <1>7, <1>8, <1>9, <1>10, <1>11, <1>12, <1>13, <1>14, <1>15, <1>16, <1>17, <1>18, <1>19, <1>20, <1>21, <1>22, <1>23, <1>24, <1>25, <1>26
     DEF Next, LoopStep, Transition, RouteStep, MonitorStep, CloseStep, AdminStep

\* What the places of one signal say of each other.
LEMMA SignalStep == IInv /\ [Next]_vars => \A s \in Signals : SignalInv(s)'
<1> SUFFICES ASSUME TypeOK, QueueControl, NEW x \in Signals, SignalInv(x), [Next]_vars
             PROVE SignalInv(x)'
  BY DEF IInv
<1> USE DEF TypeOK, QueueControl, NothingQueued, SignalInv, Untouched, FillMarks,
    Tp1Marks, clockVars, loopVars, queueVars, monitorVars, outcomeVars, storeVars,
    adminVars, Stages, TrackedStages, Pending, Live, Banked, Untracked, Outcomes,
    AfterTp1, BankedOutcomes, NotTriggered, Undecided
<1>1. CASE Advance
  BY <1>1 DEF Advance
<1>2. CASE Boot
  BY <1>2 DEF Boot, Resumed, ResumedStage, UnresolvedToday
<1>3. CASE Crash
  BY <1>3 DEF Crash
<1>4. CASE LoopOpens
  BY <1>4 DEF LoopOpens
<1>5. CASE OpeningDone
  BY <1>5 DEF OpeningDone
<1>6. CASE LoopCloses
  BY <1>6 DEF LoopCloses
<1>7. CASE LoopContinues
  BY <1>7 DEF LoopContinues
<1>8. CASE Scan
  BY <1>8 DEF Scan
<1>9. CASE Register
  BY <1>9 DEF Register, FirstStage
<1>10. CASE \E s \in Signals : RouteSignal(s)
  BY <1>10 DEF RouteSignal
<1>11. CASE Check
  <2>1. PICK walk \in [Open -> TrackedStages \X (Outcomes \cup {Undecided})] :
          /\ \A s \in Open : walk[s] \in WalkFrom(stage[s], s \in Level, s \in Legacy)
          /\ stage' = [s \in Signals |->
                         IF s \in Open /\ walk[s][2] = Undecided
                         THEN walk[s][1] ELSE Untracked]
          /\ outQ' = [s \in Signals |-> IF s \in Open THEN walk[s][2] ELSE Undecided]
          /\ pendingTrigger' = pendingTrigger \cup
               {s \in Open : stage[s] = Pending /\ walk[s][1] # Pending}
          /\ pendingTp1' = pendingTp1 \cup
               {s \in Open : stage[s] # Banked /\ walk[s][1] = Banked}
    BY <1>11 DEF Check
  <2>2. ASSUME x \in Open
        PROVE  /\ walk[x][1] \in TrackedStages
               /\ walk[x][2] \in Outcomes \cup {Undecided}
               /\ walk[x][1] = Pending => stage[x] = Pending
               /\ walk[x][2] = NotTriggered => walk[x][1] = Pending
               /\ stage[x] = Banked => walk[x][1] = Banked
               /\ walk[x][1] = Banked => walk[x][2] \in AfterTp1(x \in Level) \cup {Undecided}
    <3>1. stage[x] \in TrackedStages
      BY <2>2 DEF Open
    <3>2. walk[x] \in WalkFrom(stage[x], x \in Level, x \in Legacy)
      BY <2>1, <2>2
    <3> DEFINE level == x \in Level
               legacy == x \in Legacy
               w == walk[x]
               stg == stage[x]
    <3>3. /\ level \in BOOLEAN /\ legacy \in BOOLEAN /\ stg \in TrackedStages
          /\ w \in WalkFrom(stg, level, legacy)
      BY <3>1, <3>2
    <3> HIDE DEF TrackedStages, Pending, Banked, Outcomes, Undecided, NotTriggered,
        BankedOutcomes, AfterTp1, level, legacy, w, stg
    <3>4. /\ w[1] \in TrackedStages
          /\ w[2] \in Outcomes \cup {Undecided}
          /\ w[1] = Pending => stg = Pending
          /\ w[2] = NotTriggered => w[1] = Pending
          /\ stg = Banked => w[1] = Banked
          /\ w[1] = Banked => w[2] \in AfterTp1(level) \cup {Undecided}
      BY <3>3, WalkFacts, Zenon
    <3> QED
      BY <3>4, Zenon DEF w, stg, level
  <2> QED
    BY <1>11, <2>1, <2>2 DEF Check, Open
<1>12. CASE DrainTriggerMarks
  BY <1>12 DEF DrainTriggerMarks
<1>13. CASE DrainTp1Marks
  BY <1>13 DEF DrainTp1Marks
<1>14. CASE MonitorDone
  BY <1>14 DEF MonitorDone
<1>15. CASE \E s \in Signals : PersistOutcome(s)
  BY <1>15 DEF PersistOutcome, WriteOutcome
<1>16. CASE \E s \in Signals : MarkTriggered(s)
  BY <1>16 DEF MarkTriggered
<1>17. CASE \E s \in Signals : MarkTp1Touched(s)
  BY <1>17 DEF MarkTp1Touched
<1>18. CASE ForceCloseAll
  BY <1>18 DEF ForceCloseAll, Open, ForcedOutcome
<1>19. CASE WriteSummary
  BY <1>19 DEF WriteSummary
<1>20. CASE CloseDone
  BY <1>20 DEF CloseDone
<1>21. CASE \E s \in Signals : PersistForced(s)
  BY <1>21 DEF PersistForced, WriteOutcome
<1>22. CASE ClearSignals
  BY <1>22 DEF ClearSignals
<1>23. CASE ClearOutcomes
  BY <1>23 DEF ClearOutcomes, InScope
<1>24. CASE ClearSummary
  BY <1>24 DEF ClearSummary
<1>25. CASE ResetMemory
  BY <1>25 DEF ResetMemory
<1>26. CASE UNCHANGED vars
  BY <1>26 DEF vars
<1> HIDE DEF TypeOK, QueueControl, SignalInv
<1> QED
  BY <1>1, <1>2, <1>3, <1>4, <1>5, <1>6, <1>7, <1>8, <1>9, <1>10, <1>11, <1>12, <1>13, <1>14, <1>15, <1>16, <1>17, <1>18, <1>19, <1>20, <1>21, <1>22, <1>23, <1>24, <1>25, <1>26
     DEF Next, LoopStep, Transition, RouteStep, MonitorStep, CloseStep, AdminStep

LEMMA IInvInductive == Spec => []IInv
<1>1. Init => IInv
  BY ConstantsAssumption
  DEF Init, IInv, TypeOK, QueueControl, NothingQueued, SignalInv, Untouched, FillMarks,
      Tp1Marks, NoState, NoRequest, Phases, Stages
<1>2. IInv /\ [Next]_vars => IInv'
  BY TypeStep, QueueStep, SignalStep DEF IInv
<1> QED
  BY <1>1, <1>2, PTL DEF Spec

\* The engine's state keeps its types.
THEOREM TypeCorrect == Spec => []TypeOK
<1>1. IInv => TypeOK
  BY DEF IInv
<1> QED
  BY <1>1, IInvInductive, PTL

\* Whatever crashes, outages and maintenance requests intervene, the monitor
\* never decides a signal that already has an outcome row: the silent INSERT OR
\* IGNORE of insert_outcome hides nothing.
THEOREM OutcomesDecidedOnce == Spec => []DecidedOnce
<1>1. IInv => DecidedOnce
  BY DEF IInv, SignalInv, DecidedOnce
<1> QED
  BY <1>1, IInvInductive, PTL

\* The persisted fill and TP1 marks of a row agree with each other and with its
\* outcome, across any crash between the outcome, fill and TP1 writes.
THEOREM MarksAlwaysAgree == Spec => []MarksAgree
<1>1. IInv => MarksAgree
  BY DEF IInv, TypeOK, SignalInv, MarksAgree, FillMarks, Tp1Marks
<1> QED
  BY <1>1, IInvInductive, PTL

(***************************************************************************)
(* Without maintenance requests nothing is lost.  The argument needs where *)
(* the loop can be in each phase of the day (ClockControl), and that the   *)
(* day's summary is written only after everything was decided.             *)
(***************************************************************************)
MonitorPoints == {"check", "persist", "trigger", "tp1"}

ClockControl ==
  /\ pc # "down" =>
       /\ prevState = "PRE_OPEN" => phase \in {"PRE_OPEN", "OPEN"}
       /\ prevState = "OPEN" => phase \in {"OPEN", "CLOSING"}
       /\ prevState = "CLOSING" => phase \in {"CLOSING", "AFTER"}
  /\ pc = "opening" => phase = "OPEN" /\ prevState # "OPEN" /\ state = "OPEN"
  /\ pc \in {"scan", "route"} => prevState = "OPEN" /\ state = "OPEN"
  /\ pc \in MonitorPoints =>
       \/ prevState = state /\ state # "CLOSED"
       \/ prevState = "CLOSING" /\ phase = "AFTER" /\ state = "CLOSED"
  /\ pc \in {"force", "backup"} =>
       prevState = "CLOSING" /\ phase = "AFTER" /\ state = "CLOSED"

DayInv ==
  /\ day \in summary => phase = "AFTER"
  /\ \A d \in summary : d <= day
  /\ pc \in {"force", "backup"} => \A s \in Signals : stage[s] = Untracked
  /\ \A s \in Signals : emittedOn[s] <= day
  /\ \A s \in scanned : emittedOn[s] = day

SessionInv == IInv /\ request = NoRequest /\ ClockControl /\ DayInv
                /\ NoLostSignal /\ SummaryIsComplete

LEMMA ClockStep ==
  ASSUME AdminOps = {}, TypeOK, request = NoRequest, ClockControl, [Next]_vars
  PROVE  ClockControl' /\ request' = NoRequest
<1> USE DEF TypeOK, ClockControl, MonitorPoints, NoRequest, NoState, Phases, clockVars,
    loopVars, queueVars, monitorVars, outcomeVars, storeVars, adminVars
<1>1. CASE Advance
  BY <1>1 DEF Advance, NextPhase, SessionState
<1>2. CASE Boot
  BY <1>2 DEF Boot
<1>3. CASE Crash
  BY <1>3 DEF Crash
<1>4. CASE LoopOpens
  BY <1>4 DEF LoopOpens, SessionState
<1>5. CASE OpeningDone
  BY <1>5 DEF OpeningDone, BodyOf
<1>6. CASE LoopCloses
  BY <1>6 DEF LoopCloses, SessionState
<1>7. CASE LoopContinues
  BY <1>7 DEF LoopContinues, BodyOf, SessionState
<1>8. CASE Scan
  BY <1>8 DEF Scan
<1>9. CASE Register
  BY <1>9 DEF Register
<1>10. CASE \E s \in Signals : RouteSignal(s)
  BY <1>10 DEF RouteSignal
<1>11. CASE Check
  BY <1>11 DEF Check
<1>12. CASE DrainTriggerMarks
  BY <1>12 DEF DrainTriggerMarks
<1>13. CASE DrainTp1Marks
  BY <1>13 DEF DrainTp1Marks
<1>14. CASE MonitorDone
  BY <1>14 DEF MonitorDone
<1>15. CASE \E s \in Signals : PersistOutcome(s)
  BY <1>15 DEF PersistOutcome, WriteOutcome
<1>16. CASE \E s \in Signals : MarkTriggered(s)
  BY <1>16 DEF MarkTriggered
<1>17. CASE \E s \in Signals : MarkTp1Touched(s)
  BY <1>17 DEF MarkTp1Touched
<1>18. CASE ForceCloseAll
  BY <1>18 DEF ForceCloseAll
<1>19. CASE WriteSummary
  BY <1>19 DEF WriteSummary
<1>20. CASE CloseDone
  BY <1>20 DEF CloseDone, BodyOf
<1>21. CASE \E s \in Signals : PersistForced(s)
  BY <1>21 DEF PersistForced, WriteOutcome
<1>22. CASE ClearSignals
  BY <1>22 DEF ClearSignals
<1>23. CASE ClearOutcomes
  BY <1>23 DEF ClearOutcomes
<1>24. CASE ClearSummary
  BY <1>24 DEF ClearSummary
<1>25. CASE ResetMemory
  BY <1>25 DEF ResetMemory
<1>26. CASE UNCHANGED vars
  BY <1>26 DEF vars
<1> HIDE DEF TypeOK, ClockControl
<1> QED
  BY <1>1, <1>2, <1>3, <1>4, <1>5, <1>6, <1>7, <1>8, <1>9, <1>10, <1>11, <1>12, <1>13, <1>14, <1>15, <1>16, <1>17, <1>18, <1>19, <1>20, <1>21, <1>22, <1>23, <1>24, <1>25, <1>26
     DEF Next, LoopStep, Transition, RouteStep, MonitorStep, CloseStep, AdminStep

LEMMA DayStep ==
  ASSUME AdminOps = {}, TypeOK, QueueControl, request = NoRequest, ClockControl,
         DayInv, [Next]_vars
  PROVE  DayInv'
<1> USE DEF TypeOK, QueueControl, ClockControl, DayInv, MonitorPoints, NoRequest, Phases,
    clockVars, loopVars, queueVars, monitorVars, outcomeVars, storeVars, adminVars
<1>1. CASE Advance
  BY <1>1 DEF Advance, NextPhase, SessionState
<1>2. CASE Boot
  BY <1>2 DEF Boot
<1>3. CASE Crash
  BY <1>3 DEF Crash
<1>4. CASE LoopOpens
  BY <1>4 DEF LoopOpens
<1>5. CASE OpeningDone
  BY <1>5 DEF OpeningDone, BodyOf
<1>6. CASE LoopCloses
  BY <1>6 DEF LoopCloses
<1>7. CASE LoopContinues
  BY <1>7 DEF LoopContinues, BodyOf
<1>8. CASE Scan
  BY <1>8 DEF Scan
<1>9. CASE Register
  BY <1>9 DEF Register
<1>10. CASE \E s \in Signals : RouteSignal(s)
  BY <1>10 DEF RouteSignal
<1>11. CASE Check
  BY <1>11 DEF Check
<1>12. CASE DrainTriggerMarks
  BY <1>12 DEF DrainTriggerMarks
<1>13. CASE DrainTp1Marks
  BY <1>13 DEF DrainTp1Marks
<1>14. CASE MonitorDone
  BY <1>14 DEF MonitorDone
<1>15. CASE \E s \in Signals : PersistOutcome(s)
  BY <1>15 DEF PersistOutcome
<1>16. CASE \E s \in Signals : MarkTriggered(s)
  BY <1>16 DEF MarkTriggered
<1>17. CASE \E s \in Signals : MarkTp1Touched(s)
  BY <1>17 DEF MarkTp1Touched
<1>18. CASE ForceCloseAll
  BY <1>18 DEF ForceCloseAll, Open
<1>19. CASE WriteSummary
  BY <1>19 DEF WriteSummary, NothingQueued
<1>20. CASE CloseDone
  BY <1>20 DEF CloseDone, BodyOf
<1>21. CASE \E s \in Signals : PersistForced(s)
  BY <1>21 DEF PersistForced
<1>22. CASE ClearSignals
  BY <1>22 DEF ClearSignals
<1>23. CASE ClearOutcomes
  BY <1>23 DEF ClearOutcomes
<1>24. CASE ClearSummary
  BY <1>24 DEF ClearSummary
<1>25. CASE ResetMemory
  BY <1>25 DEF ResetMemory
<1>26. CASE UNCHANGED vars
  BY <1>26 DEF vars
<1> HIDE DEF TypeOK, ClockControl, DayInv, QueueControl
<1> QED
  BY <1>1, <1>2, <1>3, <1>4, <1>5, <1>6, <1>7, <1>8, <1>9, <1>10, <1>11, <1>12, <1>13, <1>14, <1>15, <1>16, <1>17, <1>18, <1>19, <1>20, <1>21, <1>22, <1>23, <1>24, <1>25, <1>26
     DEF Next, LoopStep, Transition, RouteStep, MonitorStep, CloseStep, AdminStep

\* One signal: it is not lost, and it is decided before its day is summarised.
Kept(s) ==
  /\ pc # "down" /\ s \in rows /\ emittedOn[s] = day /\ outcome[s] = Undecided =>
       stage[s] # Untracked \/ s \in scanned \/ outQ[s] # Undecided
  /\ s \in rows /\ emittedOn[s] \in summary => outcome[s] # Undecided

LEMMA KeptStep ==
  ASSUME AdminOps = {}, TypeOK, QueueControl, request = NoRequest, ClockControl, DayInv,
         NEW x \in Signals, SignalInv(x), Kept(x), [Next]_vars
  PROVE  Kept(x)'
<1> USE DEF TypeOK, QueueControl, NothingQueued, ClockControl, DayInv, MonitorPoints,
    SignalInv, Untouched, Kept, NoRequest, clockVars, loopVars, queueVars, monitorVars,
    outcomeVars, storeVars, adminVars, Untracked, Pending, Live, Banked, Undecided
<1>1. CASE Advance
  BY <1>1 DEF Advance
<1>2. CASE Boot
  BY <1>2 DEF Boot, Resumed, ResumedStage, UnresolvedToday
<1>3. CASE Crash
  BY <1>3 DEF Crash
<1>4. CASE LoopOpens
  BY <1>4 DEF LoopOpens
<1>5. CASE OpeningDone
  BY <1>5 DEF OpeningDone, BodyOf
<1>6. CASE LoopCloses
  BY <1>6 DEF LoopCloses
<1>7. CASE LoopContinues
  BY <1>7 DEF LoopContinues, BodyOf
<1>8. CASE Scan
  BY <1>8 DEF Scan
<1>9. CASE Register
  BY <1>9 DEF Register, FirstStage
<1>10. CASE \E s \in Signals : RouteSignal(s)
  BY <1>10 DEF RouteSignal
<1>11. CASE Check
  BY <1>11 DEF Check, Open, TrackedStages
<1>12. CASE DrainTriggerMarks
  BY <1>12 DEF DrainTriggerMarks
<1>13. CASE DrainTp1Marks
  BY <1>13 DEF DrainTp1Marks
<1>14. CASE MonitorDone
  BY <1>14 DEF MonitorDone
<1>15. CASE \E s \in Signals : PersistOutcome(s)
  BY <1>15 DEF PersistOutcome, WriteOutcome
<1>16. CASE \E s \in Signals : MarkTriggered(s)
  BY <1>16 DEF MarkTriggered
<1>17. CASE \E s \in Signals : MarkTp1Touched(s)
  BY <1>17 DEF MarkTp1Touched
<1>18. CASE ForceCloseAll
  BY <1>18 DEF ForceCloseAll, Open, ForcedOutcome, NotTriggered
<1>19. CASE WriteSummary
  BY <1>19 DEF WriteSummary
<1>20. CASE CloseDone
  BY <1>20 DEF CloseDone, BodyOf
<1>21. CASE \E s \in Signals : PersistForced(s)
  BY <1>21 DEF PersistForced, WriteOutcome
<1>22. CASE ClearSignals
  BY <1>22 DEF ClearSignals
<1>23. CASE ClearOutcomes
  BY <1>23 DEF ClearOutcomes
<1>24. CASE ClearSummary
  BY <1>24 DEF ClearSummary
<1>25. CASE ResetMemory
  BY <1>25 DEF ResetMemory
<1>26. CASE UNCHANGED vars
  BY <1>26 DEF vars
<1> HIDE DEF TypeOK, QueueControl, ClockControl, DayInv, SignalInv, Kept
<1> QED
  BY <1>1, <1>2, <1>3, <1>4, <1>5, <1>6, <1>7, <1>8, <1>9, <1>10, <1>11, <1>12, <1>13, <1>14, <1>15, <1>16, <1>17, <1>18, <1>19, <1>20, <1>21, <1>22, <1>23, <1>24, <1>25, <1>26
     DEF Next, LoopStep, Transition, RouteStep, MonitorStep, CloseStep, AdminStep

LEMMA SessionInvInductive == ASSUME AdminOps = {} PROVE Spec => []SessionInv
<1>1. Init => SessionInv
  <2> SUFFICES ASSUME Init PROVE SessionInv
    OBVIOUS
  <2>1. IInv
    BY ConstantsAssumption
    DEF Init, IInv, TypeOK, QueueControl, NothingQueued, SignalInv, Untouched,
        FillMarks, Tp1Marks, NoState, NoRequest, Phases, Stages
  <2> QED
    BY <2>1, ConstantsAssumption
    DEF Init, SessionInv, ClockControl, DayInv, MonitorPoints, NoLostSignal,
        SummaryIsComplete
<1>2. SessionInv /\ [Next]_vars => SessionInv'
  <2> SUFFICES ASSUME SessionInv, [Next]_vars PROVE SessionInv'
    OBVIOUS
  <2>1. IInv'
    BY TypeStep, QueueStep, SignalStep DEF IInv, SessionInv
  <2>2. ClockControl' /\ request' = NoRequest
    BY ClockStep DEF IInv, SessionInv
  <2>3. DayInv'
    BY DayStep DEF IInv, SessionInv
  <2>4. ASSUME NEW x \in Signals PROVE Kept(x)'
    <3>1. SignalInv(x) /\ Kept(x)
      BY DEF SessionInv, IInv, Kept, NoLostSignal, SummaryIsComplete
    <3> QED
      BY <3>1, KeptStep DEF SessionInv, IInv
  <2>5. NoLostSignal' /\ SummaryIsComplete'
    BY <2>1, <2>4 DEF IInv, TypeOK, Kept, NoLostSignal, SummaryIsComplete
  <2> QED
    BY <2>1, <2>2, <2>3, <2>5 DEF SessionInv, NoRequest
<1> QED
  BY <1>1, <1>2, PTL DEF Spec

\* With no maintenance request, no crash, outage or interleaving ever leaves a
\* signal stored today without an outcome and outside the monitor's reach.
THEOREM NothingIsLost == ASSUME AdminOps = {} PROVE Spec => []NoLostSignal
<1>1. SessionInv => NoLostSignal
  BY DEF SessionInv
<1> QED
  BY <1>1, SessionInvInductive, PTL

\* With no maintenance request, a day with a summary row has no undecided signal.
THEOREM SummariesAreComplete == ASSUME AdminOps = {} PROVE Spec => []SummaryIsComplete
<1>1. SessionInv => SummaryIsComplete
  BY DEF SessionInv
<1> QED
  BY <1>1, SessionInvInductive, PTL

(***************************************************************************)
(* The store implements the ledger.  Beyond IInv the argument needs what a *)
(* MARKET signal and a single-target signal can never become.              *)
(***************************************************************************)
KindInv(s) ==
  /\ s \notin Level => stage[s] # Pending /\ outQ[s] # NotTriggered
  /\ s \in Legacy => /\ s \notin Tp1Marks /\ stage[s] # Banked
                    /\ outQ[s] \notin BankedOutcomes
  /\ s \notin Legacy => outQ[s] # "TP1_HIT"

LEMMA WalkKinds ==
  ASSUME NEW stg \in TrackedStages, NEW lev \in BOOLEAN, NEW leg \in BOOLEAN,
         NEW w \in WalkFrom(stg, lev, leg)
  PROVE  /\ leg /\ stg # Banked => w[1] # Banked /\ w[2] \notin BankedOutcomes
         /\ ~leg => w[2] # "TP1_HIT"
  BY DEF WalkFrom, WalkFromLive, WalkFromBanked, TrackedStages, Outcomes, Undecided,
     Pending, Live, Banked, NotTriggered, AfterTp1, BankedOutcomes

LEMMA KindStep ==
  ASSUME TypeOK, QueueControl, NEW x \in Signals, SignalInv(x), KindInv(x), [Next]_vars
  PROVE  KindInv(x)'
<1> USE DEF TypeOK, QueueControl, NothingQueued, SignalInv, Untouched, KindInv, FillMarks,
    Tp1Marks, clockVars, loopVars, queueVars, monitorVars, outcomeVars, storeVars,
    adminVars, Stages, TrackedStages, Pending, Live, Banked, Untracked, Outcomes,
    AfterTp1, BankedOutcomes, NotTriggered, Undecided
<1>1. CASE Advance
  BY <1>1 DEF Advance
<1>2. CASE Boot
  BY <1>2 DEF Boot, Resumed, ResumedStage
<1>3. CASE Crash
  BY <1>3 DEF Crash
<1>4. CASE LoopOpens
  BY <1>4 DEF LoopOpens
<1>5. CASE OpeningDone
  BY <1>5 DEF OpeningDone
<1>6. CASE LoopCloses
  BY <1>6 DEF LoopCloses
<1>7. CASE LoopContinues
  BY <1>7 DEF LoopContinues
<1>8. CASE Scan
  BY <1>8 DEF Scan
<1>9. CASE Register
  BY <1>9 DEF Register, FirstStage
<1>10. CASE \E s \in Signals : RouteSignal(s)
  BY <1>10 DEF RouteSignal
<1>11. CASE Check
  <2>1. PICK walk \in [Open -> TrackedStages \X (Outcomes \cup {Undecided})] :
          /\ \A s \in Open : walk[s] \in WalkFrom(stage[s], s \in Level, s \in Legacy)
          /\ stage' = [s \in Signals |->
                         IF s \in Open /\ walk[s][2] = Undecided
                         THEN walk[s][1] ELSE Untracked]
          /\ outQ' = [s \in Signals |-> IF s \in Open THEN walk[s][2] ELSE Undecided]
          /\ pendingTrigger' = pendingTrigger \cup
               {s \in Open : stage[s] = Pending /\ walk[s][1] # Pending}
          /\ pendingTp1' = pendingTp1 \cup
               {s \in Open : stage[s] # Banked /\ walk[s][1] = Banked}
    BY <1>11 DEF Check
  <2>2. ASSUME x \in Open
        PROVE  /\ walk[x][1] \in TrackedStages
               /\ walk[x][1] = Pending => stage[x] = Pending
               /\ walk[x][2] = NotTriggered => walk[x][1] = Pending
               /\ x \in Legacy => walk[x][1] # Banked /\ walk[x][2] \notin BankedOutcomes
               /\ x \notin Legacy => walk[x][2] # "TP1_HIT"
    <3>1. stage[x] \in TrackedStages
      BY <2>2 DEF Open
    <3>2. walk[x] \in WalkFrom(stage[x], x \in Level, x \in Legacy)
      BY <2>1, <2>2
    <3> DEFINE level == x \in Level
               legacy == x \in Legacy
               w == walk[x]
               stg == stage[x]
    <3>3. /\ level \in BOOLEAN /\ legacy \in BOOLEAN /\ stg \in TrackedStages
          /\ w \in WalkFrom(stg, level, legacy)
      BY <3>1, <3>2
    <3>6. legacy => stg # Banked
      BY DEF KindInv
    <3> HIDE DEF TrackedStages, Pending, Banked, Outcomes, Undecided, NotTriggered,
        BankedOutcomes, AfterTp1, level, legacy, w, stg
    <3>4. /\ w[1] \in TrackedStages
          /\ w[1] = Pending => stg = Pending
          /\ w[2] = NotTriggered => w[1] = Pending
      BY <3>3, WalkFacts, Zenon
    <3>5. /\ legacy => w[1] # Banked /\ w[2] \notin BankedOutcomes
          /\ ~legacy => w[2] # "TP1_HIT"
      BY <3>3, <3>6, WalkKinds, Zenon
    <3> QED
      BY <3>4, <3>5, Zenon DEF w, stg, level, legacy
  <2> QED
    BY <1>11, <2>1, <2>2 DEF Check, Open
<1>12. CASE DrainTriggerMarks
  BY <1>12 DEF DrainTriggerMarks
<1>13. CASE DrainTp1Marks
  BY <1>13 DEF DrainTp1Marks
<1>14. CASE MonitorDone
  BY <1>14 DEF MonitorDone
<1>15. CASE \E s \in Signals : PersistOutcome(s)
  BY <1>15 DEF PersistOutcome, WriteOutcome
<1>16. CASE \E s \in Signals : MarkTriggered(s)
  BY <1>16 DEF MarkTriggered
<1>17. CASE \E s \in Signals : MarkTp1Touched(s)
  BY <1>17 DEF MarkTp1Touched
<1>18. CASE ForceCloseAll
  BY <1>18 DEF ForceCloseAll, Open, ForcedOutcome
<1>19. CASE WriteSummary
  BY <1>19 DEF WriteSummary
<1>20. CASE CloseDone
  BY <1>20 DEF CloseDone
<1>21. CASE \E s \in Signals : PersistForced(s)
  BY <1>21 DEF PersistForced, WriteOutcome
<1>22. CASE ClearSignals
  BY <1>22 DEF ClearSignals
<1>23. CASE ClearOutcomes
  BY <1>23 DEF ClearOutcomes
<1>24. CASE ClearSummary
  BY <1>24 DEF ClearSummary
<1>25. CASE ResetMemory
  BY <1>25 DEF ResetMemory
<1>26. CASE UNCHANGED vars
  BY <1>26 DEF vars
<1> HIDE DEF TypeOK, QueueControl, SignalInv, KindInv
<1> QED
  BY <1>1, <1>2, <1>3, <1>4, <1>5, <1>6, <1>7, <1>8, <1>9, <1>10, <1>11, <1>12, <1>13, <1>14, <1>15, <1>16, <1>17, <1>18, <1>19, <1>20, <1>21, <1>22, <1>23, <1>24, <1>25, <1>26
     DEF Next, LoopStep, Transition, RouteStep, MonitorStep, CloseStep, AdminStep

View(s) == LedgerView[s]
StoredView == <<rows, triggeredAt, tp1TouchedAt, outcome>>

LEMMA ViewOfOne ==
  ASSUME NEW x \in Signals, NEW v, View(x)' = v,
         \A y \in Signals \ {x} : View(y)' = View(y)
  PROVE  LedgerView' = [LedgerView EXCEPT ![x] = v]
  BY DEF View, LedgerView

LEMMA SameView == UNCHANGED StoredView => UNCHANGED LedgerView
  BY DEF StoredView, LedgerView, Resumed

\* insert_signal: an absent row appears in its first stage.
LEMMA RouteView ==
  ASSUME TypeOK, QueueControl, NEW x \in Signals, SignalInv(x), RouteSignal(x)
  PROVE  UNCHANGED LedgerView \/ Ledger!Store(x)
<1>1. CASE rows' = rows
  BY <1>1, SameView DEF RouteSignal, outcomeVars, StoredView
<1>2. CASE x \notin rows /\ rows' = rows \cup {x}
  <2>1. outcome[x] = Undecided /\ x \notin triggeredAt /\ x \notin tp1TouchedAt
    BY DEF RouteSignal, TypeOK, QueueControl, SignalInv, Untouched, FillMarks, Tp1Marks
  <2>2. View(x) = "ABSENT" /\ View(x)' = FirstStage(x \in Level)
    BY <1>2, <2>1 DEF View, LedgerView, Resumed, ResumedStage, FirstStage, RouteSignal,
       outcomeVars
  <2>3. \A y \in Signals \ {x} : View(y)' = View(y)
    BY <1>2 DEF View, LedgerView, Resumed, RouteSignal, outcomeVars
  <2> QED
    BY <2>2, <2>3, ViewOfOne DEF Ledger!Store, Ledger!Absent, View, FirstStage,
       Ledger!FirstStage, Pending, Live, Ledger!Pending, Ledger!Live
<1> QED
  BY <1>1, <1>2 DEF RouteSignal

\* insert_outcome: a row without an outcome gets one that may follow it.
LEMMA OutcomeView ==
  ASSUME TypeOK, NEW x \in Signals, SignalInv(x), KindInv(x), WriteOutcome(x),
         UNCHANGED <<rows, triggeredAt, tp1TouchedAt>>
  PROVE  UNCHANGED LedgerView \/ Ledger!Decide(x)
<1>1. outcome' = [outcome EXCEPT ![x] = outQ[x]] /\ outcome[x] = Undecided
  BY DEF WriteOutcome, SignalInv
<1>2. CASE x \notin rows
  <2>1. LedgerView' = LedgerView
    BY <1>1, <1>2 DEF LedgerView, Resumed, TypeOK
  <2> QED
    BY <2>1
<1>3. CASE x \in rows
  <2>1. View(x) = Resumed(x) /\ View(x)' = outQ[x]
    BY <1>1, <1>3 DEF View, LedgerView, WriteOutcome, TypeOK
  <2>2. \A y \in Signals \ {x} : View(y)' = View(y)
    BY <1>1 DEF View, LedgerView, Resumed, TypeOK
  <2>3. Resumed(x) \in Ledger!TrackedStages
    BY DEF Resumed, ResumedStage, Ledger!TrackedStages, Pending, Live, Banked,
       Ledger!Pending, Ledger!Live, Ledger!Banked
  <2>4. outQ[x] \in Ledger!Follows(x, Resumed(x))
    <3>1. outQ[x] \in Outcomes
      BY DEF WriteOutcome, TypeOK
    <3>2. CASE Resumed(x) = Banked
      <4>1. outQ[x] \in AfterTp1(x \in Level)
        BY <3>1, <3>2 DEF Resumed, ResumedStage, SignalInv, Tp1Marks, Pending, Live,
           Banked, WriteOutcome
      <4> QED
        BY <4>1, <3>2 DEF Ledger!Follows, Ledger!AfterTp1, AfterTp1, Ledger!BankedOutcomes,
           BankedOutcomes, Banked,
           Ledger!Banked
    <3>3. CASE Resumed(x) = Pending
      BY <3>1, <3>3 DEF KindInv, Ledger!Follows, Ledger!BankedOutcomes, BankedOutcomes,
         Ledger!Outcomes, Outcomes, Pending, Ledger!Pending, Ledger!Banked, NotTriggered,
         Ledger!NotTriggered
    <3>4. CASE Resumed(x) = Live
      <4>1. outQ[x] # NotTriggered
        BY <3>4 DEF Resumed, ResumedStage, SignalInv, KindInv, FillMarks, Pending, Live,
           Banked
      <4> QED
        BY <3>1, <3>4, <4>1 DEF KindInv, Ledger!Follows, Ledger!BankedOutcomes,
           BankedOutcomes, Ledger!Outcomes, Outcomes, Live, Ledger!Pending,
           Ledger!Banked, NotTriggered, Ledger!NotTriggered, Ledger!FilledOutcomes
    <3> QED
      BY <3>2, <3>3, <3>4 DEF Resumed, ResumedStage
  <2> QED
    BY <2>1, <2>2, <2>3, <2>4, ViewOfOne DEF Ledger!Decide, View
<1> QED
  BY <1>2, <1>3

\* mark_triggered: a pending row becomes live, any other row is unchanged.
LEMMA FillView ==
  ASSUME TypeOK, NEW x \in Signals, SignalInv(x), MarkTriggered(x)
  PROVE  UNCHANGED LedgerView \/ Ledger!Fill(x)
<1>1. CASE x \in rows /\ x \in Level /\ x \notin triggeredAt /\ outcome[x] = Undecided
  <2>1. x \notin tp1TouchedAt
    BY <1>1 DEF SignalInv
  <2>2. View(x) = Pending /\ View(x)' = Live
    BY <1>1, <2>1 DEF View, LedgerView, Resumed, ResumedStage, MarkTriggered, outcomeVars
  <2>3. \A y \in Signals \ {x} : View(y)' = View(y)
    BY DEF View, LedgerView, Resumed, MarkTriggered, outcomeVars
  <2> QED
    BY <2>2, <2>3, ViewOfOne DEF Ledger!Fill, View, Pending, Live, Ledger!Pending,
       Ledger!Live
<1>2. CASE ~(x \in rows /\ x \in Level /\ x \notin triggeredAt /\ outcome[x] = Undecided)
  <2>1. LedgerView' = LedgerView
    BY <1>2 DEF LedgerView, Resumed, ResumedStage, MarkTriggered, outcomeVars
  <2> QED
    BY <2>1
<1> QED
  BY <1>1, <1>2

\* mark_tp1_touched: a live row becomes banked, any other row is unchanged.
LEMMA BankView ==
  ASSUME TypeOK, NEW x \in Signals, SignalInv(x), KindInv(x), MarkTp1Touched(x)
  PROVE  UNCHANGED LedgerView \/ Ledger!Bank(x)
<1>1. x \in Tp1Marks /\ x \notin Legacy
  BY DEF MarkTp1Touched, Tp1Marks, KindInv
<1>2. CASE x \in rows /\ x \notin tp1TouchedAt /\ outcome[x] = Undecided
  <2>1. View(x) = Live /\ View(x)' = Banked
    BY <1>2 DEF View, LedgerView, Resumed, ResumedStage, MarkTp1Touched, SignalInv,
       outcomeVars
  <2>2. \A y \in Signals \ {x} : View(y)' = View(y)
    BY DEF View, LedgerView, Resumed, MarkTp1Touched, outcomeVars
  <2> QED
    BY <1>1, <2>1, <2>2, ViewOfOne DEF Ledger!Bank, View, Live, Banked, Ledger!Live,
       Ledger!Banked
<1>3. CASE ~(x \in rows /\ x \notin tp1TouchedAt /\ outcome[x] = Undecided)
  <2>1. LedgerView' = LedgerView
    BY <1>3 DEF LedgerView, Resumed, ResumedStage, MarkTp1Touched, outcomeVars
  <2> QED
    BY <2>1
<1> QED
  BY <1>2, <1>3

LEMMA LedgerStep ==
  ASSUME AdminOps = {}, IInv, request = NoRequest, \A s \in Signals : KindInv(s),
         [Next]_vars
  PROVE  [Ledger!Next]_LedgerView
<1>1. CASE UNCHANGED StoredView
  BY <1>1, SameView
<1>2. CASE \E s \in Signals : RouteSignal(s)
  BY <1>2, RouteView DEF IInv, Ledger!Next
<1>3. CASE \E s \in Signals : PersistOutcome(s) \/ PersistForced(s)
  <2>1. PICK x \in Signals : PersistOutcome(x) \/ PersistForced(x)
    BY <1>3
  <2>2. WriteOutcome(x) /\ UNCHANGED <<rows, triggeredAt, tp1TouchedAt>>
    BY <2>1 DEF PersistOutcome, PersistForced
  <2> QED
    BY <2>2, OutcomeView DEF IInv, Ledger!Next
<1>4. CASE \E s \in Signals : MarkTriggered(s)
  BY <1>4, FillView DEF IInv, Ledger!Next
<1>5. CASE \E s \in Signals : MarkTp1Touched(s)
  BY <1>5, BankView DEF IInv, Ledger!Next
<1>6. ClearSignals \/ ClearOutcomes \/ ClearSummary \/ ResetMemory => FALSE
  BY DEF ClearSignals, ClearOutcomes, ClearSummary, ResetMemory, NoRequest
<1>7. ASSUME ~\E s \in Signals : \/ RouteSignal(s) \/ PersistOutcome(s) \/ PersistForced(s)
                                 \/ MarkTriggered(s) \/ MarkTp1Touched(s)
      PROVE UNCHANGED StoredView
  <2> USE DEF StoredView, storeVars, outcomeVars
  <2>1. CASE Advance
    BY <2>1 DEF Advance
  <2>2. CASE Boot
    BY <2>2 DEF Boot
  <2>3. CASE Crash
    BY <2>3 DEF Crash
  <2>4. CASE LoopOpens
    BY <2>4 DEF LoopOpens
  <2>5. CASE OpeningDone
    BY <2>5 DEF OpeningDone
  <2>6. CASE LoopCloses
    BY <2>6 DEF LoopCloses
  <2>7. CASE LoopContinues
    BY <2>7 DEF LoopContinues
  <2>8. CASE Scan
    BY <2>8 DEF Scan
  <2>9. CASE Register
    BY <2>9 DEF Register
  <2>10. CASE Check
    BY <2>10 DEF Check
  <2>11. CASE DrainTriggerMarks
    BY <2>11 DEF DrainTriggerMarks
  <2>12. CASE DrainTp1Marks
    BY <2>12 DEF DrainTp1Marks
  <2>13. CASE MonitorDone
    BY <2>13 DEF MonitorDone
  <2>14. CASE ForceCloseAll
    BY <2>14 DEF ForceCloseAll
  <2>15. CASE WriteSummary
    BY <2>15 DEF WriteSummary
  <2>16. CASE CloseDone
    BY <2>16 DEF CloseDone
  <2>17. CASE ResetMemory
    BY <2>17, <1>6 DEF ResetMemory
  <2>18. CASE UNCHANGED vars
    BY <2>18 DEF vars
  <2> HIDE DEF StoredView, storeVars, outcomeVars
  <2> QED
    BY <1>6, <1>7, <2>1, <2>2, <2>3, <2>4, <2>5, <2>6, <2>7, <2>8, <2>9, <2>10, <2>11, <2>12, <2>13, <2>14, <2>15, <2>16, <2>17, <2>18
       DEF Next, LoopStep, Transition, RouteStep, MonitorStep, CloseStep, AdminStep
<1> QED
  BY <1>1, <1>2, <1>3, <1>4, <1>5, <1>7

\* With no maintenance request, what the database says of each signal is a
\* behaviour of SignalLedger: rows only move forward and outcomes are final.
THEOREM StoreImplementsLedger == ASSUME AdminOps = {} PROVE Spec => LedgerSpec
<1> DEFINE KInv == \A s \in Signals : KindInv(s)
<1>1. Init => Ledger!Init /\ KInv
  <2> SUFFICES ASSUME Init PROVE Ledger!Init /\ KInv
    OBVIOUS
  <2>1. LedgerView = [s \in Signals |-> "ABSENT"]
    BY DEF Init, LedgerView
  <2>2. KInv
    BY DEF Init, KindInv, Tp1Marks, Untracked, Pending, Banked, Undecided, NotTriggered,
       BankedOutcomes
  <2> QED
    BY <2>1, <2>2 DEF Ledger!Init, Ledger!Absent
<1>2. SessionInv /\ KInv /\ [Next]_vars => KInv'
  BY KindStep DEF SessionInv, IInv
<1>3. SessionInv /\ KInv /\ [Next]_vars => [Ledger!Next]_LedgerView
  BY LedgerStep DEF SessionInv
<1> HIDE DEF KInv
<1> QED
  BY <1>1, <1>2, <1>3, SessionInvInductive, PTL DEF Spec, LedgerSpec, Ledger!Spec

(***************************************************************************)
(* A trade is decided by the session it was emitted in, if no outage       *)
(* outlasts the part of the day it began in and none begins after the      *)
(* close.  The argument is that nothing is tracked or queued when the day  *)
(* changes, so what is tracked or queued is always of today.               *)
(***************************************************************************)

\* After the close the process is up and its loop has run before.
AwakeAtClose == phase = "AFTER" => pc # "down" /\ prevState # NoState

Settled(s) ==
  /\ stage[s] # Untracked \/ outQ[s] # Undecided => emittedOn[s] = day
  /\ phase \in {"BEFORE", "PRE_OPEN"} => emittedOn[s] # day
  /\ phase = "AFTER" /\ prevState = "CLOSED" =>
       stage[s] = Untracked /\ outQ[s] = Undecided
  /\ outcome[s] # Undecided => resolvedOn[s] = emittedOn[s]

LEMMA AwakeStep ==
  ASSUME OutagePhases = {}, "AFTER" \notin CrashPhases, TypeOK, AwakeAtClose, [Next]_vars
  PROVE  AwakeAtClose'
<1> USE DEF AwakeAtClose, clockVars, loopVars, NoState
<1>1. CASE Advance
  BY <1>1 DEF Advance, NextPhase, SessionState, Phases, TypeOK
<1>2. CASE Boot
  BY <1>2 DEF Boot
<1>3. CASE Crash
  BY <1>3 DEF Crash
<1>4. CASE LoopOpens
  BY <1>4 DEF LoopOpens
<1>5. CASE OpeningDone
  BY <1>5 DEF OpeningDone, BodyOf, TypeOK
<1>6. CASE LoopCloses
  BY <1>6 DEF LoopCloses
<1>7. CASE LoopContinues
  BY <1>7 DEF LoopContinues, BodyOf, SessionState
<1>8. CASE Scan
  BY <1>8 DEF Scan
<1>9. CASE Register
  BY <1>9 DEF Register
<1>10. CASE \E s \in Signals : RouteSignal(s)
  BY <1>10 DEF RouteSignal
<1>11. CASE Check
  BY <1>11 DEF Check
<1>12. CASE DrainTriggerMarks
  BY <1>12 DEF DrainTriggerMarks
<1>13. CASE DrainTp1Marks
  BY <1>13 DEF DrainTp1Marks
<1>14. CASE MonitorDone
  BY <1>14 DEF MonitorDone
<1>15. CASE \E s \in Signals : PersistOutcome(s)
  BY <1>15 DEF PersistOutcome
<1>16. CASE \E s \in Signals : MarkTriggered(s)
  BY <1>16 DEF MarkTriggered
<1>17. CASE \E s \in Signals : MarkTp1Touched(s)
  BY <1>17 DEF MarkTp1Touched
<1>18. CASE ForceCloseAll
  BY <1>18 DEF ForceCloseAll
<1>19. CASE WriteSummary
  BY <1>19 DEF WriteSummary
<1>20. CASE CloseDone
  BY <1>20 DEF CloseDone, BodyOf, TypeOK
<1>21. CASE \E s \in Signals : PersistForced(s)
  BY <1>21 DEF PersistForced
<1>22. CASE AdminStep
  BY <1>22 DEF AdminStep, ClearSignals, ClearOutcomes, ClearSummary, ResetMemory
<1>23. CASE UNCHANGED vars
  BY <1>23 DEF vars
<1> QED
  BY <1>1, <1>2, <1>3, <1>4, <1>5, <1>6, <1>7, <1>8, <1>9, <1>10, <1>11, <1>12, <1>13, <1>14, <1>15, <1>16, <1>17, <1>18, <1>19, <1>20, <1>21, <1>22, <1>23
     DEF Next, LoopStep, Transition, RouteStep, MonitorStep, CloseStep

LEMMA SettledStep ==
  ASSUME AdminOps = {}, OutagePhases = {}, SessionInv, AwakeAtClose, [Next]_vars,
         NEW x \in Signals, Settled(x)
  PROVE  Settled(x)'
<1> USE DEF SessionInv, IInv, TypeOK, QueueControl, NothingQueued, ClockControl, DayInv,
    MonitorPoints, Settled, clockVars, loopVars, queueVars, monitorVars, outcomeVars,
    storeVars, adminVars, Undecided, Untracked
<1>0. SignalInv(x)
  OBVIOUS
<1>1. CASE Advance
  BY <1>1 DEF Advance, NextPhase, SessionState, Phases
<1>2. CASE Boot
  BY <1>2 DEF Boot, UnresolvedToday, NoState
<1>3. CASE Crash
  BY <1>3 DEF Crash
<1>4. CASE LoopOpens
  BY <1>4 DEF LoopOpens
<1>5. CASE OpeningDone
  BY <1>5 DEF OpeningDone
<1>6. CASE LoopCloses
  BY <1>6 DEF LoopCloses
<1>7. CASE LoopContinues
  BY <1>7 DEF LoopContinues, SessionState, NoState, AwakeAtClose
<1>8. CASE Scan
  BY <1>8, <1>0 DEF Scan, SignalInv, Untouched
<1>9. CASE Register
  BY <1>9 DEF Register
<1>10. CASE \E s \in Signals : RouteSignal(s)
  BY <1>10 DEF RouteSignal
<1>11. CASE Check
  BY <1>11 DEF Check, Open
<1>12. CASE DrainTriggerMarks
  BY <1>12 DEF DrainTriggerMarks
<1>13. CASE DrainTp1Marks
  BY <1>13 DEF DrainTp1Marks
<1>14. CASE MonitorDone
  BY <1>14 DEF MonitorDone
<1>15. CASE \E s \in Signals : PersistOutcome(s)
  BY <1>15 DEF PersistOutcome, WriteOutcome
<1>16. CASE \E s \in Signals : MarkTriggered(s)
  BY <1>16 DEF MarkTriggered
<1>17. CASE \E s \in Signals : MarkTp1Touched(s)
  BY <1>17 DEF MarkTp1Touched
<1>18. CASE ForceCloseAll
  BY <1>18 DEF ForceCloseAll, Open
<1>19. CASE WriteSummary
  BY <1>19 DEF WriteSummary
<1>20. CASE CloseDone
  BY <1>20 DEF CloseDone
<1>21. CASE \E s \in Signals : PersistForced(s)
  BY <1>21 DEF PersistForced, WriteOutcome
<1>22. CASE AdminStep
  BY <1>22 DEF AdminStep, ClearSignals, ClearOutcomes, ClearSummary, ResetMemory, NoRequest
<1>23. CASE UNCHANGED vars
  BY <1>23 DEF vars
<1> QED
  BY <1>1, <1>2, <1>3, <1>4, <1>5, <1>6, <1>7, <1>8, <1>9, <1>10, <1>11, <1>12, <1>13, <1>14, <1>15, <1>16, <1>17, <1>18, <1>19, <1>20, <1>21, <1>22, <1>23
     DEF Next, LoopStep, Transition, RouteStep, MonitorStep, CloseStep

\* If outages end within the phase of the day they began in and none begins
\* after the close, no outcome is ever written by a later session than the one
\* that emitted the signal, wherever in the session the process crashes.
THEOREM ResolvedBySameSession ==
  ASSUME AdminOps = {}, OutagePhases = {}, "AFTER" \notin CrashPhases
  PROVE  Spec => []ResolvedInItsSession
<1> DEFINE DInv == AwakeAtClose /\ \A s \in Signals : Settled(s)
<1>1. Init => DInv
  BY DEF Init, AwakeAtClose, Settled
<1>2. SessionInv /\ DInv /\ [Next]_vars => DInv'
  BY AwakeStep, SettledStep DEF SessionInv, IInv
<1>3. DInv => ResolvedInItsSession
  BY DEF Settled, ResolvedInItsSession
<1> HIDE DEF DInv
<1> QED
  BY <1>1, <1>2, <1>3, SessionInvInductive, PTL DEF Spec
=============================================================================
