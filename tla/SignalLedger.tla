---------------------------- MODULE SignalLedger ----------------------------
(***************************************************************************)
(* What the database promises about one signal's row, whatever crashes and *)
(* restarts lie between two writes: a stored signal only moves forward,    *)
(* PENDING -> LIVE -> BANKED -> one final outcome, an outcome never        *)
(* contradicts what was stored before it, and it is final.                 *)
(***************************************************************************)
EXTENDS SignalPlan

CONSTANTS Signals,  \* signal ids
          Level,    \* the signals whose entry is a resting level
          Legacy    \* the signals with a single target (tp2 = 0)

VARIABLE ledger     \* what the database says of each signal

Absent == "ABSENT"
LedgerStates == {Absent} \cup TrackedStages \cup Outcomes

\* The outcomes that may follow what is stored.
Follows(s, stage) ==
  IF stage = Banked THEN AfterTp1(s \in Level)
  ELSE (IF stage = Pending THEN Outcomes ELSE FilledOutcomes)
         \ (IF s \in Legacy THEN BankedOutcomes ELSE {"TP1_HIT"})

Store(s) == /\ ledger[s] = Absent
            /\ ledger' = [ledger EXCEPT ![s] = FirstStage(s \in Level)]

Fill(s) == /\ ledger[s] = Pending
           /\ ledger' = [ledger EXCEPT ![s] = Live]

Bank(s) == /\ ledger[s] = Live
           /\ s \notin Legacy
           /\ ledger' = [ledger EXCEPT ![s] = Banked]

Decide(s) == /\ ledger[s] \in TrackedStages
             /\ \E o \in Follows(s, ledger[s]) :
                  ledger' = [ledger EXCEPT ![s] = o]

Init == ledger = [s \in Signals |-> Absent]

Next == \E s \in Signals : Store(s) \/ Fill(s) \/ Bank(s) \/ Decide(s)

Spec == Init /\ [][Next]_ledger
=============================================================================
