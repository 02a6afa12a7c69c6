------------------------- MODULE TradeMonitorProofs -------------------------
(***************************************************************************)
(* Proofs about module TradeMonitor, for any plans, any candle width, any  *)
(* deadline and any number of minutes, trades and restarts.                *)
(*                                                                         *)
(* The walk is a recursion over the minutes, so facts about it are proved  *)
(* by induction on the minute it has reached (UptoInduction, from the      *)
(* well-foundedness of the naturals).                                      *)
(***************************************************************************)
EXTENDS TradeMonitor, WellFoundedInduction, TLAPS

(***************************************************************************)
(* Induction and recursion over an initial segment of the naturals.        *)
(***************************************************************************)
LEMMA LeastNatural ==
  ASSUME NEW T, T \subseteq Nat, T # {}
  PROVE  \E x \in T : \A y \in T : x <= y
<1> DEFINE R == OpToRel(<, Nat)
<1>1. IsWellFoundedOn(R, Nat)
  BY NatLessThanWellFounded
<1>2. \A x, y \in T : y < x => <<y, x>> \in R
  BY DEF OpToRel
<1> HIDE DEF R
<1>3. PICK x \in T : \A y \in T : ~(<<y, x>> \in R)
  BY <1>1, WFMin
<1>4. \A y \in T : ~(y < x)
  BY <1>2, <1>3, Zenon
<1> QED
  BY <1>4

LEMMA GreatestInteger ==
  ASSUME NEW T, T \subseteq Int, T # {}, NEW b \in Int, \A x \in T : x <= b
  PROVE  \E x \in T : \A y \in T : y <= x
<1> DEFINE U == {n \in Nat : b - n \in T}
<1>1. U # {}
  <2>1. PICK x \in T : TRUE
    OBVIOUS
  <2>2. b - x \in Nat /\ b - (b - x) = x
    BY <2>1
  <2> QED
    BY <2>1, <2>2
<1>2. PICK n \in U : \A m \in U : n <= m
  <2>1. U \subseteq Nat
    OBVIOUS
  <2> HIDE DEF U
  <2> QED
    BY <1>1, <2>1, LeastNatural
<1>3. \A y \in T : b - y \in U
  OBVIOUS
<1> QED
  BY <1>2, <1>3

LEMMA UptoInduction ==
  ASSUME NEW N \in Nat, NEW T, 0 \in T, \A n \in 1..N : n - 1 \in T => n \in T
  PROVE  0..N \subseteq T
<1> DEFINE U == {n \in 0..N : n \notin T}
<1> SUFFICES ASSUME U # {} PROVE FALSE
  OBVIOUS
<1>1. U \subseteq Nat
  OBVIOUS
<1> HIDE DEF U
<1>2. PICK n \in U : \A m \in U : n <= m
  BY <1>1, LeastNatural
<1> USE DEF U
<1>3. n \in 1..N /\ n - 1 \in T
  BY <1>2
<1> QED
  BY <1>2, <1>3

\* What step functions make of a walk, one after the other.
Walks == [triggered : Times, banked : Times, decision : Outcomes \cup {Undecided}]

LEMMA Iterates ==
  ASSUME NEW N \in Nat, NEW w \in Walks, NEW f \in [1..N -> [Walks -> Walks]]
  PROVE  \E g \in [0..N -> Walks] : g[0] = w /\ \A n \in 1..N : g[n] = f[n][g[n - 1]]
<1> DEFINE Upto(n) == \E g \in [0..n -> Walks] :
                        g[0] = w /\ \A i \in 1..n : g[i] = f[i][g[i - 1]]
           T == {n \in 0..N : Upto(n)}
<1>1. Upto(0)
  <2> DEFINE g == [i \in 0..0 |-> w]
  <2>1. g \in [0..0 -> Walks] /\ g[0] = w /\ \A i \in 1..0 : g[i] = f[i][g[i - 1]]
    OBVIOUS
  <2> QED
    BY <2>1
<1>2. ASSUME NEW n \in 1..N, Upto(n - 1) PROVE Upto(n)
  <2>1. PICK g \in [0..n - 1 -> Walks] :
          g[0] = w /\ \A i \in 1..n - 1 : g[i] = f[i][g[i - 1]]
    BY <1>2
  <2> DEFINE h == [i \in 0..n |-> IF i = n THEN f[n][g[n - 1]] ELSE g[i]]
  <2>2. h \in [0..n -> Walks] /\ h[0] = w /\ \A i \in 1..n : h[i] = f[i][h[i - 1]]
    BY <2>1
  <2> QED
    BY <2>2
<1> HIDE DEF Upto
<1>3. 0 \in T /\ \A n \in 1..N : n - 1 \in T => n \in T
  BY <1>1, <1>2
<1>4. 0..N \subseteq T
  <2> HIDE DEF T
  <2> QED
    BY <1>3, UptoInduction
<1>5. Upto(N)
  BY <1>4
<1> QED
  BY <1>5 DEF Upto

(***************************************************************************)
(* Candles.                                                                *)
(***************************************************************************)
LEMMA MinMax ==
  ASSUME NEW S, S \subseteq 0..6, S # {}
  PROVE  /\ Min(S) \in S /\ \A x \in S : Min(S) <= x
         /\ Max(S) \in S /\ \A x \in S : x <= Max(S)
<1>1. \E x \in S : \A y \in S : x <= y
  <2>1. S \subseteq Nat
    OBVIOUS
  <2> QED
    BY <2>1, LeastNatural
<1>2. \E x \in S : \A y \in S : y <= x
  <2>1. S \subseteq Int /\ \A x \in S : x <= 6
    OBVIOUS
  <2> QED
    BY <2>1, 6 \in Int, GreatestInteger, Zenon
<1> QED
  BY <1>1, <1>2 DEF Min, Max

LEMMA Multiples ==
  ASSUME NEW L \in Nat \ {0}, NEW a \in Nat, NEW b \in Nat, a % L = 0, b % L = 0, a < b
  PROVE  b >= a + L
<1> DEFINE p == a \div L
           q == b \div L
<1>1. p \in Int /\ q \in Int /\ a = L * p + (a % L) /\ b = L * q + (b % L)
  OBVIOUS
<1> HIDE DEF p, q
<1>2. L * p < L * q
  BY <1>1
<1>3. p < q
  BY <1>1, <1>2
<1>4. L * p + L <= L * q
  BY <1>1, <1>3
<1> QED
  BY <1>1, <1>4

LEMMA SpanIs ==
  ASSUME NEW S, S \subseteq Bars, S # {}
  PROVE  /\ Span(S) \in Bars
         /\ \A b \in S : Span(S).low <= b.low /\ b.high <= Span(S).high
         /\ \E b \in S : b.low = Span(S).low
         /\ \E b \in S : b.high = Span(S).high
<1> DEFINE lows == {b.low : b \in S}
           highs == {b.high : b \in S}
<1>1. \A b \in Bars : b.low \in 0..6 /\ b.high \in 0..6
  BY DEF Bars, NoBar, Prices, Sl, Tp2
<1>2. lows \subseteq 0..6 /\ lows # {} /\ highs \subseteq 0..6 /\ highs # {}
  BY <1>1
<1> HIDE DEF lows, highs
<1>3. /\ Min(lows) \in lows /\ \A x \in lows : Min(lows) <= x
      /\ Max(highs) \in highs /\ \A x \in highs : x <= Max(highs)
  BY <1>2, MinMax
<1>4. Span(S) = [low |-> Min(lows), high |-> Max(highs)]
  BY DEF Span, lows, highs
<1>5. PICK b \in S : b.low = Min(lows)
  BY <1>3 DEF lows
<1>6. PICK c \in S : c.high = Max(highs)
  BY <1>3 DEF highs
<1>7. \A x \in S : Min(lows) <= x.low /\ x.high <= Max(highs)
  BY <1>3 DEF lows, highs
<1>8. Span(S) \in Bars
  <2>1. b \in Bars /\ c \in Bars /\ c.low >= b.low /\ b.high <= c.high
    BY <1>5, <1>6, <1>7
  <2>2. CASE b = NoBar
    <3>1. c = NoBar
      BY <2>1, <2>2 DEF Bars, NoBar, Prices, Sl, Tp2
    <3> QED
      BY <1>4, <1>5, <1>6, <2>2, <3>1 DEF Bars, NoBar
  <2>3. CASE b # NoBar
    <3>1. /\ Min(lows) \in Prices /\ b.high \in Prices /\ Min(lows) <= b.high
          /\ b.high <= Max(highs)
      BY <1>5, <1>7, <2>1, <2>3 DEF Bars
    <3>2. Max(highs) \in Prices
      BY <1>6, <2>1, <3>1 DEF Bars, NoBar, Prices, Sl, Tp2
    <3> QED
      BY <1>4, <3>1, <3>2 DEF Bars, Prices, Sl, Tp2
  <2> QED
    BY <2>2, <2>3
<1> QED
  BY <1>4, <1>5, <1>6, <1>7, <1>8

\* A trade widens its candle to its price and no further.
LEMMA ExtendIs ==
  ASSUME NEW b \in Bars, NEW p \in Prices
  PROVE  /\ Extend(b, p) \in Bars /\ Traded(Extend(b, p))
         /\ Extend(b, p).low <= b.low /\ b.high <= Extend(b, p).high
         /\ Extend(b, p).low \in {b.low, p} /\ Extend(b, p).high \in {b.high, p}
         /\ Extend(b, p).low <= p /\ p <= Extend(b, p).high
<1> DEFINE d == [low |-> p, high |-> p]
<1>1. {b, d} \subseteq Bars /\ {b, d} # {} /\ Extend(b, p) = Span({b, d})
  BY DEF Bars, Extend, Prices, Sl, Tp2
<1>2. d.low = p /\ d.high = p
  OBVIOUS
<1> HIDE DEF d
<1>3. /\ Span({b, d}) \in Bars
      /\ \A x \in {b, d} : Span({b, d}).low <= x.low /\ x.high <= Span({b, d}).high
      /\ \E x \in {b, d} : x.low = Span({b, d}).low
      /\ \E x \in {b, d} : x.high = Span({b, d}).high
  BY <1>1, SpanIs
<1>4. Traded(Extend(b, p))
  BY <1>1, <1>2, <1>3 DEF Traded, Bars, NoBar, Prices, Sl, Tp2
<1> QED
  BY <1>1, <1>2, <1>3, <1>4

(***************************************************************************)
(* The walk.                                                               *)
(***************************************************************************)
Windows == [Minutes -> Bars]

\* One minute of a walk.
Advanced(w, window, m) ==
  IF Traded(window[m]) THEN Step(w, Candle(m, window[m])) ELSE w

LEMMA StepType ==
  ASSUME NEW w \in Walks, NEW m \in Minutes, NEW b \in Bars
  PROVE  Step(w, Candle(m, b)) \in Walks
<1> DEFINE c == Candle(m, b)
<1>1. c.ts \in Times
  BY DEF Candle, Times
<1> HIDE DEF c
<1>2. \A v \in Walks :
        /\ StepPending(v, c) \in Walks /\ StepFill(v, c) \in Walks
        /\ StepLive(v, c) \in Walks /\ StepRunner(v, c) \in Walks
  BY <1>1 DEF StepPending, StepFill, StepLive, StepRunner, Walks, Outcomes, NotTriggered
<1>3. [w EXCEPT !.triggered = c.ts] \in Walks
  BY <1>1 DEF Walks
<1>4. Step(w, c) \in Walks
  BY <1>2, <1>3 DEF Step
<1> QED
  BY <1>4 DEF c

LEMMA WalkedIs ==
  ASSUME NEW w \in Walks, NEW window \in Windows, MaxMinute \in Nat
  PROVE  LET W == Walked(w, window)
         IN  /\ W \in [0..MaxMinute + 1 -> Walks] /\ W[0] = w
             /\ \A n \in 1..MaxMinute + 1 : W[n] = Advanced(W[n - 1], window, n - 1)
<1> DEFINE N == MaxMinute + 1
           f == [n \in 1..N |-> [v \in Walks |-> Advanced(v, window, n - 1)]]
           Def(g) == [n \in 0..N |->
             IF n = 0 THEN w
             ELSE IF Traded(window[n - 1])
                  THEN Step(g[n - 1], Candle(n - 1, window[n - 1])) ELSE g[n - 1]]
<1>1. N \in Nat
  OBVIOUS
<1>2. \A n \in 1..N, v \in Walks : Advanced(v, window, n - 1) \in Walks
  BY StepType DEF Advanced, Windows, Minutes
<1>3. f \in [1..N -> [Walks -> Walks]]
  BY <1>2
<1>4. PICK g \in [0..N -> Walks] : g[0] = w /\ \A n \in 1..N : g[n] = f[n][g[n - 1]]
  <2> HIDE DEF f, N, Def
  <2> QED
    BY <1>1, <1>3, Iterates
<1>5. \A n \in 1..N : g[n] = Advanced(g[n - 1], window, n - 1)
  <2> TAKE n \in 1..N
  <2>1. n - 1 \in 0..N
    OBVIOUS
  <2>2. g[n - 1] \in Walks /\ g[n] = f[n][g[n - 1]]
    BY <1>4, <2>1
  <2>3. \A v \in Walks : f[n][v] = Advanced(v, window, n - 1)
    OBVIOUS
  <2> QED
    BY <2>2, <2>3, Zenon
<1>6. g = Def(g)
  BY <1>4, <1>5 DEF Advanced
<1>7. Walked(w, window) = CHOOSE u : u = Def(u)
  BY DEF Walked
<1>8. Walked(w, window) = Def(Walked(w, window))
  <2> HIDE DEF Def
  <2> QED
    BY <1>6, <1>7
<1> DEFINE W == Walked(w, window)
<1>9. W = Def(W)
  BY <1>8
<1> HIDE DEF W
<1>10. /\ W[0] = w
       /\ \A n \in 1..N : W[n] = Advanced(W[n - 1], window, n - 1)
  BY <1>9, <1>1 DEF Advanced
<1>11. W \in [0..N -> Walks]
  <2> DEFINE T == {n \in 0..N : W[n] \in Walks}
  <2>1. 0 \in T /\ \A n \in 1..N : n - 1 \in T => n \in T
    BY <1>2, <1>10
  <2>2. 0..N \subseteq T
    <3> HIDE DEF T, N
    <3> QED
      BY <1>1, <2>1, UptoInduction
  <2> QED
    BY <2>2, <1>9
<1> QED
  BY <1>10, <1>11 DEF W

(***************************************************************************)
(* What a walk makes of the marks and the stage it starts from.            *)
(***************************************************************************)
MarksOK(t, b) ==
  /\ plan.level /\ b # NoMark => t # NoMark /\ t < b
  /\ plan.legacy => b = NoMark
  /\ ~plan.level => t = NoMark

Follows(u, w) ==
  /\ MarksOK(w.triggered, w.banked)
  /\ w.triggered # u.triggered => u.triggered = NoMark /\ plan.level
  /\ w.banked # u.banked => u.banked = NoMark
  /\ <<StageOf(w.triggered, w.banked), w.decision>>
       \in WalkFrom(StageOf(u.triggered, u.banked), plan.level, plan.legacy)

\* The ways a candle of minute m can change a walk that it does not ignore.
Effect(w, m, c, v) ==
  LET live == ~Waiting(w) /\ ~FillCandle(w, c)
  IN  \/ v = w
      \/ /\ w.decision = Undecided /\ Waiting(w) /\ ~Touches(c, Entry)
         /\ v = [w EXCEPT !.decision = NotTriggered]
      \/ /\ w.decision = Undecided /\ Waiting(w) /\ Touches(c, Entry)
         /\ \/ v = [w EXCEPT !.triggered = m] /\ ~Adverse(c, Sl)
            \/ /\ v = [w EXCEPT !.triggered = m, !.decision = "SL_HIT"]
               /\ Adverse(c, Sl)
      \/ /\ w.decision = Undecided /\ ~Waiting(w) /\ FillCandle(w, c)
         /\ v = [w EXCEPT !.decision = "SL_HIT"] /\ Adverse(c, Sl)
      \/ /\ w.decision = Undecided /\ live /\ w.banked = NoMark
         /\ plan.level => w.triggered < m
         /\ v = [w EXCEPT !.decision = "SL_HIT"] /\ Adverse(c, Sl)
      \/ /\ w.decision = Undecided /\ live /\ w.banked = NoMark
         /\ plan.level => w.triggered < m
         /\ ~Adverse(c, Sl) /\ Favourable(c, Tp1)
         /\ \/ plan.legacy /\ v = [w EXCEPT !.decision = "TP1_HIT"]
            \/ ~plan.legacy /\ v = [w EXCEPT !.banked = m]
      \/ /\ w.decision = Undecided /\ live /\ w.banked # NoMark /\ w.banked < m
         /\ \/ v = [w EXCEPT !.decision = "TP1_BE"]
            \/ v = [w EXCEPT !.decision = "TP2_HIT"] /\ Favourable(c, Tp2)

LEMMA StepCases ==
  ASSUME NEW w \in Walks, NEW m \in Minutes, NEW b \in Bars
  PROVE  Effect(w, m, Candle(m, b), Step(w, Candle(m, b)))
<1> DEFINE c == Candle(m, b)
<1>1. c.ts = m /\ m \in Nat
  BY DEF Candle, Minutes
<1>2. w.triggered \in Int /\ w.banked \in Int
  BY DEF Walks, Times, Minutes, NoMark
<1>3. w = [triggered |-> w.triggered, banked |-> w.banked, decision |-> w.decision]
  BY DEF Walks
<1> HIDE DEF c
<1> SUFFICES Effect(w, m, c, Step(w, c))
  BY DEF c
<1> USE DEF Effect
<1>4. CASE Ignored(w, c)
  BY <1>4 DEF Step
<1>5. CASE ~Ignored(w, c)
  <2>1. /\ w.decision = Undecided
        /\ plan.level => m >= w.triggered
        /\ ~Waiting(w) /\ ~FillCandle(w, c) => m > w.banked
    BY <1>1, <1>2, <1>5 DEF Ignored
  <2>2. CASE Waiting(w) /\ ~Touches(c, Entry)
    BY <1>5, <2>1, <2>2 DEF Step, StepPending
  <2>3. CASE Waiting(w) /\ Touches(c, Entry)
    BY <1>1, <1>3, <1>5, <2>1, <2>3 DEF Step, StepFill, Walks
  <2>4. CASE ~Waiting(w) /\ FillCandle(w, c)
    <3>1. [w EXCEPT !.triggered = c.ts] = w
      BY <1>1, <1>3, <2>4 DEF FillCandle
    <3> QED
      BY <1>5, <2>1, <2>4, <3>1 DEF Step, StepFill
  <2>5. CASE ~Waiting(w) /\ ~FillCandle(w, c)
    <3>1. plan.level => w.triggered < m
      BY <1>1, <1>2, <2>1, <2>5 DEF FillCandle
    <3> QED
      BY <1>1, <1>5, <2>1, <2>5, <3>1 DEF Step, StepLive, StepRunner
  <2> QED
    BY <2>2, <2>3, <2>4, <2>5
<1> QED
  BY <1>4, <1>5

LEMMA StepFollows ==
  ASSUME plan \in AllPlans, NEW u \in Walks, MarksOK(u.triggered, u.banked),
         u.decision = Undecided, NEW w \in Walks, Follows(u, w),
         NEW m \in Minutes, NEW b \in Bars
  PROVE  Follows(u, Step(w, Candle(m, b)))
<1> DEFINE c == Candle(m, b)
           v == Step(w, c)
<1> SUFFICES Follows(u, v)
  OBVIOUS
<1>1. m \in Nat /\ m # NoMark
  BY DEF Minutes, NoMark
<1>2. /\ w.triggered \in Int /\ w.banked \in Int /\ w.decision \in Outcomes \cup {Undecided}
      /\ w = [triggered |-> w.triggered, banked |-> w.banked, decision |-> w.decision]
  BY DEF Walks, Times, Minutes, NoMark
<1>3. plan.level \in BOOLEAN /\ plan.legacy \in BOOLEAN
  BY DEF AllPlans
<1>4. MarksOK(w.triggered, w.banked)
  BY DEF Follows
<1> USE DEF Follows, MarksOK, StageOf, WalkFrom, WalkFromLive, WalkFromBanked, AfterTp1,
        BankedOutcomes, Pending, Live, Banked, Undecided, NotTriggered
<1> HIDE DEF c
<1>a. CASE v = w
  BY <1>a DEF c
<1>b. CASE w.decision = Undecided /\ Waiting(w) /\ v = [w EXCEPT !.decision = NotTriggered]
  <2>1. v.triggered = w.triggered /\ v.banked = w.banked /\ v.decision = NotTriggered
    BY <1>2, <1>b
  <2> HIDE DEF v
  <2> QED
    BY <1>1, <1>2, <1>3, <1>4, <1>b, <2>1 DEF Waiting, v, c
<1>c. CASE /\ w.decision = Undecided /\ Waiting(w)
           /\ v \in {[w EXCEPT !.triggered = m], [w EXCEPT !.triggered = m, !.decision = "SL_HIT"]}
  <2>1. v.triggered = m /\ v.banked = w.banked /\ v.decision \in {Undecided, "SL_HIT"}
    BY <1>2, <1>c
  <2> HIDE DEF v
  <2> QED
    BY <1>1, <1>2, <1>3, <1>4, <1>c, <2>1 DEF Waiting, v, c
<1>d. CASE w.decision = Undecided /\ ~Waiting(w) /\ v = [w EXCEPT !.decision = "SL_HIT"]
           /\ (w.banked # NoMark => plan.level)
  <2>1. v.triggered = w.triggered /\ v.banked = w.banked /\ v.decision = "SL_HIT"
    BY <1>2, <1>d
  <2> HIDE DEF v
  <2> QED
    BY <1>1, <1>2, <1>3, <1>4, <1>d, <2>1 DEF Waiting, v, c
<1>e. CASE /\ w.decision = Undecided /\ ~Waiting(w) /\ w.banked = NoMark
           /\ plan.level => w.triggered < m
           /\ \/ plan.legacy /\ v = [w EXCEPT !.decision = "TP1_HIT"]
              \/ ~plan.legacy /\ v = [w EXCEPT !.banked = m]
  <2>1. /\ v.triggered = w.triggered
        /\ \/ plan.legacy /\ v.banked = w.banked /\ v.decision = "TP1_HIT"
           \/ ~plan.legacy /\ v.banked = m /\ v.decision = Undecided
    BY <1>2, <1>e
  <2> HIDE DEF v
  <2> QED
    BY <1>1, <1>2, <1>3, <1>4, <1>e, <2>1 DEF Waiting, v, c
<1>f. CASE /\ w.decision = Undecided /\ ~Waiting(w) /\ w.banked # NoMark
           /\ v \in {[w EXCEPT !.decision = "TP1_BE"], [w EXCEPT !.decision = "TP2_HIT"]}
  <2>1. v.triggered = w.triggered /\ v.banked = w.banked /\ v.decision \in {"TP1_BE", "TP2_HIT"}
    BY <1>2, <1>f
  <2> HIDE DEF v
  <2> QED
    BY <1>1, <1>2, <1>3, <1>4, <1>f, <2>1 DEF Waiting, v, c
<1>5. \/ v = w
      \/ w.decision = Undecided /\ Waiting(w) /\ v = [w EXCEPT !.decision = NotTriggered]
      \/ /\ w.decision = Undecided /\ Waiting(w)
         /\ v \in {[w EXCEPT !.triggered = m], [w EXCEPT !.triggered = m, !.decision = "SL_HIT"]}
      \/ w.decision = Undecided /\ ~Waiting(w) /\ v = [w EXCEPT !.decision = "SL_HIT"]
         /\ (w.banked # NoMark => plan.level)
      \/ /\ w.decision = Undecided /\ ~Waiting(w) /\ w.banked = NoMark
         /\ plan.level => w.triggered < m
         /\ \/ plan.legacy /\ v = [w EXCEPT !.decision = "TP1_HIT"]
            \/ ~plan.legacy /\ v = [w EXCEPT !.banked = m]
      \/ /\ w.decision = Undecided /\ ~Waiting(w) /\ w.banked # NoMark
         /\ v \in {[w EXCEPT !.decision = "TP1_BE"], [w EXCEPT !.decision = "TP2_HIT"]}
  <2> HIDE DEF Follows, MarksOK, StageOf, WalkFrom, WalkFromLive, WalkFromBanked, AfterTp1,
               BankedOutcomes, Pending, Live, Banked, Undecided, NotTriggered
  <2>1. Effect(w, m, c, v)
    BY StepCases DEF c
  <2> HIDE DEF v
  <2> QED
    BY <2>1 DEF Effect, FillCandle
<1> HIDE DEF Follows, MarksOK, StageOf, WalkFrom, Undecided, NotTriggered, v
<1> QED
  BY <1>a, <1>b, <1>c, <1>d, <1>e, <1>f, <1>5

LEMMA WalkFollows ==
  ASSUME plan \in AllPlans, MaxMinute \in Nat, NEW u \in Walks, MarksOK(u.triggered, u.banked),
         u.decision = Undecided, NEW window \in Windows
  PROVE  /\ Walk(u, window) \in Walks
         /\ Follows(u, Walk(u, window))
<1> DEFINE N == MaxMinute + 1
           W == Walked(u, window)
           T == {n \in 0..N : Follows(u, W[n])}
<1>1. /\ W \in [0..N -> Walks] /\ W[0] = u
      /\ \A n \in 1..N : W[n] = Advanced(W[n - 1], window, n - 1)
  BY WalkedIs
<1> HIDE DEF W
<1>2. Follows(u, u)
  BY DEF Follows, StageOf, WalkFrom, WalkFromLive, WalkFromBanked, Pending, Live, Banked,
         Undecided
<1>3. ASSUME NEW n \in 1..N, Follows(u, W[n - 1]) PROVE Follows(u, W[n])
  <2>1. n - 1 \in Minutes /\ W[n - 1] \in Walks /\ window[n - 1] \in Bars
    BY <1>1 DEF Minutes, Windows
  <2> QED
    BY <1>1, <1>3, <2>1, StepFollows DEF Advanced
<1>4. 0 \in T /\ \A n \in 1..N : n - 1 \in T => n \in T
  BY <1>1, <1>2, <1>3
<1>5. 0..N \subseteq T
  <2> HIDE DEF T
  <2> QED
    BY <1>4, UptoInduction
<1> QED
  BY <1>1, <1>5 DEF Walk, W

(***************************************************************************)
(* Types, and the marks in memory and in the store.                        *)
(***************************************************************************)
Rows == [created : {0, 1}, triggered : Times, banked : Times,
         outcome : Outcomes \cup {Undecided}]

Typed ==
  /\ plan \in AllPlans /\ now \in Minutes /\ ticks \in Nat
  /\ tape \in Windows /\ fine \in Windows /\ seededAt \in Times
  /\ registered \in {0, 1} /\ triggered \in Times /\ banked \in Times
  /\ decision \in Outcomes \cup {Undecided}
  /\ pendingTrigger \in BOOLEAN /\ pendingTp1 \in BOOLEAN
  /\ row \in Rows
  /\ pc \in {"idle", "outcome", "trigger", "tp1", "done", "down"}
  /\ restarts \in Nat /\ onClosedBars \in BOOLEAN

LEMMA WindowType ==
  ASSUME tape \in Windows, fine \in Windows
  PROVE  Window \in Windows /\ \A m \in Minutes : Coarse(m) \in Bars
<1>1. ASSUME NEW m \in Minutes PROVE Coarse(m) \in Bars
  <2> DEFINE S == {Source(m)[i] : i \in m..(m + BlockLen - 1) \cap Minutes}
  <2>1. m \in m..(m + BlockLen - 1) \cap Minutes
    BY MonitorAssumption DEF Minutes
  <2>2. Source(m) \in Windows
    BY DEF Source
  <2>3. S \subseteq Bars /\ S # {}
    BY <2>1, <2>2 DEF Windows
  <2> HIDE DEF S
  <2>4. Span(S) \in Bars
    BY <2>3, SpanIs
  <2> QED
    BY <2>4 DEF Coarse, S
<1>2. NoBar \in Bars
  BY DEF Bars
<1>3. \A m \in Minutes : fine[m] \in Bars
  BY DEF Windows
<1> QED
  BY <1>1, <1>2, <1>3 DEF Window, Windows

\* A mark set in memory reaches the store with the queues that carry it.
Drained ==
  /\ pc = "idle" => decision = Undecided /\ ~pendingTrigger /\ ~pendingTp1
  /\ pc = "tp1" => ~pendingTrigger
  /\ pc = "down" => decision = Undecided /\ ~pendingTrigger /\ ~pendingTp1
  /\ pc # "down" /\ row.triggered # triggered =>
       row.triggered = NoMark /\ pendingTrigger /\ pc \in {"outcome", "trigger"}
  /\ pc # "down" /\ row.banked # banked =>
       row.banked = NoMark /\ pendingTp1 /\ pc \in {"outcome", "trigger", "tp1"}

Marks == MarksOK(triggered, banked) /\ MarksOK(row.triggered, row.banked)

\* A check walks a signal that is tracked and undecided.
LEMMA CheckWalks ==
  ASSUME Typed, Drained, Marks, pc = "idle"
  PROVE  /\ WalkState \in Walks /\ Window \in Windows
         /\ MarksOK(WalkState.triggered, WalkState.banked) /\ WalkState.decision = Undecided
         /\ Walk(WalkState, Window) \in Walks
         /\ Follows(WalkState, Walk(WalkState, Window))
<1>1. WalkState \in Walks /\ WalkState.decision = Undecided
      /\ WalkState.triggered = triggered /\ WalkState.banked = banked
  BY DEF WalkState, Typed, Walks
<1>2. Window \in Windows
  BY WindowType DEF Typed
<1>3. MarksOK(WalkState.triggered, WalkState.banked)
  BY <1>1 DEF Marks
<1> QED
  BY <1>1, <1>2, <1>3, WalkFollows, MonitorAssumption DEF Typed

MarksInv == Typed /\ Drained /\ Marks

LEMMA MarksInit ==
  Init => MarksInv
<1> SUFFICES ASSUME Init PROVE MarksInv
  OBVIOUS
<1>1. plan \in AllPlans /\ plan.long \in BOOLEAN
  BY MonitorAssumption DEF Init, AllPlans
<1>2. NoFine \in Windows /\ 0 \in Minutes
  BY MonitorAssumption DEF NoFine, Windows, Minutes, Bars
<1>3. tape \in Windows
  <2>1. Price(Entry) \in Prices
    BY DEF Price, Entry, Prices, Sl, Tp2
  <2>2. [low |-> Price(Entry), high |-> Price(Entry)] \in Bars
    BY <2>1 DEF Bars, Prices
  <2> QED
    BY <1>2, <2>2 DEF Init, Windows
<1>4. Typed
  <2>1. row \in Rows
    BY DEF Init, Rows, Times
  <2> QED
    BY <1>1, <1>2, <1>3, <2>1 DEF Init, Typed, Times
<1>5. Drained /\ Marks
  BY DEF Init, Drained, Marks, MarksOK
<1> QED
  BY <1>4, <1>5 DEF MarksInv

LEMMA MarksStep ==
  MarksInv /\ [Next]_vars => MarksInv'
<1> SUFFICES ASSUME MarksInv, [Next]_vars PROVE MarksInv'
  OBVIOUS
<1> USE DEF MarksInv, Rows
<1>1. ASSUME NEW p \in Prices, Tick(p) PROVE MarksInv'
  <2>1. Typed'
    <3>1. \A b \in Bars : Extend(b, p) \in Bars
      BY ExtendIs
    <3>2. tape' \in Windows /\ fine' \in Windows
      BY <1>1, <3>1 DEF Tick, Typed, Windows
    <3> QED
      BY <1>1, <3>2 DEF Tick, Typed, tracked, queues
  <2>2. Drained' /\ Marks'
    BY <1>1 DEF Tick, Drained, Marks, MarksOK, tracked, queues
  <2> QED
    BY <2>1, <2>2
<1>2. CASE NextMinute
  <2>1. Typed'
    BY <1>2, MonitorAssumption DEF NextMinute, Typed, Minutes, candles, tracked, queues
  <2>2. Drained' /\ Marks'
    BY <1>2 DEF NextMinute, Drained, Marks, MarksOK, tracked, queues
  <2> QED
    BY <2>1, <2>2
<1>3. CASE Check
  <2> DEFINE u == WalkState
             w == Walk(WalkState, Window)
  <2>1. w \in Walks /\ Follows(u, w)
    BY <1>3, CheckWalks DEF Check
  <2>2. u.triggered = triggered /\ u.banked = banked
    BY DEF WalkState
  <2>3. /\ triggered' = w.triggered /\ banked' = w.banked
        /\ decision' \in {NotTriggered, w.decision}
    BY <1>3 DEF Check
  <2> HIDE DEF u, w
  <2>4. Typed'
    BY <1>3, <2>1, <2>3 DEF Check, Typed, Walks, Outcomes, NotTriggered, market, candles
  <2>5. Drained'
    BY <1>3, <2>1, <2>2, <2>3 DEF Check, Drained, Follows
  <2>6. Marks'
    BY <1>3, <2>1, <2>3 DEF Check, Marks, MarksOK, Follows, market
  <2> QED
    BY <2>4, <2>5, <2>6
<1>4. CASE ForceClose
  <2>1. decision' \in Outcomes
    BY <1>4 DEF ForceClose, ForcedOutcome, Outcomes, NotTriggered
  <2>2. Typed'
    BY <1>4, <2>1 DEF ForceClose, Typed, market, candles, queues
  <2>3. Drained' /\ Marks'
    BY <1>4 DEF ForceClose, Drained, Marks, MarksOK, market, queues
  <2> QED
    BY <2>2, <2>3
<1>5. CASE PersistOutcome
  <2>1. Typed'
    BY <1>5 DEF PersistOutcome, Typed, market, candles, tracked, queues
  <2>2. Drained' /\ Marks'
    BY <1>5 DEF PersistOutcome, Drained, Marks, MarksOK, market, tracked, queues, Typed
  <2> QED
    BY <2>1, <2>2
<1>6. CASE MarkTriggered
  <2>1. Typed'
    BY <1>6 DEF MarkTriggered, Typed, market, candles, tracked
  <2>2. Drained' /\ Marks'
    BY <1>6 DEF MarkTriggered, Drained, Marks, MarksOK, market, tracked, Typed
  <2> QED
    BY <2>1, <2>2
<1>7. CASE MarkTp1Touched
  <2>1. Typed'
    BY <1>7 DEF MarkTp1Touched, Typed, market, candles, tracked
  <2>2. Drained' /\ Marks'
    BY <1>7 DEF MarkTp1Touched, Drained, Marks, MarksOK, market, tracked, Typed
  <2> QED
    BY <2>1, <2>2
<1>8. CASE Crash
  <2>1. NoFine \in Windows
    BY DEF NoFine, Windows, Bars
  <2>2. Typed'
    BY <1>8, <2>1, 0 \in {0, 1}, restarts + 1 \in Nat DEF Crash, Typed, market, Times
  <2>3. Drained' /\ Marks'
    BY <1>8 DEF Crash, Drained, Marks, MarksOK, market
  <2> QED
    BY <2>2, <2>3
<1>9. CASE Resume
  <2>1. Typed'
    BY <1>9 DEF Resume, Typed, market, candles, queues
  <2>2. Drained' /\ Marks'
    BY <1>9 DEF Resume, Drained, Marks, MarksOK, market, queues
  <2> QED
    BY <2>1, <2>2
<1>10. CASE FeedStart
  <2>1. Typed'
    BY <1>10 DEF FeedStart, Typed, market, tracked, queues, Times
  <2>2. Drained' /\ Marks'
    BY <1>10 DEF FeedStart, Drained, Marks, MarksOK, market, tracked, queues
  <2> QED
    BY <2>1, <2>2
<1>11. CASE UNCHANGED vars
  BY <1>11 DEF vars, Typed, Drained, Marks, MarksOK
<1> QED
  BY <1>1, <1>2, <1>3, <1>4, <1>5, <1>6, <1>7, <1>8, <1>9, <1>10, <1>11 DEF Next

LEMMA MarksAlways ==
  Spec => []MarksInv
<1>1. Init => MarksInv
  BY MarksInit
<1>2. MarksInv /\ [Next]_vars => MarksInv'
  BY MarksStep
<1> QED
  BY <1>1, <1>2, PTL DEF Spec

(***************************************************************************)
(* Targets come after fills: in memory and in the store a first target is  *)
(* banked on a candle after the one that filled the entry, whatever the    *)
(* candles looked like when they were walked and however often the process *)
(* restarted.                                                              *)
(***************************************************************************)
THEOREM TargetAfterFillHolds ==
  Spec => []TargetAfterFill
<1>1. MarksInv => TargetAfterFill
  BY DEF MarksInv, Marks, MarksOK, TargetAfterFill
<1> QED
  BY <1>1, MarksAlways, PTL

\* The results of a check, as the walk makes them and as the clock cancels them.
LEMMA CheckFollowsPlan ==
  ASSUME MarksInv, Check
  PROVE  <<StageOf(triggered', banked'), decision'>>
           \in WalkFrom(StageOf(triggered, banked), plan.level, plan.legacy)
<1> DEFINE w == Walk(WalkState, Window)
<1>1. w \in Walks /\ Follows(WalkState, w)
  BY CheckWalks DEF Check, MarksInv
<1>2. /\ triggered' = w.triggered /\ banked' = w.banked
      /\ \/ decision' = w.decision
         \/ decision' = NotTriggered /\ w.decision = Undecided /\ Waiting(w)
  BY DEF Check
<1>3. WalkState.triggered = triggered /\ WalkState.banked = banked
  BY DEF WalkState
<1> HIDE DEF w
<1>4. <<StageOf(w.triggered, w.banked), w.decision>>
        \in WalkFrom(StageOf(triggered, banked), plan.level, plan.legacy)
  BY <1>1, <1>3 DEF Follows
<1>5. CASE decision' = w.decision
  BY <1>2, <1>4, <1>5 DEF StageOf
<1>6. CASE decision' = NotTriggered /\ w.decision = Undecided /\ Waiting(w)
  <2>1. StageOf(triggered', banked') = Pending
    BY <1>2, <1>6 DEF StageOf, Waiting
  <2>2. StageOf(triggered, banked) = Pending
    BY <1>1, <1>3, <1>6 DEF Follows, StageOf, Waiting, WalkFrom, WalkFromLive,
       WalkFromBanked, Pending, Live, Banked
  <2> QED
    BY <1>6, <2>1, <2>2 DEF WalkFrom, Pending, NotTriggered
<1> QED
  BY <1>2, <1>5, <1>6

(***************************************************************************)
(* Every check makes of the signal one of the results that the price-free  *)
(* plan of SignalPlan allows, the plan Engine is built on.                 *)
(***************************************************************************)
THEOREM FollowsPlanHolds ==
  Spec => FollowsPlan
<1> DEFINE Move == Check => <<StageOf(triggered', banked'), decision'>>
                     \in WalkFrom(StageOf(triggered, banked), plan.level, plan.legacy)
<1>1. MarksInv /\ [Next]_vars => [Move]_vars
  BY CheckFollowsPlan
<1> QED
  BY <1>1, MarksAlways, PTL DEF Spec, FollowsPlan

(***************************************************************************)
(* What the candles have to do with the market.                            *)
(***************************************************************************)
Recorded ==
  /\ \A m \in Minutes : m > now => ~Traded(tape[m])
  /\ \A m \in Minutes : tape[m].low <= fine[m].low /\ fine[m].high <= tape[m].high
  /\ \A m \in Minutes : Traded(fine[m]) => seededAt # NoMark /\ seededAt <= m
  /\ seededAt <= now
  /\ restarts = 0 => /\ registered = 0 /\ seededAt = 0 /\ fine = tape
                     /\ Traded(tape[0]) /\ pc # "down"
  /\ restarts # 0 => row.created <= now
  /\ restarts # 0 /\ pc # "down" => registered = row.created

\* The 1m ring will never again reach back to the registration.
OnlyCoarse ==
  /\ restarts # 0 /\ now > row.created + 1
  /\ \A m \in Minutes : m <= row.created + 1 => ~Traded(fine[m])

\* A banked mark is the start of a candle in which the market reached the
\* target, 5m wide when that is all there is to walk.
BankSeen(b) ==
  b # NoMark =>
    /\ b >= 1
    /\ \E i \in Minutes :
         /\ Favourable(tape[i], Tp1)
         /\ i = b \/ (OnlyCoarse /\ b \in Starts /\ b <= i /\ i < b + BlockLen)

\* NoInventedTouch of a result: both marks and both targets on the tape.
Reached(o) ==
  LET target == {m \in 1..MaxMinute : Favourable(tape[m], Tp1)} IN
    /\ o \in BankedOutcomes \cup {"TP1_HIT"} => target # {}
    /\ o = "SL_HIT" => \E m \in 1..MaxMinute : Adverse(tape[m], Sl)
    /\ o = "TP2_HIT" =>
         \E i \in target, m \in 1..MaxMinute : i < m /\ Favourable(tape[m], Tp2)

Seen ==
  /\ BankSeen(banked) /\ BankSeen(row.banked)
  /\ Reached(decision) /\ Reached(row.outcome)

LEMMA RecordedInit ==
  Init => Recorded
<1> SUFFICES ASSUME Init PROVE Recorded
  OBVIOUS
<1>1. 0 \in Minutes /\ now = 0
  BY MonitorAssumption DEF Init, Minutes
<1>2. \A m \in Minutes \ {0} : tape[m] = NoBar
  BY DEF Init, NoFine
<1>3. tape[0] = [low |-> Price(Entry), high |-> Price(Entry)] /\ Price(Entry) \in Prices
  BY <1>1 DEF Init, NoFine, Price, Entry, Prices, Sl, Tp2
<1>4. Traded(tape[0]) /\ ~Traded(NoBar)
  BY <1>3 DEF Traded, Prices, NoBar, Sl, Tp2
<1>5. \A m \in Minutes : m > 0 => ~Traded(tape[m])
  BY <1>1, <1>2, <1>4
<1>6. \A m \in Minutes : tape[m].low <= tape[m].low /\ tape[m].high <= tape[m].high
  <2>1. tape \in Windows
    BY MarksInit DEF MarksInv, Typed
  <2> QED
    BY <2>1 DEF Windows, Bars, NoBar, Prices, Sl, Tp2
<1> QED
  BY <1>1, <1>4, <1>5, <1>6 DEF Init, Recorded, NoMark, Minutes

LEMMA RecordedStep ==
  MarksInv /\ Recorded /\ [Next]_vars => Recorded'
<1> SUFFICES ASSUME MarksInv, Recorded, [Next]_vars PROVE Recorded'
  OBVIOUS
<1>0. Typed /\ now \in Minutes /\ seededAt \in Times
  BY DEF MarksInv, Typed
<1>1. ASSUME NEW p \in Prices, Tick(p) PROVE Recorded'
  <2>1. /\ tape \in Windows /\ fine \in Windows /\ now' = now /\ seededAt' = seededAt
        /\ tape' = [tape EXCEPT ![now] = Extend(@, p)]
        /\ fine' = IF seededAt = NoMark THEN fine ELSE [fine EXCEPT ![now] = Extend(@, p)]
    BY <1>0, <1>1 DEF Tick, Typed
  <2>2. \A b \in Bars : Extend(b, p) \in Bars /\ Traded(Extend(b, p))
          /\ Extend(b, p).low <= b.low /\ b.high <= Extend(b, p).high
          /\ Extend(b, p).low \in {b.low, p} /\ Extend(b, p).high \in {b.high, p}
          /\ Extend(b, p).low <= p /\ p <= Extend(b, p).high
    BY ExtendIs
  <2>3. /\ \A m \in Minutes : tape[m] \in Bars /\ fine[m] \in Bars
        /\ tape'[now] = Extend(tape[now], p) /\ fine'[now] \in {fine[now], Extend(fine[now], p)}
        /\ \A m \in Minutes \ {now} : tape'[m] = tape[m] /\ fine'[m] = fine[m]
    BY <1>0, <2>1 DEF Windows
  <2>4. \A m \in Minutes : m > now => ~Traded(tape'[m])
    BY <1>0, <2>3 DEF Recorded, Minutes
  <2>5. \A m \in Minutes : tape'[m].low <= fine'[m].low /\ fine'[m].high <= tape'[m].high
    <3>1. \A b \in Bars : b.low \in Int /\ b.high \in Int
      BY DEF Bars, NoBar, Prices, Sl, Tp2
    <3>2. tape'[now].low <= fine'[now].low /\ fine'[now].high <= tape'[now].high
      <4>1. /\ tape[now].low <= fine[now].low /\ fine[now].high <= tape[now].high
            /\ tape[now] \in Bars /\ fine[now] \in Bars /\ p \in Int
        BY <1>0, <2>3 DEF Recorded, Prices, Sl, Tp2
      <4>2. /\ tape'[now] \in Bars /\ fine'[now] \in Bars
            /\ tape'[now].low <= tape[now].low /\ tape[now].high <= tape'[now].high
            /\ tape'[now].low <= p /\ p <= tape'[now].high
            /\ fine'[now].low \in {fine[now].low, p} /\ fine'[now].high \in {fine[now].high, p}
        BY <2>2, <2>3, <4>1
      <4> QED
        BY <3>1, <4>1, <4>2
    <3> QED
      BY <1>0, <2>3, <3>2 DEF Recorded
  <2>6. \A m \in Minutes : Traded(fine'[m]) => seededAt # NoMark /\ seededAt <= m
    <3>1. seededAt = NoMark => fine'[now] = fine[now]
      BY <2>1
    <3> QED
      BY <1>0, <2>3, <3>1 DEF Recorded
  <2>7. restarts = 0 => fine' = tape' /\ Traded(tape'[0])
    <3>1. restarts = 0 => seededAt # NoMark /\ fine = tape /\ Traded(tape[0])
      BY DEF Recorded, NoMark
    <3>2. 0 \in Minutes
      BY MonitorAssumption DEF Minutes
    <3> QED
      BY <2>1, <2>2, <2>3, <3>1, <3>2
  <2> QED
    BY <1>1, <2>1, <2>4, <2>5, <2>6, <2>7 DEF Recorded, Tick, tracked, queues
<1>2. CASE NextMinute
  BY <1>0, <1>2 DEF NextMinute, Recorded, candles, tracked, queues, Typed, Minutes, Times,
     NoMark, Rows
<1>3. CASE Check
  BY <1>3 DEF Check, Recorded, market, candles, Stored
<1>4. CASE ForceClose
  BY <1>4 DEF ForceClose, Recorded, market, candles, queues, Stored
<1>5. CASE PersistOutcome
  BY <1>0, <1>5 DEF PersistOutcome, Recorded, market, candles, tracked, queues, Typed, Rows
<1>6. CASE MarkTriggered
  BY <1>0, <1>6 DEF MarkTriggered, Recorded, market, candles, tracked, Typed, Rows
<1>7. CASE MarkTp1Touched
  BY <1>0, <1>7 DEF MarkTp1Touched, Recorded, market, candles, tracked, Typed, Rows
<1>8. CASE Crash
  <2>1. \A m \in Minutes : ~Traded(fine'[m])
    BY <1>8 DEF Crash, NoFine, Traded, NoBar, Sl, Tp2
  <2>2. restarts' # 0
    BY <1>0, <1>8 DEF Crash, Typed
  <2>3. \A m \in Minutes : tape[m].low <= NoBar.low /\ NoBar.high <= tape[m].high
    BY <1>0 DEF Typed, Windows, Bars, NoBar, Prices, Sl, Tp2
  <2>4. seededAt' <= now
    BY <1>0, <1>8 DEF Crash, NoMark, Minutes
  <2>5. \A m \in Minutes : fine'[m] = NoBar
    BY <1>8 DEF Crash, NoFine
  <2> QED
    BY <1>8, <2>1, <2>2, <2>3, <2>4, <2>5 DEF Crash, Recorded, market, Stored
<1>9. CASE Resume
  BY <1>9 DEF Resume, Recorded, market, candles, queues
<1>10. CASE FeedStart
  <2>1. \A m \in Minutes : ~Traded(fine[m])
    BY <1>10 DEF FeedStart, Recorded
  <2>2. restarts # 0
    BY <1>10 DEF FeedStart, Recorded, NoMark
  <2> QED
    BY <1>0, <1>10, <2>1, <2>2 DEF FeedStart, Recorded, market, tracked, queues, Minutes
<1>11. CASE UNCHANGED vars
  BY <1>11 DEF vars, Recorded
<1> QED
  BY <1>1, <1>2, <1>3, <1>4, <1>5, <1>6, <1>7, <1>8, <1>9, <1>10, <1>11 DEF Next

\* A range reaches the prices of the ranges within it, and no others.
LEMMA WithinReaches ==
  ASSUME NEW b \in Bars, NEW d \in Bars, d.low <= b.low, b.high <= d.high, NEW p \in Prices
  PROVE  /\ Favourable(b, p) => Favourable(d, p)
         /\ Adverse(b, p) => Adverse(d, p)
<1>1. Price(p) \in Int
  BY DEF Price, Prices, Sl, Tp2
<1>2. b.low \in Int /\ b.high \in Int /\ d.low \in Int /\ d.high \in Int
  BY DEF Bars, NoBar, Prices, Sl, Tp2
<1> QED
  BY <1>1, <1>2 DEF Favourable, Adverse

LEMMA SpanReaches ==
  ASSUME NEW S, S \subseteq Bars, S # {}
  PROVE  /\ Traded(Span(S)) => \E b \in S : Traded(b)
         /\ \A p \in Prices : /\ Favourable(Span(S), p) => \E b \in S : Favourable(b, p)
                              /\ Adverse(Span(S), p) => \E b \in S : Adverse(b, p)
<1>1. /\ Span(S) \in Bars
      /\ \A b \in S : Span(S).low <= b.low /\ b.high <= Span(S).high
      /\ \E b \in S : b.low = Span(S).low
      /\ \E b \in S : b.high = Span(S).high
  BY SpanIs
<1> DEFINE d == Span(S)
<1> HIDE DEF d
<1>2. PICK lo \in S : lo.low = d.low
  BY <1>1 DEF d
<1>3. PICK hi \in S : hi.high = d.high
  BY <1>1 DEF d
<1>4. Traded(d) => Traded(lo)
  BY <1>1, <1>2 DEF d, Traded, Bars, NoBar, Prices, Sl, Tp2
<1>5. \A p \in Prices : /\ Favourable(d, p) => Favourable(lo, p) \/ Favourable(hi, p)
                        /\ Adverse(d, p) => Adverse(lo, p) \/ Adverse(hi, p)
  BY <1>2, <1>3 DEF Favourable, Adverse
<1> QED
  BY <1>4, <1>5 DEF d

\* A candle that a check walks shows prices of the market in its own minutes:
\* 1m, or 5m when the ring will never reach back to the registration.
LEMMA WindowSeen ==
  ASSUME Typed, Recorded, pc # "down", NEW m \in Minutes, Traded(Window[m])
  PROVE  /\ m > registered /\ m >= 1
         /\ \/ /\ OnFine /\ ~OnlyCoarse /\ Window[m] = fine[m]
               /\ \A p \in Prices : /\ Favourable(Window[m], p) => Favourable(tape[m], p)
                                    /\ Adverse(Window[m], p) => Adverse(tape[m], p)
            \/ /\ OnlyCoarse /\ m \in Starts
               /\ \A p \in Prices :
                    /\ Favourable(Window[m], p) =>
                         \E i \in Minutes : m <= i /\ i < m + BlockLen /\ Favourable(tape[i], p)
                    /\ Adverse(Window[m], p) =>
                         \E i \in Minutes : m <= i /\ i < m + BlockLen /\ Adverse(tape[i], p)
<1>1. /\ tape \in Windows /\ fine \in Windows /\ registered \in {0, 1} /\ now \in Minutes
      /\ m \in Int
  BY DEF Typed, Minutes
<1>2. ~Traded(NoBar)
  BY DEF Traded, NoBar, Sl, Tp2
<1>3. CASE OnFine
  <2>1. m > registered /\ Window[m] = fine[m]
    BY <1>2, <1>3 DEF Window
  <2>2. fine[m] \in Bars /\ tape[m] \in Bars
        /\ tape[m].low <= fine[m].low /\ fine[m].high <= tape[m].high
    BY <1>1 DEF Recorded, Windows
  <2>3. ~OnlyCoarse
    BY <1>3 DEF OnFine, ReachesBack, OnlyCoarse, Recorded
  <2>4. \A p \in Prices : /\ Favourable(fine[m], p) => Favourable(tape[m], p)
                          /\ Adverse(fine[m], p) => Adverse(tape[m], p)
    BY <2>2, WithinReaches
  <2> QED
    BY <1>1, <1>3, <2>1, <2>3, <2>4
<1>4. CASE ~OnFine
  <2> DEFINE mins == m..(m + BlockLen - 1) \cap Minutes
             S == {Source(m)[i] : i \in mins}
  <2>1. seededAt # NoMark /\ m \in Starts /\ m > registered /\ Window[m] = Coarse(m)
    BY <1>2, <1>4 DEF Window
  <2>2. Source(m) \in Windows
    BY <1>1 DEF Source
  <2>3. m \in mins
    BY <1>1, MonitorAssumption
  <2>4. S \subseteq Bars /\ S # {}
    BY <2>2, <2>3 DEF Windows
  <2>5. Coarse(m) = Span(S)
    BY DEF Coarse
  <2>6. /\ \E b \in S : Traded(b)
        /\ \A p \in Prices : /\ Favourable(Coarse(m), p) => \E b \in S : Favourable(b, p)
                             /\ Adverse(Coarse(m), p) => \E b \in S : Adverse(b, p)
    <3> HIDE DEF S
    <3> QED
      BY <2>1, <2>4, <2>5, SpanReaches
  <2>7. PICK k \in mins : Traded(Source(m)[k])
    BY <2>6
  <2>8. \A i \in Minutes : \A p \in Prices :
          /\ Favourable(Source(m)[i], p) => Favourable(tape[i], p)
          /\ Adverse(Source(m)[i], p) => Adverse(tape[i], p)
    <3> TAKE i \in Minutes
    <3>1. fine[i] \in Bars /\ tape[i] \in Bars
          /\ tape[i].low <= fine[i].low /\ fine[i].high <= tape[i].high
      BY <1>1 DEF Recorded, Windows
    <3>2. Source(m)[i] \in {tape[i], fine[i]}
      BY DEF Source
    <3> QED
      BY <3>1, <3>2, WithinReaches
  <2>9. \A i \in mins : i \in Minutes /\ m <= i /\ i < m + BlockLen
    BY <1>1, MonitorAssumption DEF Minutes
  <2>10. \A p \in Prices :
           /\ Favourable(Window[m], p) =>
                \E i \in Minutes : m <= i /\ i < m + BlockLen /\ Favourable(tape[i], p)
           /\ Adverse(Window[m], p) =>
                \E i \in Minutes : m <= i /\ i < m + BlockLen /\ Adverse(tape[i], p)
    BY <2>1, <2>6, <2>8, <2>9
  <2>11. k \in Minutes /\ m <= k /\ k <= now /\ now \in Int /\ seededAt \in Int
         /\ seededAt <= now /\ k \in Int
    <3>1. Traded(Source(m)[k]) => Traded(tape[k])
      <4>1. fine[k] \in Bars /\ tape[k] \in Bars /\ Source(m)[k] \in {tape[k], fine[k]}
            /\ tape[k].low <= fine[k].low /\ fine[k].high <= tape[k].high
        BY <1>1, <2>9 DEF Recorded, Windows, Source
      <4> QED
        BY <4>1 DEF Traded, Bars, NoBar, Prices, Sl, Tp2
    <3> QED
      BY <1>1, <2>7, <2>9, <3>1 DEF Recorded, Typed, Minutes, Times, NoMark
  <2>12. BlockOf(seededAt) <= seededAt /\ BlockOf(seededAt) \in Int
    BY <2>11, MonitorAssumption DEF BlockOf
  \* The ring does not reach back.
  <2>13. CASE ReachesBack
    <3>1. ~HasCandles
      BY <1>4, <2>13 DEF OnFine
    <3>2. PICK j \in Minutes : j <= registered + 1 /\ Traded(fine[j])
      BY <2>13 DEF ReachesBack
    <3>3. j <= registered /\ seededAt <= j /\ j \in Int
      BY <1>1, <3>1, <3>2 DEF HasCandles, Recorded, Minutes
    <3>4. Source(m) = fine
      BY <1>1, <2>1, <2>11, <2>12, <3>1, <3>3, <2>7, <2>9 DEF Source
    <3> QED
      BY <1>1, <2>1, <2>7, <2>9, <2>11, <3>1, <3>4 DEF HasCandles
  <2>14. CASE ~ReachesBack
    <3>1. restarts # 0 /\ registered = row.created
      BY <1>1, <2>14, MonitorAssumption DEF Recorded, ReachesBack, Minutes
    <3>2. now > registered + 1
      <4> SUFFICES ASSUME ~(now > registered + 1) PROVE FALSE
        OBVIOUS
      <4>1. m = registered + 1 /\ k = m /\ now = m
        BY <1>1, <2>1, <2>11
      <4>2. Source(m) = fine
        BY <2>11, <2>12, <4>1 DEF Source
      <4> QED
        BY <2>7, <2>11, <2>14, <4>1, <4>2 DEF ReachesBack
    <3>3. OnlyCoarse
      BY <2>14, <3>1, <3>2 DEF OnlyCoarse, ReachesBack
    <3> QED
      BY <1>1, <2>1, <2>10, <3>3
  <2> QED
    BY <2>13, <2>14
<1> QED
  BY <1>3, <1>4

SeenBy(w) == BankSeen(w.banked) /\ Reached(w.decision)

LEMMA AdvancedSeen ==
  ASSUME Typed, Recorded, pc # "down", NEW w \in Walks, SeenBy(w), NEW m \in Minutes
  PROVE  SeenBy(Advanced(w, Window, m))
<1> DEFINE b == Window[m]
           c == Candle(m, b)
           v == Step(w, c)
<1> SUFFICES ASSUME Traded(b) PROVE SeenBy(v)
  BY DEF Advanced
<1>1. /\ m >= 1 /\ m \in Int /\ m # NoMark /\ m \in 1..MaxMinute /\ BlockLen \in Int /\ BlockLen >= 1
      /\ w.banked \in Int
  BY WindowSeen, MonitorAssumption DEF Minutes, NoMark, Walks, Times
<1>2. \/ /\ ~OnlyCoarse
         /\ \A p \in Prices : /\ Favourable(b, p) => Favourable(tape[m], p)
                              /\ Adverse(b, p) => Adverse(tape[m], p)
      \/ /\ OnlyCoarse /\ m \in Starts
         /\ \A p \in Prices :
              /\ Favourable(b, p) =>
                   \E i \in Minutes : m <= i /\ i < m + BlockLen /\ Favourable(tape[i], p)
              /\ Adverse(b, p) =>
                   \E i \in Minutes : m <= i /\ i < m + BlockLen /\ Adverse(tape[i], p)
  BY WindowSeen, Zenon
<1>3. Effect(w, m, c, v)
  <2>1. b \in Bars
    BY WindowType DEF Typed, Windows
  <2> QED
    BY <2>1, StepCases
<1>4. \A p \in Prices : /\ Favourable(c, p) <=> Favourable(b, p)
                        /\ Adverse(c, p) <=> Adverse(b, p)
  BY DEF Candle, Favourable, Adverse
<1>5. Sl \in Prices /\ Tp1 \in Prices /\ Tp2 \in Prices
  BY DEF Prices, Sl, Tp1, Tp2
<1>6. w = [triggered |-> w.triggered, banked |-> w.banked, decision |-> w.decision]
  BY DEF Walks
<1>7. \A i \in Minutes : m <= i => i \in 1..MaxMinute
  BY <1>1 DEF Minutes
<1> HIDE DEF b, c, v
\* What each touch of the candle stands for.
<1>8. Adverse(c, Sl) => Reached("SL_HIT")
  <2>1. Adverse(c, Sl) => \E i \in 1..MaxMinute : Adverse(tape[i], Sl)
    BY <1>1, <1>2, <1>4, <1>5, <1>7
  <2> QED
    BY <2>1 DEF Reached, BankedOutcomes
<1>9. Favourable(c, Tp1) => Reached("TP1_HIT") /\ BankSeen(m)
  <2>1. Favourable(c, Tp1) => \E i \in 1..MaxMinute : Favourable(tape[i], Tp1)
    BY <1>1, <1>2, <1>4, <1>5, <1>7
  <2>2. Favourable(c, Tp1) => BankSeen(m)
    BY <1>1, <1>2, <1>4, <1>5 DEF BankSeen
  <2> QED
    BY <2>1, <2>2 DEF Reached, BankedOutcomes
<1>10. w.banked # NoMark => Reached("TP1_BE")
  <2>1. w.banked # NoMark => \E i \in 1..MaxMinute : Favourable(tape[i], Tp1)
    BY <1>1 DEF SeenBy, BankSeen, Minutes
  <2> QED
    BY <2>1 DEF Reached, BankedOutcomes
<1>11. w.banked # NoMark /\ w.banked < m /\ Favourable(c, Tp2) => Reached("TP2_HIT")
  <2> SUFFICES ASSUME w.banked # NoMark, w.banked < m, Favourable(c, Tp2)
               PROVE  Reached("TP2_HIT")
    OBVIOUS
  <2>1. PICK i \in Minutes :
          /\ w.banked >= 1 /\ Favourable(tape[i], Tp1)
          /\ i = w.banked \/ (OnlyCoarse /\ w.banked \in Starts /\ w.banked <= i
                              /\ i < w.banked + BlockLen)
    BY DEF SeenBy, BankSeen
  <2>2. PICK j \in 1..MaxMinute :
          m <= j /\ Favourable(tape[j], Tp2) /\ (OnlyCoarse => m \in Starts)
    BY <1>1, <1>2, <1>4, <1>5, <1>7
  <2>3. i < j
    <3>1. CASE i = w.banked
      BY <1>1, <2>2, <3>1
    <3>2. CASE OnlyCoarse /\ w.banked \in Starts /\ i < w.banked + BlockLen
      <4>1. m \in Starts
        BY <2>2, <3>2
      <4>2. m >= w.banked + BlockLen
        <5>1. /\ w.banked \in Nat /\ m \in Nat /\ w.banked % BlockLen = 0 /\ m % BlockLen = 0
              /\ BlockLen \in Nat \ {0} /\ w.banked < m
          BY <1>1, <2>1, <3>2, <4>1, MonitorAssumption DEF Starts
        <5> QED
          BY <5>1, Multiples
      <4> QED
        BY <1>1, <2>2, <3>2, <4>2 DEF Minutes
    <3> QED
      BY <2>1, <3>1, <3>2
  <2>4. i \in 1..MaxMinute
    BY <1>1, <2>1 DEF Minutes
  <2> QED
    BY <2>1, <2>2, <2>3, <2>4 DEF Reached, BankedOutcomes
<1>12. Reached(NotTriggered)
  BY DEF Reached, NotTriggered, BankedOutcomes
<1> HIDE DEF BankSeen, Reached
<1>13. v = w => SeenBy(v)
  OBVIOUS
<1>14. \A o \in {NotTriggered, "SL_HIT", "TP1_HIT", "TP1_BE", "TP2_HIT"} :
         Reached(o) /\ v = [w EXCEPT !.decision = o] => SeenBy(v)
  BY <1>6 DEF SeenBy
<1>15. Reached("SL_HIT") /\ v = [w EXCEPT !.triggered = m, !.decision = "SL_HIT"] => SeenBy(v)
  BY <1>6 DEF SeenBy
<1>16. v = [w EXCEPT !.triggered = m] => SeenBy(v)
  BY <1>6 DEF SeenBy
<1>17. BankSeen(m) /\ v = [w EXCEPT !.banked = m] => SeenBy(v)
  BY <1>6 DEF SeenBy
<1> HIDE DEF SeenBy
<1> QED
  BY <1>3, <1>8, <1>9, <1>10, <1>11, <1>12, <1>13, <1>14, <1>15, <1>16, <1>17 DEF Effect

LEMMA WalkSeen ==
  ASSUME Typed, Recorded, pc # "down", NEW u \in Walks, SeenBy(u)
  PROVE  SeenBy(Walk(u, Window))
<1> DEFINE N == MaxMinute + 1
           W == Walked(u, Window)
           T == {n \in 0..N : SeenBy(W[n])}
<1>1. /\ W \in [0..N -> Walks] /\ W[0] = u
      /\ \A n \in 1..N : W[n] = Advanced(W[n - 1], Window, n - 1)
  BY WalkedIs, WindowType, MonitorAssumption DEF Typed
<1> HIDE DEF W
<1>2. ASSUME NEW n \in 1..N, SeenBy(W[n - 1]) PROVE SeenBy(W[n])
  <2>1. n - 1 \in Minutes /\ W[n - 1] \in Walks
    BY <1>1, MonitorAssumption DEF Minutes
  <2> QED
    BY <1>1, <1>2, <2>1, AdvancedSeen
<1>3. 0 \in T /\ \A n \in 1..N : n - 1 \in T => n \in T
  BY <1>1, <1>2, MonitorAssumption
<1>4. 0..N \subseteq T
  <2> HIDE DEF T
  <2> QED
    BY <1>3, UptoInduction, MonitorAssumption
<1> QED
  BY <1>4, MonitorAssumption DEF Walk, W

LEMMA SeenInit ==
  Init => Seen
BY DEF Init, Seen, BankSeen, Reached, Undecided, BankedOutcomes

\* The market never takes back a price, and the ring never grows backwards.
LEMMA StaysSeen ==
  ASSUME MarksInv, Recorded, [Next]_vars
  PROVE  /\ plan' = plan
         /\ \A i \in Minutes, p \in Prices :
              /\ Favourable(tape[i], p) => Favourable(tape[i], p)'
              /\ Adverse(tape[i], p) => Adverse(tape[i], p)'
         /\ OnlyCoarse => OnlyCoarse'
<1>1. plan' = plan
  BY DEF Next, Tick, NextMinute, Check, ForceClose, PersistOutcome, MarkTriggered,
     MarkTp1Touched, Crash, Resume, FeedStart, market, vars
<1>2. /\ tape \in Windows /\ fine \in Windows /\ now \in Minutes /\ row \in Rows
      /\ restarts \in Nat
  BY DEF MarksInv, Typed
<1>3. ASSUME NEW p \in Prices, Tick(p)
      PROVE  /\ tape' \in Windows
             /\ \A i \in Minutes : tape'[i].low <= tape[i].low /\ tape[i].high <= tape'[i].high
             /\ OnlyCoarse => OnlyCoarse'
  <2>1. /\ tape' = [tape EXCEPT ![now] = Extend(@, p)]
        /\ fine' = IF seededAt = NoMark THEN fine ELSE [fine EXCEPT ![now] = Extend(@, p)]
        /\ now' = now /\ restarts' = restarts /\ row' = row
    BY <1>3 DEF Tick
  <2>2. \A b \in Bars : Extend(b, p) \in Bars
                        /\ Extend(b, p).low <= b.low /\ b.high <= Extend(b, p).high
    BY <1>3, ExtendIs
  <2>3. \A b \in Bars : b.low <= b.low /\ b.high <= b.high
    BY DEF Bars, NoBar, Prices, Sl, Tp2
  <2>4. \A m \in Minutes : m # now => fine'[m] = fine[m]
    BY <1>2, <2>1 DEF Windows
  <2>5. OnlyCoarse => OnlyCoarse'
    BY <1>2, <2>1, <2>4 DEF OnlyCoarse, Minutes, Rows
  <2> QED
    BY <1>2, <2>1, <2>2, <2>3, <2>5 DEF Windows
<1>4. \A i \in Minutes, p \in Prices :
        /\ Favourable(tape[i], p) => Favourable(tape[i], p)'
        /\ Adverse(tape[i], p) => Adverse(tape[i], p)'
  <2>1. CASE tape' = tape
    BY <1>1, <2>1 DEF Favourable, Adverse, Price
  <2>2. CASE \E p \in Prices : Tick(p)
    <3> SUFFICES ASSUME NEW i \in Minutes, NEW p \in Prices
                 PROVE  /\ Favourable(tape[i], p) => Favourable(tape[i], p)'
                        /\ Adverse(tape[i], p) => Adverse(tape[i], p)'
      OBVIOUS
    <3>1. /\ tape[i] \in Bars /\ tape'[i] \in Bars
          /\ tape'[i].low <= tape[i].low /\ tape[i].high <= tape'[i].high
      BY <1>2, <1>3, <2>2 DEF Windows
    <3>2. /\ Favourable(tape[i], p) => Favourable(tape'[i], p)
          /\ Adverse(tape[i], p) => Adverse(tape'[i], p)
      BY <3>1, WithinReaches
    <3> QED
      BY <1>1, <3>2 DEF Favourable, Adverse, Price
  <2> QED
    BY <2>1, <2>2 DEF Next, NextMinute, Check, ForceClose, PersistOutcome, MarkTriggered,
     MarkTp1Touched, Crash, Resume, FeedStart, market, vars
<1>5. OnlyCoarse => OnlyCoarse'
  <2>1. CASE NextMinute
    BY <1>2, <2>1 DEF NextMinute, OnlyCoarse, candles, Minutes, Rows
  <2>2. CASE Crash
    <3>1. \A m \in Minutes : ~Traded(fine'[m])
      BY <2>2 DEF Crash, NoFine, Traded, NoBar, Sl, Tp2
    <3> QED
      BY <1>2, <2>2, <3>1 DEF Crash, OnlyCoarse, market
  <2>3. CASE PersistOutcome \/ MarkTriggered \/ MarkTp1Touched
    BY <1>2, <2>3 DEF PersistOutcome, MarkTriggered, MarkTp1Touched, OnlyCoarse, market,
       candles, Rows
  <2>4. CASE Check \/ ForceClose \/ Resume \/ FeedStart \/ UNCHANGED vars
    BY <2>4 DEF Check, ForceClose, Resume, FeedStart, vars, OnlyCoarse, market, candles
  <2> QED
    BY <1>3, <2>1, <2>2, <2>3, <2>4 DEF Next
<1> QED
  BY <1>1, <1>4, <1>5

LEMMA SeenStep ==
  MarksInv /\ Recorded /\ Seen /\ [Next]_vars => Seen'
<1> SUFFICES ASSUME MarksInv, Recorded, Seen, [Next]_vars PROVE Seen'
  OBVIOUS
<1>0. Typed
  BY DEF MarksInv
<1>1. \A b \in Times : BankSeen(b) => BankSeen(b)'
  <2>1. Tp1 \in Prices
    BY DEF Prices, Sl, Tp1, Tp2
  <2> QED
    BY <2>1, StaysSeen DEF BankSeen
<1>2. \A o \in Outcomes \cup {Undecided} : Reached(o) => Reached(o)'
  <2>1. Sl \in Prices /\ Tp1 \in Prices /\ Tp2 \in Prices
    BY DEF Prices, Sl, Tp1, Tp2
  <2>2. \A i \in 1..MaxMinute : i \in Minutes
    BY DEF Minutes
  <2> QED
    BY <2>1, <2>2, StaysSeen DEF Reached
<1>3. /\ triggered \in Times /\ banked \in Times /\ row.banked \in Times
      /\ decision \in Outcomes \cup {Undecided} /\ row.outcome \in Outcomes \cup {Undecided}
      /\ NoMark \in Times
  BY <1>0 DEF Typed, Rows, Times
\* The marks and results after the step, judged by the market before it.
<1>4. /\ banked' \in Times /\ row'.banked \in Times
      /\ decision' \in Outcomes \cup {Undecided} /\ row'.outcome \in Outcomes \cup {Undecided}
  BY MarksStep DEF MarksInv, Typed, Rows
<1>5. Reached(Undecided) /\ Reached(NotTriggered) /\ Reached("EXPIRED") /\ BankSeen(NoMark)
  BY DEF Reached, BankSeen, Undecided, NotTriggered, BankedOutcomes
<1>6. BankSeen(banked') /\ Reached(decision')
  <2>1. CASE Check
    <3> DEFINE w == Walk(WalkState, Window)
    <3>1. WalkState \in Walks /\ SeenBy(WalkState)
      BY <1>5, <2>1, CheckWalks DEF Check, MarksInv, Seen, SeenBy, WalkState
    <3>2. SeenBy(w)
      BY <1>0, <2>1, <3>1, WalkSeen DEF Check
    <3>3. banked' = w.banked /\ decision' \in {w.decision, NotTriggered}
      BY <2>1 DEF Check
    <3> QED
      BY <1>5, <3>2, <3>3 DEF SeenBy
  <2>2. CASE ForceClose
    <3>1. banked' = banked /\ decision' = ForcedOutcome(StageOf(triggered, banked))
      BY <2>2 DEF ForceClose
    <3>2. decision' = "TP1_EXPIRED" => banked # NoMark
      BY <3>1 DEF ForcedOutcome, StageOf, Pending, Live, Banked, NotTriggered
    <3>3. banked # NoMark => Reached("TP1_EXPIRED")
      <4>1. banked # NoMark => \E i \in 1..MaxMinute : Favourable(tape[i], Tp1)
        BY <1>3 DEF Seen, BankSeen, Minutes, Times
      <4> QED
        BY <4>1 DEF Reached, BankedOutcomes
    <3>4. decision' \in {NotTriggered, "TP1_EXPIRED", "EXPIRED"}
      BY <3>1 DEF ForcedOutcome
    <3> QED
      BY <1>5, <3>1, <3>2, <3>3, <3>4 DEF Seen
  <2>3. CASE Crash \/ Resume
    BY <1>5, <2>3 DEF Crash, Resume, Seen
  <2>4. CASE UNCHANGED <<banked, decision>>
    BY <2>4 DEF Seen
  <2> QED
    BY <2>1, <2>2, <2>3, <2>4 DEF Next, Tick, NextMinute, PersistOutcome, MarkTriggered,
       MarkTp1Touched, FeedStart, tracked, vars
<1>7. BankSeen(row'.banked) /\ Reached(row'.outcome)
  <2>1. row'.banked \in {row.banked, banked} /\ row'.outcome \in {row.outcome, decision}
    BY <1>0 DEF Next, Tick, NextMinute, Check, ForceClose, PersistOutcome, MarkTriggered,
       MarkTp1Touched, Crash, Resume, FeedStart, market, vars, Typed, Rows
  <2> QED
    BY <2>1 DEF Seen
<1>8. BankSeen(banked)' /\ BankSeen(row.banked)'
  <2>1. \A b \in Times : b = banked' \/ b = row'.banked => BankSeen(b)'
    BY <1>1, <1>6, <1>7
  <2> QED
    BY <1>4, <2>1 DEF BankSeen
<1>9. Reached(decision)' /\ Reached(row.outcome)'
  <2>1. \A o \in Outcomes \cup {Undecided} : o = decision' \/ o = row'.outcome => Reached(o)'
    BY <1>2, <1>6, <1>7
  <2> QED
    BY <1>4, <2>1 DEF Reached
<1> QED
  BY <1>8, <1>9 DEF Seen

LEMMA SeenAlways ==
  Spec => [](MarksInv /\ Recorded /\ Seen)
<1>1. Init => MarksInv /\ Recorded /\ Seen
  BY MarksInit, RecordedInit, SeenInit
<1>2. MarksInv /\ Recorded /\ Seen /\ [Next]_vars => (MarksInv /\ Recorded /\ Seen)'
  BY MarksStep, RecordedStep, SeenStep
<1> QED
  BY <1>1, <1>2, PTL DEF Spec

(***************************************************************************)
(* A recorded result was really reached by the market after the signal was *)
(* registered, the second target in a later minute than the first.         *)
(***************************************************************************)
THEOREM NoInventedTouchHolds ==
  Spec => []NoInventedTouch
<1>1. Seen => NoInventedTouch
  BY DEF Seen, Reached, NoInventedTouch
<1> QED
  BY <1>1, SeenAlways, PTL

(***************************************************************************)
(* A process that has tracked the signal since it was emitted walks the    *)
(* tape itself, and honours the stops on it.                               *)
(***************************************************************************)
LEMMA WindowIsTape ==
  ASSUME Typed, Recorded, restarts = 0, NEW m \in Minutes
  PROVE  /\ Traded(Window[m]) => m >= 1 /\ Window[m] = tape[m] /\ m <= now
         /\ ~Traded(Window[m]) /\ m >= 1 => ~Traded(tape[m])
<1>1. /\ registered = 0 /\ fine = tape /\ Traded(tape[0]) /\ pc # "down"
      /\ 0 \in Minutes /\ m \in Int /\ now \in Int
  BY MonitorAssumption DEF Recorded, Minutes, Typed
<1>2. Traded(Window[m]) => m >= 1 /\ Window[m] = tape[m] /\ m <= now
  <2>1. Traded(Window[m]) => m >= 1 /\ Window[m] = fine[m]
    BY <1>1, WindowSeen DEF OnlyCoarse
  <2> QED
    BY <1>1, <2>1 DEF Recorded
<1>3. m >= 1 /\ Traded(tape[m]) => Window[m] = tape[m]
  BY <1>1 DEF OnFine, ReachesBack, HasCandles, Window
<1> QED
  BY <1>2, <1>3

LEMMA Untouched ==
  ASSUME NEW b \in Bars, ~Traded(b), NEW p \in Prices
  PROVE  ~Adverse(b, p) /\ ~Favourable(b, p)
<1>1. b = NoBar
  BY DEF Traded, Bars
<1> QED
  BY <1>1 DEF Adverse, Favourable, Price, Prices, NoBar, Sl, Tp2

\* The entry was filled in minute `fill`, and the first target was reached in
\* minute d before the stop.
FillOf(t) == IF plan.level THEN t ELSE 0
Clear(fill, d) ==
  /\ fill < d /\ d <= now /\ Favourable(tape[d], Tp1)
  /\ \A m \in fill + 1..d - 1 : ~Adverse(tape[m], Sl)

\* A walk over the minutes before n credits no target to a stopped trade.
Unstopped(w, n) ==
  /\ w.banked # NoMark => Clear(FillOf(w.triggered), w.banked)
  /\ w.decision = "TP1_HIT" => \E d \in Minutes : Clear(FillOf(w.triggered), d)
  /\ w.decision = Undecided /\ ~Waiting(w) /\ w.banked = NoMark =>
       \A m \in FillOf(w.triggered) + 1..n - 1 : ~Adverse(tape[m], Sl)

LEMMA ClearIsNotStopped ==
  ASSUME Typed, NEW fill \in Nat, NEW d \in Minutes, Clear(fill, d)
  PROVE  ~StoppedOnTape(fill)
<1> SUFFICES ASSUME NEW m \in (fill + 1)..MaxMinute, Adverse(tape[m], Sl),
                    \A i \in (fill + 1)..m : ~Favourable(tape[i], Tp1)
             PROVE  FALSE
  BY DEF StoppedOnTape
<1>1. fill + 1 <= d /\ d \in Int /\ m \in Int
  BY DEF Clear, Minutes
<1>2. ~(d <= m)
  BY <1>1 DEF Clear
<1> QED
  BY <1>1, <1>2 DEF Clear

LEMMA AdvancedUnstopped ==
  ASSUME Typed, Recorded, restarts = 0, NEW w \in Walks, NEW m \in Minutes,
         MarksOK(w.triggered, w.banked), Unstopped(w, m)
  PROVE  Unstopped(Advanced(w, Window, m), m + 1)
<1> DEFINE b == Window[m]
           c == Candle(m, b)
           v == Step(w, c)
<1>1. /\ m \in Nat /\ m # NoMark /\ w.triggered \in Int /\ w.banked \in Int
      /\ w.triggered # NoMark => w.triggered \in Nat
      /\ plan.level \in BOOLEAN /\ tape[m] \in Bars
  BY DEF Minutes, NoMark, Walks, Times, Typed, AllPlans, Windows
<1>2. Sl \in Prices /\ Tp1 \in Prices
  BY DEF Prices, Sl, Tp1, Tp2
<1>3. ~Waiting(w) => FillOf(w.triggered) \in Nat
  BY <1>1 DEF Waiting, FillOf
<1>4. CASE ~Traded(b)
  <2>1. m >= 1 => ~Adverse(tape[m], Sl)
    BY <1>1, <1>2, <1>4, WindowIsTape, Untouched
  <2>2. ~Waiting(w) => \A i \in FillOf(w.triggered) + 1..m :
          i \in FillOf(w.triggered) + 1..m - 1 \/ (i = m /\ m >= 1)
    BY <1>1, <1>3
  <2>3. (m + 1) - 1 = m
    BY <1>1
  <2> HIDE DEF b
  <2>4. Unstopped(w, m + 1)
    BY <2>1, <2>2, <2>3 DEF Unstopped
  <2> QED
    BY <1>4, <2>4 DEF Advanced, b
<1>5. CASE Traded(b)
  <2>1. m >= 1 /\ b = tape[m] /\ m <= now
    BY <1>5, WindowIsTape
  <2>2. /\ Favourable(c, Tp1) <=> Favourable(tape[m], Tp1)
        /\ Adverse(c, Sl) <=> Adverse(tape[m], Sl)
    BY <2>1 DEF Candle, Favourable, Adverse
  <2>3. Effect(w, m, c, v)
    BY <1>1, <2>1, StepCases
  <2>4. w = [triggered |-> w.triggered, banked |-> w.banked, decision |-> w.decision]
    BY DEF Walks
  <2>5. c.ts = m
    BY DEF Candle
  <2> SUFFICES Unstopped(v, m + 1)
    BY <1>5 DEF Advanced
  \* A live candle that leaves the walk as it was did not reach the stop.
  <2>6. v = w /\ w.decision = Undecided /\ ~Waiting(w) /\ w.banked = NoMark
        /\ FillOf(w.triggered) < m => ~Adverse(tape[m], Sl)
    <3> SUFFICES ASSUME v = w, w.decision = Undecided, ~Waiting(w), w.banked = NoMark,
                        FillOf(w.triggered) < m, Adverse(tape[m], Sl)
                 PROVE  FALSE
      OBVIOUS
    <3>1. ~FillCandle(w, c) /\ ~Ignored(w, c)
      BY <1>1, <2>5 DEF FillCandle, Ignored, FillOf, NoMark
    <3>2. v = [w EXCEPT !.decision = "SL_HIT"]
      BY <2>2, <3>1 DEF Step, StepLive
    <3> QED
      BY <2>4, <3>2 DEF Undecided
  <2> HIDE DEF b, c, v
  <2>7. CASE v = w
    <3>1. w.decision = Undecided /\ ~Waiting(w) /\ w.banked = NoMark =>
            \A i \in FillOf(w.triggered) + 1..(m + 1) - 1 : ~Adverse(tape[i], Sl)
      <4> SUFFICES ASSUME w.decision = Undecided, ~Waiting(w), w.banked = NoMark,
                          NEW i \in FillOf(w.triggered) + 1..(m + 1) - 1
                   PROVE  ~Adverse(tape[i], Sl)
        OBVIOUS
      <4>1. i \in FillOf(w.triggered) + 1..m - 1 \/ (i = m /\ FillOf(w.triggered) < m)
        BY <1>1, <1>3
      <4> QED
        BY <2>6, <2>7, <4>1 DEF Unstopped
    <3> QED
      BY <2>7, <3>1 DEF Unstopped
  <2>8. CASE w.decision = Undecided /\ Waiting(w) /\ v = [w EXCEPT !.decision = NotTriggered]
    <3>1. v.triggered = w.triggered /\ v.banked = w.banked /\ v.decision = NotTriggered
      BY <2>4, <2>8
    <3> QED
      BY <3>1 DEF Unstopped, NotTriggered, Undecided
  <2>9. CASE /\ w.decision = Undecided /\ Waiting(w)
             /\ v \in {[w EXCEPT !.triggered = m], [w EXCEPT !.triggered = m, !.decision = "SL_HIT"]}
    <3>1. v.triggered = m /\ v.banked = w.banked /\ v.decision \in {Undecided, "SL_HIT"}
      BY <2>4, <2>9
    <3>2. w.banked = NoMark /\ plan.level
      BY <2>9 DEF MarksOK, Waiting
    <3>3. \A i \in m + 1..(m + 1) - 1 : FALSE
      BY <1>1
    <3> QED
      BY <3>1, <3>2, <3>3 DEF Unstopped, Undecided, FillOf
  <2>10. CASE /\ w.decision = Undecided /\ ~Waiting(w)
              /\ v \in {[w EXCEPT !.decision = d] : d \in {"SL_HIT", "TP1_BE", "TP2_HIT"}}
    <3>1. /\ v.triggered = w.triggered /\ v.banked = w.banked
          /\ v.decision \in {"SL_HIT", "TP1_BE", "TP2_HIT"}
      BY <2>4, <2>10
    <3> QED
      BY <3>1 DEF Unstopped, Undecided
  <2>11. CASE /\ w.decision = Undecided /\ ~Waiting(w) /\ ~FillCandle(w, c) /\ w.banked = NoMark
              /\ plan.level => w.triggered < m
              /\ Favourable(c, Tp1)
              /\ v \in {[w EXCEPT !.decision = "TP1_HIT"], [w EXCEPT !.banked = m]}
    <3>1. Clear(FillOf(w.triggered), m)
      <4>1. FillOf(w.triggered) < m
        BY <1>1, <2>1, <2>11 DEF FillOf
      <4>2. \A i \in FillOf(w.triggered) + 1..m - 1 : ~Adverse(tape[i], Sl)
        BY <2>11 DEF Unstopped
      <4> QED
        BY <2>1, <2>2, <2>11, <4>1, <4>2 DEF Clear
    <3>2. CASE v = [w EXCEPT !.decision = "TP1_HIT"]
      <4>1. v.triggered = w.triggered /\ v.banked = NoMark /\ v.decision = "TP1_HIT"
        BY <2>4, <2>11, <3>2
      <4> QED
        BY <3>1, <4>1 DEF Unstopped, Undecided
    <3>3. CASE v = [w EXCEPT !.banked = m]
      <4>1. v.triggered = w.triggered /\ v.banked = m /\ v.decision = Undecided
        BY <2>4, <2>11, <3>3
      <4> QED
        BY <1>1, <3>1, <4>1 DEF Unstopped, Undecided
    <3> QED
      BY <2>11, <3>2, <3>3
  <2> HIDE DEF Unstopped, Undecided, NotTriggered
  <2>12. \/ v = w
         \/ w.decision = Undecided /\ Waiting(w) /\ v = [w EXCEPT !.decision = NotTriggered]
         \/ /\ w.decision = Undecided /\ Waiting(w)
            /\ v \in {[w EXCEPT !.triggered = m], [w EXCEPT !.triggered = m, !.decision = "SL_HIT"]}
         \/ /\ w.decision = Undecided /\ ~Waiting(w)
            /\ v \in {[w EXCEPT !.decision = d] : d \in {"SL_HIT", "TP1_BE", "TP2_HIT"}}
         \/ /\ w.decision = Undecided /\ ~Waiting(w) /\ ~FillCandle(w, c) /\ w.banked = NoMark
            /\ plan.level => w.triggered < m
            /\ Favourable(c, Tp1)
            /\ v \in {[w EXCEPT !.decision = "TP1_HIT"], [w EXCEPT !.banked = m]}
    BY <2>3 DEF Effect
  <2> QED
    BY <2>7, <2>8, <2>9, <2>10, <2>11, <2>12, Zenon
<1> QED
  BY <1>4, <1>5

LEMMA WalkUnstopped ==
  ASSUME Typed, Recorded, restarts = 0, NEW u \in Walks, MarksOK(u.triggered, u.banked),
         u.decision = Undecided, Unstopped(u, 0)
  PROVE  Unstopped(Walk(u, Window), MaxMinute + 1)
<1> DEFINE N == MaxMinute + 1
           W == Walked(u, Window)
           T == {n \in 0..N : Follows(u, W[n]) /\ Unstopped(W[n], n)}
<1>0. Window \in Windows /\ plan \in AllPlans /\ MaxMinute \in Nat
  BY WindowType, MonitorAssumption DEF Typed
<1>1. /\ W \in [0..N -> Walks] /\ W[0] = u
      /\ \A n \in 1..N : W[n] = Advanced(W[n - 1], Window, n - 1)
  BY <1>0, WalkedIs
<1> HIDE DEF W
<1>2. Follows(u, u)
  BY DEF Follows, StageOf, WalkFrom, WalkFromLive, WalkFromBanked, Pending, Live, Banked,
         Undecided
<1>3. ASSUME NEW n \in 1..N, Follows(u, W[n - 1]), Unstopped(W[n - 1], n - 1)
      PROVE  Follows(u, W[n]) /\ Unstopped(W[n], n)
  <2>1. n - 1 \in Minutes /\ W[n - 1] \in Walks /\ Window[n - 1] \in Bars /\ (n - 1) + 1 = n
    BY <1>0, <1>1 DEF Minutes, Windows
  <2>2. Follows(u, W[n])
    BY <1>0, <1>1, <1>3, <2>1, StepFollows DEF Advanced
  <2>3. MarksOK(W[n - 1].triggered, W[n - 1].banked)
    BY <1>3 DEF Follows
  <2>4. Unstopped(Advanced(W[n - 1], Window, n - 1), (n - 1) + 1)
    BY <1>3, <2>1, <2>3, AdvancedUnstopped
  <2> QED
    BY <1>1, <2>1, <2>2, <2>4
<1>4. 0 \in T /\ \A n \in 1..N : n - 1 \in T => n \in T
  BY <1>0, <1>1, <1>2, <1>3
<1>5. 0..N \subseteq T
  <2> HIDE DEF T
  <2> QED
    BY <1>0, <1>4, UptoInduction
<1> QED
  BY <1>0, <1>5 DEF Walk, W

\* A target was banked before any stop on the tape.
Cleared == restarts = 0 /\ banked # NoMark => Clear(FillOf(triggered), banked)

LEMMA CheckUnstopped ==
  ASSUME MarksInv, Recorded, Cleared, restarts = 0, Check
  PROVE  Unstopped(Walk(WalkState, Window), MaxMinute + 1)
<1>1. /\ Typed /\ WalkState \in Walks /\ MarksOK(WalkState.triggered, WalkState.banked)
      /\ WalkState.decision = Undecided
  BY CheckWalks DEF Check, MarksInv
<1>2. Unstopped(WalkState, 0)
  <2>1. ~Waiting(WalkState) => FillOf(triggered) \in Nat
    BY <1>1 DEF Waiting, WalkState, FillOf, Typed, Times, Minutes
  <2>2. WalkState.triggered = triggered /\ WalkState.banked = banked
    BY DEF WalkState
  <2> QED
    BY <1>1, <2>1, <2>2 DEF Unstopped, Cleared, Undecided
<1> QED
  BY <1>1, <1>2, WalkUnstopped

LEMMA ClearedStep ==
  MarksInv /\ Recorded /\ Cleared /\ [Next]_vars => Cleared'
<1> SUFFICES ASSUME MarksInv, Recorded, Cleared, [Next]_vars, restarts' = 0,
                    banked' # NoMark
             PROVE  Clear(FillOf(triggered), banked)'
  BY DEF Cleared
<1>0. Typed /\ now \in Nat /\ tape \in Windows /\ plan' = plan
  BY StaysSeen DEF MarksInv, Typed, Minutes
<1>1. restarts = 0
  BY <1>0 DEF Next, Tick, NextMinute, Check, ForceClose, PersistOutcome, MarkTriggered,
     MarkTp1Touched, Crash, Resume, FeedStart, vars, Typed
\* Minutes before the current one are final.
<1>2. /\ now <= now' /\ now' \in Nat
      /\ \A m \in Minutes : m < now => tape'[m] = tape[m]
  <2>1. CASE \E p \in Prices : Tick(p)
    BY <1>0, <2>1 DEF Tick, Windows, Minutes
  <2>2. CASE NextMinute
    BY <1>0, <2>2 DEF NextMinute
  <2>3. CASE UNCHANGED <<now, tape>>
    BY <1>0, <2>3
  <2> QED
    BY <2>1, <2>2, <2>3 DEF Next, Check, ForceClose, PersistOutcome, MarkTriggered,
       MarkTp1Touched, Crash, Resume, FeedStart, vars, market
<1>3. \A fill \in Times, d \in Minutes : Clear(fill, d) => Clear(fill, d)'
  <2> SUFFICES ASSUME NEW fill \in Times, NEW d \in Minutes, Clear(fill, d)
               PROVE  Clear(fill, d)'
    OBVIOUS
  <2>1. d \in Int /\ fill \in Int /\ fill < d /\ d <= now'
    BY <1>0, <1>2 DEF Clear, Minutes, Times, NoMark
  <2>2. Favourable(tape[d], Tp1)'
    <3>1. Tp1 \in Prices
      BY DEF Prices, Sl, Tp1, Tp2
    <3> QED
      BY <3>1, StaysSeen DEF Clear
  <2>3. \A m \in fill + 1..d - 1 : ~Adverse(tape[m], Sl)'
    <3> TAKE m \in fill + 1..d - 1
    <3>1. m \in Minutes /\ m < now
      BY <1>0, <2>1, MonitorAssumption DEF Clear, Minutes, Times, NoMark
    <3>2. ~Adverse(tape[m], Sl) /\ tape'[m] = tape[m]
      BY <1>2, <3>1 DEF Clear
    <3> QED
      BY <1>0, <3>2 DEF Adverse, Price
  <2> QED
    BY <2>1, <2>2, <2>3 DEF Clear
<1>4. Clear(FillOf(triggered'), banked')
  <2>1. CASE Check
    <3> DEFINE w == Walk(WalkState, Window)
    <3>1. Unstopped(w, MaxMinute + 1) /\ w.banked = banked' /\ w.triggered = triggered'
      BY <1>1, <2>1, CheckUnstopped DEF Check
    <3> HIDE DEF w
    <3> QED
      BY <3>1 DEF Unstopped
  <2>2. CASE ~Check
    <3>1. triggered' = triggered /\ banked' = banked
      BY <1>1, <2>2 DEF Next, Tick, NextMinute, ForceClose, PersistOutcome, MarkTriggered,
         MarkTp1Touched, Crash, Resume, FeedStart, vars, tracked, Recorded, NoMark
    <3> QED
      BY <1>1, <3>1 DEF Cleared
  <2> QED
    BY <2>1, <2>2
<1>5. banked' \in Minutes /\ FillOf(triggered') \in Times /\ FillOf(triggered)' = FillOf(triggered')
  <2>1. banked' \in Times /\ triggered' \in Times
    BY MarksStep DEF MarksInv, Typed
  <2> QED
    BY <1>0, <2>1, MonitorAssumption DEF FillOf, Times, Minutes
<1> QED
  BY <1>3, <1>4, <1>5 DEF Clear

(***************************************************************************)
(* Stops are honoured: in a process that has tracked the signal since it   *)
(* was emitted, the first check that can see that the market was at the    *)
(* stop after the fill and before the first target resolves the signal as  *)
(* stopped, whatever half-formed candles earlier checks had walked.        *)
(***************************************************************************)
THEOREM StopHonouredHolds ==
  Spec => StopHonoured
<1> DEFINE StopSeen == Check /\ restarts = 0 /\ (plan.level => triggered' # NoMark)
                     /\ StoppedOnTape(IF plan.level THEN triggered' ELSE 0)
           Inv == MarksInv /\ Recorded /\ Cleared
<1>1. Init => Inv
  BY MarksInit, RecordedInit DEF Cleared, Init
<1>2. Inv /\ [Next]_vars => Inv'
  BY MarksStep, RecordedStep, ClearedStep
<1>3. Inv /\ [Next]_vars => [StopSeen => decision' = "SL_HIT"]_vars
  <2> SUFFICES ASSUME Inv, StopSeen PROVE decision' = "SL_HIT"
    OBVIOUS
  <2> DEFINE w == Walk(WalkState, Window)
  <2>1. w \in Walks /\ Follows(WalkState, w) /\ Typed
    BY CheckWalks DEF Check, MarksInv
  <2>2. Unstopped(w, MaxMinute + 1)
    BY CheckUnstopped
  <2>3. /\ triggered' = w.triggered
        /\ \/ decision' = w.decision
           \/ w.decision = Undecided /\ Waiting(w)
    BY DEF Check
  <2> HIDE DEF w
  <2>4. ~Waiting(w) /\ StoppedOnTape(FillOf(w.triggered)) /\ FillOf(w.triggered) \in Nat
    BY <2>1, <2>3 DEF Waiting, FillOf, Walks, Times, Minutes
  <2>5. \A d \in Minutes : ~Clear(FillOf(w.triggered), d)
    BY <2>1, <2>4, ClearIsNotStopped
  <2>6. w.banked = NoMark
    BY <2>1, <2>2, <2>5 DEF Unstopped, Walks, Times
  <2>7. w.decision # Undecided
    <3>1. PICK m \in FillOf(w.triggered) + 1..MaxMinute : Adverse(tape[m], Sl)
      BY <2>4 DEF StoppedOnTape
    <3>2. m \in FillOf(w.triggered) + 1..(MaxMinute + 1) - 1
      BY <2>4, MonitorAssumption
    <3> QED
      BY <2>2, <2>4, <2>6, <3>1, <3>2 DEF Unstopped
  <2>8. w.decision # "TP1_HIT"
    BY <2>2, <2>5 DEF Unstopped
  <2>9. w.decision = "SL_HIT"
    <3>1. StageOf(w.triggered, w.banked) = Live
      BY <2>4, <2>6 DEF StageOf, Waiting
    <3> QED
      BY <2>1, <2>7, <2>8, <3>1 DEF Follows, WalkFrom, WalkFromLive, WalkFromBanked, AfterTp1,
         BankedOutcomes, Pending, Live, Banked, Undecided, NotTriggered
  <2> QED
    BY <2>3, <2>7, <2>9
<1> QED
  BY <1>1, <1>2, <1>3, PTL DEF Spec, StopHonoured

(***************************************************************************)
(* A walk from the marks of an earlier one comes to what a single walk     *)
(* over the whole window comes to.                                         *)
(***************************************************************************)
\* What has been walked changes nothing when it is walked again.
Settled(w, window, n) == \A i \in 0..n - 1 : Advanced(w, window, i) = w

LEMMA SettledStep ==
  ASSUME plan \in AllPlans, NEW window \in Windows, NEW w \in Walks, NEW m \in Minutes,
         MarksOK(w.triggered, w.banked), w.decision = Undecided, Settled(w, window, m),
         Advanced(w, window, m).decision = Undecided
  PROVE  Settled(Advanced(w, window, m), window, m + 1)
<1> DEFINE v == Advanced(w, window, m)
           c(i) == Candle(i, window[i])
<1>1. /\ m \in Nat /\ m # NoMark /\ w.triggered \in Int /\ w.banked \in Int
      /\ window[m] \in Bars /\ plan.level \in BOOLEAN
      /\ w = [triggered |-> w.triggered, banked |-> w.banked, decision |-> w.decision]
  BY DEF Minutes, NoMark, Walks, Times, AllPlans, Windows
<1>2. \A i \in 0..(m + 1) - 1 : i \in Nat /\ (i \in 0..m - 1 \/ i = m) /\ i # NoMark
  BY <1>1 DEF NoMark
<1>3. \A i : c(i).ts = i
  BY DEF Candle
<1>4. CASE v = w
  <2>1. Advanced(v, window, m) = v
    BY <1>4
  <2> HIDE DEF v
  <2> QED
    BY <1>2, <1>4, <2>1 DEF Settled, v
<1>5. CASE v # w
  <2>1. Effect(w, m, c(m), v) /\ v = Step(w, c(m))
    <3>1. Traded(window[m]) /\ v = Step(w, c(m))
      BY <1>5 DEF Advanced
    <3> QED
      BY <1>1, <3>1, StepCases
  <2>2. \/ Waiting(w) /\ v = [w EXCEPT !.triggered = m] /\ ~Adverse(c(m), Sl)
        \/ /\ ~Waiting(w) /\ ~FillCandle(w, c(m)) /\ w.banked = NoMark
           /\ plan.level => w.triggered < m
           /\ v = [w EXCEPT !.banked = m]
    <3>1. v.decision = Undecided
      OBVIOUS
    <3> HIDE DEF v, c
    <3> QED
      BY <1>1, <1>5, <2>1, <3>1 DEF Effect, Undecided, NotTriggered
  <2> HIDE DEF v
  <2> SUFFICES ASSUME NEW i \in 0..(m + 1) - 1, Traded(window[i])
               PROVE  Step(v, c(i)) = v
    BY DEF Settled, Advanced, v
  <2>3. v.decision = Undecided
    BY DEF v
  <2>4. v = [triggered |-> v.triggered, banked |-> v.banked, decision |-> v.decision]
    BY <1>1, <2>2
  <2>5. c(i).ts = i /\ i \in Nat /\ i <= m /\ (i \in 0..m - 1 \/ i = m)
    BY <1>1, <1>2, <1>3
  \* A candle before the fill, or up to the banked target, is ignored; the fill
  \* candle was not at the stop.
  <2>6. ASSUME FillCandle(v, c(i)), ~Adverse(c(i), Sl), ~Waiting(v)
        PROVE  Step(v, c(i)) = v
    <3> HIDE DEF c
    <3>1. [v EXCEPT !.triggered = c(i).ts] = v
      BY <2>4, <2>6 DEF FillCandle
    <3> QED
      BY <2>6, <3>1 DEF Step, StepFill
  <2>7. CASE Waiting(w) /\ v = [w EXCEPT !.triggered = m] /\ ~Adverse(c(m), Sl)
    <3>1. v.triggered = m /\ plan.level /\ ~Waiting(v)
      BY <1>1, <2>7 DEF Waiting
    <3>2. CASE i = m
      <4>1. FillCandle(v, c(i))
        BY <2>5, <3>1, <3>2 DEF FillCandle
      <4> QED
        BY <2>6, <2>7, <3>1, <3>2, <4>1
    <3>3. CASE i # m
      <4>1. Ignored(v, c(i))
        BY <1>1, <2>5, <3>1, <3>3 DEF Ignored
      <4> QED
        BY <4>1 DEF Step
    <3> QED
      BY <3>2, <3>3
  <2>8. CASE /\ ~Waiting(w) /\ ~FillCandle(w, c(m)) /\ w.banked = NoMark
             /\ plan.level => w.triggered < m
             /\ v = [w EXCEPT !.banked = m]
    <3>1. v.triggered = w.triggered /\ v.banked = m /\ ~Waiting(v)
      BY <1>1, <2>8 DEF Waiting
    <3>2. CASE FillCandle(v, c(i))
      <4>1. i \in 0..m - 1 /\ FillCandle(w, c(i)) /\ w.triggered = i
        BY <1>1, <2>5, <2>8, <3>1, <3>2 DEF FillCandle
      <4>2. Step(w, c(i)) = w
        BY <4>1 DEF Settled, Advanced
      <4>3. ~Adverse(c(i), Sl)
        <5> SUFFICES ASSUME Adverse(c(i), Sl) PROVE FALSE
          OBVIOUS
        <5>1. ~Ignored(w, c(i))
          BY <2>5, <2>8, <4>1 DEF Ignored
        <5>2. [w EXCEPT !.triggered = c(i).ts] = w
          BY <1>1, <2>5, <4>1
        <5> HIDE DEF c
        <5>3. Step(w, c(i)) = [w EXCEPT !.decision = "SL_HIT"]
          BY <2>8, <4>1, <5>1, <5>2 DEF Step, StepFill
        <5>4. [w EXCEPT !.decision = "SL_HIT"].decision = "SL_HIT"
          BY <1>1
        <5> QED
          BY <4>2, <5>3, <5>4 DEF Undecided
      <4> QED
        BY <2>6, <3>1, <3>2, <4>3
    <3>3. CASE ~FillCandle(v, c(i))
      <4>1. Ignored(v, c(i))
        BY <1>1, <2>5, <3>1, <3>3 DEF Ignored
      <4> QED
        BY <4>1 DEF Step
    <3> QED
      BY <3>2, <3>3
  <2> QED
    BY <2>2, <2>7, <2>8
<1> QED
  BY <1>4, <1>5

\* A decision stands.
LEMMA DecisionStands ==
  ASSUME NEW w \in Walks, NEW window \in Windows, NEW m \in Minutes, w.decision # Undecided
  PROVE  Advanced(w, window, m) = w
BY DEF Advanced, Step, Ignored

FreshWalk == [triggered |-> NoMark, banked |-> NoMark, decision |-> Undecided]

LEMMA FreshIs ==
  /\ FreshWalk \in Walks /\ MarksOK(FreshWalk.triggered, FreshWalk.banked)
  /\ FreshWalk.decision = Undecided
BY DEF FreshWalk, Walks, Times, MarksOK

\* As long as it is undecided, a walk is settled for what it has walked.
LEMMA WalkSettles ==
  ASSUME plan \in AllPlans, MaxMinute \in Nat, NEW window \in Windows,
         NEW k \in 0..MaxMinute + 1, Walked(FreshWalk, window)[k].decision = Undecided
  PROVE  Settled(Walked(FreshWalk, window)[k], window, k)
<1> DEFINE N == MaxMinute + 1
           W == Walked(FreshWalk, window)
           Good(n) == /\ Follows(FreshWalk, W[n])
                      /\ W[n].decision = Undecided => Settled(W[n], window, n)
           T == {n \in 0..N : Good(n)}
<1>1. /\ W \in [0..N -> Walks] /\ W[0] = FreshWalk
      /\ \A n \in 1..N : W[n] = Advanced(W[n - 1], window, n - 1)
  BY WalkedIs, FreshIs
<1> HIDE DEF W
<1>2. Good(0)
  <2>1. Follows(FreshWalk, FreshWalk)
    BY FreshIs DEF Follows, StageOf, WalkFrom, WalkFromLive, WalkFromBanked, Pending, Live,
       Banked, Undecided
  <2> QED
    BY <1>1, <2>1 DEF Settled
<1>3. ASSUME NEW n \in 1..N, Good(n - 1) PROVE Good(n)
  <2>1. n - 1 \in Minutes /\ W[n - 1] \in Walks /\ window[n - 1] \in Bars /\ (n - 1) + 1 = n
        /\ W[n] = Advanced(W[n - 1], window, n - 1)
    BY <1>1 DEF Minutes, Windows
  <2>2. Follows(FreshWalk, W[n])
    BY <1>3, <2>1, StepFollows, FreshIs DEF Advanced
  <2>3. W[n].decision = Undecided => W[n - 1].decision = Undecided
    BY <2>1, DecisionStands
  <2>4. MarksOK(W[n - 1].triggered, W[n - 1].banked)
    BY <1>3 DEF Follows
  <2>5. W[n].decision = Undecided => Settled(W[n], window, n)
    <3> SUFFICES ASSUME W[n].decision = Undecided PROVE Settled(W[n], window, n)
      OBVIOUS
    <3>1. Settled(Advanced(W[n - 1], window, n - 1), window, (n - 1) + 1)
      BY <1>3, <2>1, <2>3, <2>4, SettledStep
    <3> QED
      BY <2>1, <3>1
  <2> QED
    BY <2>2, <2>5
<1> HIDE DEF Good
<1>4. 0 \in T /\ \A n \in 1..N : n - 1 \in T => n \in T
  BY <1>2, <1>3
<1>5. 0..N \subseteq T
  <2> HIDE DEF T
  <2> QED
    BY <1>4, UptoInduction
<1>6. Good(k)
  BY <1>5
<1> QED
  BY <1>6 DEF Good, W

\* A walk goes on from what an earlier one over the same candles came to.
LEMMA WalkGoesOn ==
  ASSUME plan \in AllPlans, MaxMinute \in Nat, NEW window \in Windows,
         NEW k \in 0..MaxMinute + 1, NEW u \in Walks, u = Walked(FreshWalk, window)[k],
         u.decision = Undecided
  PROVE  Walk(u, window) = Walk(FreshWalk, window)
<1> DEFINE N == MaxMinute + 1
           F == Walked(FreshWalk, window)
           G == Walked(u, window)
           T == {n \in 0..N : G[n] = IF n <= k THEN u ELSE F[n]}
<1>1. /\ F \in [0..N -> Walks] /\ F[0] = FreshWalk
      /\ \A n \in 1..N : F[n] = Advanced(F[n - 1], window, n - 1)
  BY WalkedIs, FreshIs
<1>2. /\ G \in [0..N -> Walks] /\ G[0] = u
      /\ \A n \in 1..N : G[n] = Advanced(G[n - 1], window, n - 1)
  BY WalkedIs
<1>3. Settled(u, window, k) /\ F[k] = u
  BY WalkSettles
<1> HIDE DEF F, G
<1>4. 0 \in T
  BY <1>2
<1>5. ASSUME NEW n \in 1..N, n - 1 \in T PROVE n \in T
  <2>1. CASE n <= k
    <3>1. G[n - 1] = u /\ n - 1 \in 0..k - 1
      BY <1>5, <2>1
    <3> QED
      BY <1>2, <1>3, <2>1, <3>1 DEF Settled
  <2>2. CASE n > k
    <3>1. G[n - 1] = F[n - 1]
      BY <1>3, <1>5, <2>2
    <3> QED
      BY <1>1, <1>2, <2>2, <3>1
  <2> QED
    BY <2>1, <2>2
<1>6. 0..N \subseteq T
  <2> HIDE DEF T
  <2> QED
    BY <1>4, <1>5, UptoInduction
<1>7. G[N] = F[N]
  BY <1>3, <1>6
<1> QED
  BY <1>7 DEF Walk, F, G

\* Two windows that show the same first candles are walked alike.
LEMMA WalksAgree ==
  ASSUME MaxMinute \in Nat, NEW u \in Walks, NEW v1 \in Windows, NEW v2 \in Windows,
         NEW k \in 0..MaxMinute + 1,
         \A m \in 0..k - 1 : \A w \in Walks : Advanced(w, v1, m) = Advanced(w, v2, m)
  PROVE  Walked(u, v1)[k] = Walked(u, v2)[k]
<1> DEFINE N == MaxMinute + 1
           F == Walked(u, v1)
           G == Walked(u, v2)
           T == {n \in 0..N : n <= k => F[n] = G[n]}
<1>1. /\ F \in [0..N -> Walks] /\ F[0] = u
      /\ \A n \in 1..N : F[n] = Advanced(F[n - 1], v1, n - 1)
  BY WalkedIs
<1>2. /\ G \in [0..N -> Walks] /\ G[0] = u
      /\ \A n \in 1..N : G[n] = Advanced(G[n - 1], v2, n - 1)
  BY WalkedIs
<1> HIDE DEF F, G
<1>3. 0 \in T
  BY <1>1, <1>2
<1>4. ASSUME NEW n \in 1..N, n - 1 \in T PROVE n \in T
  <2> SUFFICES ASSUME n <= k PROVE F[n] = G[n]
    OBVIOUS
  <2>1. F[n - 1] = G[n - 1] /\ F[n - 1] \in Walks /\ n - 1 \in 0..k - 1
    BY <1>1, <1>4
  <2>2. Advanced(F[n - 1], v1, n - 1) = Advanced(F[n - 1], v2, n - 1)
    BY <2>1
  <2> QED
    BY <1>1, <1>2, <2>1, <2>2
<1>5. 0..N \subseteq T
  <2> HIDE DEF T
  <2> QED
    BY <1>3, <1>4, UptoInduction
<1>6. F[k] = G[k]
  BY <1>5
<1> QED
  BY <1>6 DEF F, G

\* Minutes without a candle end a walk early.
LEMMA WalkEnds ==
  ASSUME MaxMinute \in Nat, NEW u \in Walks, NEW window \in Windows, NEW k \in 0..MaxMinute + 1,
         \A m \in Minutes : m >= k => ~Traded(window[m])
  PROVE  Walk(u, window) = Walked(u, window)[k]
<1> DEFINE N == MaxMinute + 1
           F == Walked(u, window)
           T == {n \in 0..N : n >= k => F[n] = F[k]}
<1>1. /\ F \in [0..N -> Walks] /\ F[0] = u
      /\ \A n \in 1..N : F[n] = Advanced(F[n - 1], window, n - 1)
  BY WalkedIs
<1> HIDE DEF F
<1>2. 0 \in T
  OBVIOUS
<1>3. ASSUME NEW n \in 1..N, n - 1 \in T PROVE n \in T
  <2> SUFFICES ASSUME n > k PROVE F[n] = F[k]
    OBVIOUS
  <2>1. n - 1 \in Minutes /\ n - 1 >= k
    BY DEF Minutes
  <2>2. F[n] = F[n - 1]
    BY <1>1, <2>1 DEF Advanced
  <2> QED
    BY <1>3, <2>1, <2>2
<1>4. 0..N \subseteq T
  <2> HIDE DEF T
  <2> QED
    BY <1>2, <1>3, UptoInduction
<1>5. F[N] = F[k]
  BY <1>4
<1> QED
  BY <1>5 DEF Walk, F

(***************************************************************************)
(* The marks of a process that has tracked the signal since it was emitted *)
(* and only ever looked at closed candles are those of one walk.           *)
(***************************************************************************)
OnTape == [m \in Minutes |-> IF m > 0 THEN tape[m] ELSE NoBar]

TapeWalk == Walked(FreshWalk, OnTape)
TapeStep == [m \in Minutes |-> [w \in Walks |-> Advanced(w, OnTape, m)]]

ClosedMarks ==
  restarts = 0 /\ onClosedBars /\ decision = Undecided =>
    \E k \in 0..now : WalkState = TapeWalk[k]

LEMMA OnTapeType ==
  ASSUME Typed
  PROVE  OnTape \in Windows
<1>1. NoBar \in Bars
  BY DEF Bars
<1> QED
  BY <1>1 DEF OnTape, Windows, Typed

LEMMA WindowWalksTape ==
  ASSUME Typed, Recorded, restarts = 0, NEW m \in Minutes, NEW w \in Walks
  PROVE  Advanced(w, Window, m) = Advanced(w, OnTape, m)
<1>1. m \in Int /\ ~Traded(NoBar)
  BY DEF Minutes, Traded, NoBar, Sl, Tp2
<1>2. CASE Traded(Window[m])
  <2>1. OnTape[m] = Window[m]
    <3>1. m >= 1 /\ Window[m] = tape[m]
      BY <1>2, WindowIsTape
    <3> QED
      BY <1>1, <3>1 DEF OnTape
  <2> QED
    BY <2>1 DEF Advanced
<1>3. CASE ~Traded(Window[m])
  <2>1. ~Traded(OnTape[m])
    BY <1>1, <1>3, WindowIsTape DEF OnTape, Minutes
  <2> QED
    BY <1>3, <2>1 DEF Advanced
<1> QED
  BY <1>2, <1>3

\* A check on closed candles comes to what one walk over them comes to.
LEMMA CheckIsOneWalk ==
  ASSUME MarksInv, Recorded, ClosedMarks, Check, onClosedBars', restarts = 0
  PROVE  /\ Walk(WalkState, Window) = Walk(FreshWalk, Window)
         /\ Walk(FreshWalk, Window) = TapeWalk[now]
<1>1. /\ Typed /\ plan \in AllPlans /\ MaxMinute \in Nat /\ now \in 0..MaxMinute + 1 /\ now \in Nat
      /\ Window \in Windows /\ OnTape \in Windows
      /\ WalkState \in Walks /\ WalkState.decision = Undecided /\ decision = Undecided
      /\ onClosedBars /\ ~Traded(fine[now]) /\ now \in Minutes
  BY CheckWalks, OnTapeType, MonitorAssumption DEF Check, MarksInv, Typed, Minutes, Drained
<1>2. PICK k \in 0..now : WalkState = TapeWalk[k]
  BY <1>1 DEF ClosedMarks
<1>3. k \in 0..MaxMinute + 1 /\ \A n \in 0..MaxMinute + 1 : \A m \in 0..n - 1 : m \in Minutes
  BY <1>1 DEF Minutes
<1>4. \A n \in 0..MaxMinute + 1 : Walked(FreshWalk, Window)[n] = TapeWalk[n]
  BY <1>1, <1>3, WalksAgree, WindowWalksTape, FreshIs DEF TapeWalk
<1>5. Walk(WalkState, Window) = Walk(FreshWalk, Window)
  BY <1>1, <1>2, <1>3, <1>4, WalkGoesOn
<1>6. \A m \in Minutes : m >= now => ~Traded(Window[m])
  <2> SUFFICES ASSUME NEW m \in Minutes, m >= now, Traded(Window[m]) PROVE FALSE
    OBVIOUS
  <2>1. Window[m] = tape[m] /\ m <= now
    BY <1>1, WindowIsTape
  <2>2. m = now /\ tape = fine
    BY <1>1, <2>1 DEF Recorded, Minutes
  <2> QED
    BY <1>1, <2>1, <2>2
<1>7. Walk(FreshWalk, Window) = Walked(FreshWalk, Window)[now]
  BY <1>1, <1>6, WalkEnds, FreshIs
<1> QED
  BY <1>1, <1>4, <1>5, <1>7

TapeWalked ==
  /\ TapeWalk \in [0..MaxMinute + 1 -> Walks] /\ TapeWalk[0] = FreshWalk
  /\ \A n \in 1..MaxMinute + 1 : TapeWalk[n] = TapeStep[n - 1][TapeWalk[n - 1]]

LEMMA TapeWalkIs ==
  Typed => TapeWalked
<1> SUFFICES ASSUME Typed PROVE TapeWalked
  OBVIOUS
<1>1. /\ TapeWalk \in [0..MaxMinute + 1 -> Walks] /\ TapeWalk[0] = FreshWalk
      /\ \A n \in 1..MaxMinute + 1 : TapeWalk[n] = Advanced(TapeWalk[n - 1], OnTape, n - 1)
  BY WalkedIs, OnTapeType, FreshIs, MonitorAssumption DEF TapeWalk
<1>2. ASSUME NEW n \in 1..MaxMinute + 1
      PROVE  TapeWalk[n] = TapeStep[n - 1][TapeWalk[n - 1]]
  <2>1. n - 1 \in Minutes /\ TapeWalk[n - 1] \in Walks
    BY <1>1, MonitorAssumption DEF Minutes
  <2> QED
    BY <1>1, <2>1 DEF TapeStep
<1> QED
  BY <1>1, <1>2 DEF TapeWalked

LEMMA TapeStepSame ==
  ASSUME plan' = plan, registered' = registered, NEW m \in Minutes, OnTape'[m] = OnTape[m]
  PROVE  TapeStep'[m] = TapeStep[m]
<1>1. TapeStep[m] = [w \in Walks |-> Advanced(w, OnTape, m)]
  BY DEF TapeStep
<1>2. TapeStep'[m] = [w \in Walks |-> Advanced(w, OnTape, m)']
  BY DEF TapeStep
<1>3. \A w \in Walks : Advanced(w, OnTape, m)' = Advanced(w, OnTape, m)
  BY DEF Advanced, Step, Ignored, Waiting, FillCandle, StepPending, StepFill, StepLive,
     StepRunner, Deadline, Touches, Adverse, Favourable, Price, Candle, Traded
<1> QED
  BY <1>1, <1>2, <1>3

\* The walk over the first k minutes is not touched by what happens later.
LEMMA TapeWalkSame ==
  ASSUME Typed, Typed', plan' = plan, registered' = registered, NEW k \in 0..MaxMinute + 1,
         \A m \in 0..k - 1 : tape'[m] = tape[m]
  PROVE  TapeWalk'[k] = TapeWalk[k]
<1> DEFINE N == MaxMinute + 1
           T == {n \in 0..N : n <= k => TapeWalk'[n] = TapeWalk[n]}
<1>0. MaxMinute \in Nat
  BY MonitorAssumption
<1>1. /\ TapeWalk[0] = FreshWalk
      /\ \A n \in 1..N : TapeWalk[n] = TapeStep[n - 1][TapeWalk[n - 1]]
  BY TapeWalkIs DEF TapeWalked
<1>2. /\ TapeWalk'[0] = FreshWalk
      /\ \A n \in 1..N : TapeWalk'[n] = TapeStep'[n - 1][TapeWalk'[n - 1]]
  <2>1. FreshWalk' = FreshWalk
    BY DEF FreshWalk
  <2>2. Typed' => TapeWalked'
    BY TapeWalkIs, PTL
  <2> QED
    BY <2>1, <2>2 DEF TapeWalked
<1>3. 0 \in T
  BY <1>0, <1>1, <1>2
<1>4. ASSUME NEW n \in 1..N, n - 1 \in T PROVE n \in T
  <2> SUFFICES ASSUME n <= k PROVE TapeWalk'[n] = TapeWalk[n]
    BY <1>4
  <2>1. n - 1 \in Minutes /\ n - 1 \in 0..k - 1 /\ TapeWalk'[n - 1] = TapeWalk[n - 1]
    BY <1>0, <1>4 DEF Minutes
  <2>2. OnTape'[n - 1] = OnTape[n - 1]
    BY <2>1 DEF OnTape
  <2>3. TapeStep'[n - 1] = TapeStep[n - 1]
    BY <2>1, <2>2, TapeStepSame
  <2> QED
    BY <1>1, <1>2, <2>1, <2>3
<1>5. 0..N \subseteq T
  <2> HIDE DEF T
  <2> QED
    BY <1>0, <1>3, <1>4, UptoInduction
<1> QED
  BY <1>0, <1>5

LEMMA ClosedStep ==
  MarksInv /\ Recorded /\ ClosedMarks /\ [Next]_vars => ClosedMarks'
<1> SUFFICES ASSUME MarksInv, Recorded, ClosedMarks, [Next]_vars, restarts' = 0,
                    onClosedBars', decision' = Undecided
             PROVE  \E k \in 0..now' : WalkState' = TapeWalk'[k]
  BY DEF ClosedMarks
<1>0. /\ Typed /\ Typed' /\ plan' = plan /\ now \in Minutes /\ tape \in Windows
      /\ now \in 0..MaxMinute + 1 /\ MaxMinute \in Nat
  BY StaysSeen, MarksStep, MonitorAssumption DEF MarksInv, Typed, Minutes
<1>1. restarts = 0 /\ registered' = registered /\ pc # "down"
  <2>1. restarts \in Nat
    BY <1>0 DEF Typed
  <2>2. ~Crash
    <3>1. Crash => restarts' = restarts + 1
      BY DEF Crash
    <3> QED
      BY <2>1, <3>1
  <2>3. restarts = 0
    BY <2>2 DEF Next, Tick, NextMinute, Check, ForceClose, PersistOutcome, MarkTriggered,
       MarkTp1Touched, Resume, FeedStart, vars
  <2> QED
    BY <2>3, RecordedStep DEF Recorded
<1>2. /\ now <= now' /\ now' \in Nat /\ now \in Nat
      /\ \A m \in Minutes : m < now => tape'[m] = tape[m]
  <2>1. CASE \E p \in Prices : Tick(p)
    BY <1>0, <2>1 DEF Tick, Windows, Minutes
  <2>2. CASE NextMinute
    BY <1>0, <2>2 DEF NextMinute, Minutes
  <2>3. CASE UNCHANGED <<now, tape>>
    BY <1>0, <2>3 DEF Minutes
  <2> QED
    BY <2>1, <2>2, <2>3 DEF Next, Check, ForceClose, PersistOutcome, MarkTriggered,
       MarkTp1Touched, Crash, Resume, FeedStart, vars, market
<1>3. \A k \in 0..now : k \in 0..now' /\ TapeWalk'[k] = TapeWalk[k]
  <2> TAKE k \in 0..now
  <2>1. k \in 0..MaxMinute + 1 /\ \A m \in 0..k - 1 : m \in Minutes /\ m < now
    BY <1>0, <1>2 DEF Minutes
  <2> QED
    BY <1>0, <1>1, <1>2, <2>1, TapeWalkSame
<1>4. CASE Check
  <2> DEFINE w == Walk(WalkState, Window)
  <2>1. w = TapeWalk[now]
    BY <1>1, <1>4, CheckIsOneWalk
  <2>2. w \in Walks
    BY <1>4, CheckWalks DEF Check, MarksInv
  <2>3. triggered' = w.triggered /\ banked' = w.banked /\ decision' \in {w.decision, NotTriggered}
    BY <1>4 DEF Check
  <2> HIDE DEF w
  <2>4. WalkState' = w
    BY <2>2, <2>3 DEF WalkState, Walks, Undecided, NotTriggered
  <2> QED
    BY <1>0, <1>2, <1>3, <2>1, <2>4
<1>5. CASE ~Check
  <2>1. triggered' = triggered /\ banked' = banked /\ decision = Undecided /\ onClosedBars
    <3>1. ~ForceClose
      BY DEF ForceClose, ForcedOutcome, Undecided, NotTriggered
    <3>2. ~Crash /\ ~Resume
      <4>1. restarts \in Nat
        BY <1>0 DEF Typed
      <4>2. Crash => restarts' = restarts + 1
        BY DEF Crash
      <4>3. ~Resume
        BY <1>1 DEF Resume
      <4> QED
        BY <4>1, <4>2, <4>3
    <3> QED
      BY <1>5, <3>1, <3>2 DEF Next, Tick, NextMinute, PersistOutcome, MarkTriggered,
         MarkTp1Touched, FeedStart, vars, tracked
  <2>2. WalkState' = WalkState
    BY <2>1 DEF WalkState, Undecided
  <2> QED
    BY <1>1, <1>3, <2>1, <2>2 DEF ClosedMarks
<1> QED
  BY <1>4, <1>5

(***************************************************************************)
(* "Stateless re-walk": checks that never saw a half-formed candle come to *)
(* what one walk over the whole window from scratch comes to.              *)
(***************************************************************************)
THEOREM ReplayAgreesHolds ==
  Spec => ReplayAgrees
<1> DEFINE Replayed == Check /\ onClosedBars' /\ restarts = 0 =>
             LET fresh == Walk([WalkState EXCEPT !.triggered = NoMark, !.banked = NoMark],
                               Window)
             IN  /\ fresh.triggered = triggered' /\ fresh.banked = banked'
                 /\ fresh.decision \in {decision', Undecided}
                 /\ fresh.decision = Undecided => decision' \in {Undecided, NotTriggered}
           Inv == MarksInv /\ Recorded /\ ClosedMarks
<1>1. Init => Inv
  <2> SUFFICES ASSUME Init PROVE ClosedMarks
    BY MarksInit, RecordedInit
  <2>1. WalkState = FreshWalk
    BY DEF Init, WalkState, FreshWalk
  <2>2. TapeWalk[0] = FreshWalk
    BY MarksInit, TapeWalkIs DEF MarksInv, TapeWalked
  <2>3. 0 \in 0..now
    BY DEF Init
  <2> QED
    BY <2>1, <2>2, <2>3 DEF ClosedMarks
<1>2. Inv /\ [Next]_vars => Inv'
  BY MarksStep, RecordedStep, ClosedStep
<1>3. Inv /\ [Next]_vars => [Replayed]_vars
  <2> SUFFICES ASSUME Inv, Check, onClosedBars', restarts = 0 PROVE Replayed
    OBVIOUS
  <2> DEFINE w == Walk(WalkState, Window)
  <2>1. [WalkState EXCEPT !.triggered = NoMark, !.banked = NoMark] = FreshWalk
    <3> DEFINE u == WalkState
    <3>1. u \in Walks /\ u.decision = Undecided
      BY CheckWalks DEF Check, MarksInv
    <3> HIDE DEF u
    <3>2. [u EXCEPT !.triggered = NoMark, !.banked = NoMark] = FreshWalk
      <4> DEFINE v == [u EXCEPT !.triggered = NoMark]
      <4>1. v = [triggered |-> NoMark, banked |-> u.banked, decision |-> Undecided]
        BY <3>1 DEF Walks
      <4> HIDE DEF v
      <4>2. [v EXCEPT !.banked = NoMark] = FreshWalk
        BY <4>1 DEF FreshWalk
      <4> QED
        BY <4>2 DEF v
    <3> QED
      BY <3>2 DEF u
  <2>2. Walk([WalkState EXCEPT !.triggered = NoMark, !.banked = NoMark], Window) = w
    BY <2>1, CheckIsOneWalk
  <2>3. /\ triggered' = w.triggered /\ banked' = w.banked
        /\ \/ decision' = w.decision
           \/ decision' = NotTriggered /\ w.decision = Undecided
    BY DEF Check
  <2> HIDE DEF w
  <2> QED
    BY <2>2, <2>3
<1> QED
  BY <1>1, <1>2, <1>3, PTL DEF Spec, ReplayAgrees

(***************************************************************************)
(* The store's row implements SignalLedger.  The database of the ledger    *)
(* holds one signal of each kind, of which this one is stored: its         *)
(* outcome, or the stage that resume would restore from its marks.         *)
(***************************************************************************)
RowStage == StageOf(row.triggered, row.banked)
RowState == IF row.outcome = Undecided THEN RowStage ELSE row.outcome
RowView == [p \in Plans |-> IF p = plan /\ Stored THEN RowState ELSE "ABSENT"]

Ledger == INSTANCE SignalLedger
  WITH Signals <- Plans, ledger <- RowView,
       Level <- {p \in Plans : p.level}, Legacy <- {p \in Plans : p.legacy}

\* The monitor starts with a signal that the router has yet to store, or that
\* it has just stored.
StartsInLedger ==
  \/ Ledger!Init
  \/ RowView = [p \in Plans |-> IF p = plan THEN FirstStage(plan.level) ELSE "ABSENT"]

\* A decision on its way to the store is one that may follow the marks of the
\* row, and the row has an outcome only behind the write of it.
Agreed ==
  /\ plan \in Plans
  /\ ~Stored => pc = "idle" /\ row.triggered = NoMark /\ row.banked = NoMark
  /\ pc \in {"idle", "outcome"} => row.outcome = Undecided
  /\ pc \in {"trigger", "tp1"} => row.outcome = decision
  /\ pc = "outcome" /\ decision # Undecided => decision \in Ledger!Follows(plan, RowStage)

LEMMA AgreedInit ==
  Init => Agreed
BY DEF Init, Agreed, Undecided

\* What a walk or the end of the session makes of a stage may follow it.
LEMMA DecisionFollows ==
  ASSUME plan \in Plans, plan.level \in BOOLEAN, plan.legacy \in BOOLEAN,
         NEW stage \in TrackedStages, plan.legacy => stage # Banked,
         NEW s, NEW d,
         d # Undecided,
         \/ <<s, d>> \in WalkFrom(stage, plan.level, plan.legacy)
         \/ d = ForcedOutcome(stage)
  PROVE  d \in Ledger!Follows(plan, stage)
<1> DEFINE level == plan \in {p \in Plans : p.level}
           legacy == plan \in {p \in Plans : p.legacy}
<1>1. (level <=> plan.level) /\ (legacy <=> plan.legacy)
  OBVIOUS
<1>2. Ledger!Follows(plan, stage) =
        IF stage = "BANKED" THEN Ledger!AfterTp1(level)
        ELSE (IF stage = "PENDING" THEN Ledger!Outcomes ELSE Ledger!FilledOutcomes)
               \ (IF legacy THEN Ledger!BankedOutcomes ELSE {"TP1_HIT"})
  BY DEF Ledger!Follows, Ledger!Banked, Ledger!Pending
<1> HIDE DEF level, legacy
<1>3. CASE stage = Banked
  <2>1. Ledger!Follows(plan, stage) = Ledger!AfterTp1(level)
    BY <1>2, <1>3 DEF Banked
  <2>2. d \in AfterTp1(plan.level)
    BY <1>3 DEF WalkFrom, WalkFromBanked, ForcedOutcome, AfterTp1, BankedOutcomes, Pending,
       Banked
  <2> QED
    BY <1>1, <2>1, <2>2 DEF AfterTp1, BankedOutcomes, Ledger!AfterTp1, Ledger!BankedOutcomes
<1>4. CASE stage = Pending
  <2>1. d \in {NotTriggered, "SL_HIT"}
          \cup (IF plan.legacy THEN {"TP1_HIT"} ELSE AfterTp1(plan.level))
    BY <1>4 DEF WalkFrom, WalkFromLive, WalkFromBanked, ForcedOutcome, Pending, Banked
  <2>2. d \in Outcomes \ (IF plan.legacy THEN BankedOutcomes ELSE {"TP1_HIT"})
    BY <2>1 DEF AfterTp1, BankedOutcomes, Outcomes, NotTriggered
  <2> QED
    BY <1>1, <1>2, <1>4, <2>2 DEF Pending, BankedOutcomes, Outcomes, NotTriggered,
       Ledger!BankedOutcomes, Ledger!Outcomes, Ledger!NotTriggered
<1>5. CASE stage = Live
  <2>1. d \in {"EXPIRED", "SL_HIT"}
          \cup (IF plan.legacy THEN {"TP1_HIT"} ELSE AfterTp1(plan.level))
    BY <1>5 DEF WalkFrom, WalkFromLive, WalkFromBanked, ForcedOutcome, Pending, Banked, Live
  <2>2. d \in FilledOutcomes \ (IF plan.legacy THEN BankedOutcomes ELSE {"TP1_HIT"})
    BY <2>1 DEF AfterTp1, BankedOutcomes, FilledOutcomes, Outcomes, NotTriggered
  <2> QED
    BY <1>1, <1>2, <1>5, <2>2 DEF Live, BankedOutcomes, FilledOutcomes, Outcomes,
       NotTriggered, Ledger!BankedOutcomes, Ledger!FilledOutcomes, Ledger!Outcomes,
       Ledger!NotTriggered
<1> QED
  BY <1>3, <1>4, <1>5 DEF TrackedStages

LEMMA RowStageIs ==
  ASSUME MarksInv
  PROVE  /\ RowStage \in TrackedStages /\ (plan.legacy => RowStage # Banked)
         /\ plan.level \in BOOLEAN /\ plan.legacy \in BOOLEAN
  BY DEF MarksInv, Typed, AllPlans, Marks, MarksOK, RowStage, StageOf, TrackedStages,
     Pending, Live, Banked

LEMMA AgreedStep ==
  MarksInv /\ Agreed /\ [Next]_vars => Agreed'
<1> SUFFICES ASSUME MarksInv, Agreed, [Next]_vars PROVE Agreed'
  OBVIOUS
<1> USE DEF MarksInv, Agreed
<1>1. CASE Check
  <2>1. RowStage' = RowStage /\ plan' = plan
    BY <1>1 DEF Check, RowStage, StageOf, market
  <2>2. RowStage = StageOf(triggered, banked)
    BY <1>1 DEF Check, Drained, RowStage
  <2>3. <<StageOf(triggered', banked'), decision'>>
          \in WalkFrom(StageOf(triggered, banked), plan.level, plan.legacy)
    BY <1>1, CheckFollowsPlan
  <2>4. decision' # Undecided => decision' \in Ledger!Follows(plan, RowStage)
    BY <2>2, <2>3, RowStageIs, DecisionFollows
  <2>5. (Ledger!Follows(plan, RowStage))' = Ledger!Follows(plan, RowStage)
    BY <2>1 DEF Ledger!Follows, Ledger!AfterTp1
  <2> QED
    BY <1>1, <2>4, <2>5 DEF Check, Stored, market
<1>2. CASE ForceClose
  <2>1. RowStage' = RowStage /\ plan' = plan
    BY <1>2 DEF ForceClose, RowStage, StageOf, market
  <2>2. RowStage = StageOf(triggered, banked)
    BY <1>2 DEF ForceClose, Drained, RowStage
  <2>3. decision' = ForcedOutcome(RowStage) /\ decision' # Undecided
    BY <1>2, <2>2 DEF ForceClose, ForcedOutcome, NotTriggered, Undecided
  <2>4. decision' \in Ledger!Follows(plan, RowStage)
    BY <2>3, RowStageIs, DecisionFollows
  <2>5. (Ledger!Follows(plan, RowStage))' = Ledger!Follows(plan, RowStage)
    BY <2>1 DEF Ledger!Follows, Ledger!AfterTp1
  <2> QED
    BY <1>2, <2>4, <2>5 DEF ForceClose, Stored, market
<1>3. CASE NextMinute
  <2>1. Stored => Stored'
    BY <1>3 DEF NextMinute, Stored, Typed, Rows, Minutes
  <2>2. (Ledger!Follows(plan, RowStage))' = Ledger!Follows(plan, RowStage)
    BY <1>3 DEF NextMinute, Ledger!Follows, Ledger!AfterTp1, RowStage, StageOf
  <2> QED
    BY <1>3, <2>1, <2>2 DEF NextMinute, tracked
<1>4. CASE UNCHANGED <<plan, row, pc, decision, now>>
  <2>1. (Ledger!Follows(plan, RowStage))' = Ledger!Follows(plan, RowStage)
    BY <1>4 DEF Ledger!Follows, Ledger!AfterTp1, RowStage, StageOf
  <2> QED
    BY <1>4, <2>1 DEF Stored
<1>5. CASE PersistOutcome
  BY <1>5 DEF PersistOutcome, Stored, Typed, Rows, market, tracked
<1>6. CASE MarkTriggered
  <2>1. row'.outcome = row.outcome /\ row'.created = row.created
    BY <1>6 DEF MarkTriggered, Typed, Rows
  <2>2. row.outcome = decision /\ decision' = decision /\ plan' = plan /\ now' = now
    BY <1>6 DEF MarkTriggered, market, tracked
  <2> QED
    BY <1>6, <2>1, <2>2 DEF MarkTriggered, Stored
<1>7. CASE MarkTp1Touched
  <2>1. row'.outcome = row.outcome /\ row'.created = row.created
    BY <1>7 DEF MarkTp1Touched, Typed, Rows
  <2>2. row.outcome = decision /\ decision' = decision /\ plan' = plan /\ now' = now
    BY <1>7 DEF MarkTp1Touched, market, tracked
  <2> QED
    BY <1>7, <2>1, <2>2 DEF MarkTp1Touched, Stored
<1>8. CASE Crash
  BY <1>8 DEF Crash, Stored, market
<1>9. CASE Resume
  BY <1>9 DEF Resume, Stored, market
<1>10. (\E p \in Prices : Tick(p)) \/ FeedStart \/ UNCHANGED vars
       => UNCHANGED <<plan, row, pc, decision, now>>
  BY DEF Tick, FeedStart, vars, market, tracked
<1> QED
  BY <1>1, <1>2, <1>3, <1>4, <1>5, <1>6, <1>7, <1>8, <1>9, <1>10 DEF Next

\* Only this signal's entry of the ledger changes.
LEMMA ViewOfRow ==
  ASSUME plan' = plan, Stored, Stored', plan \in Plans, NEW v, RowState' = v
  PROVE  /\ RowView[plan] = RowState
         /\ RowView' = [RowView EXCEPT ![plan] = v]
  BY DEF RowView

\* Every step of the monitor is one of the ledger's, or leaves the row as it was.
LEMMA RowStep ==
  ASSUME MarksInv, Agreed, [Next]_vars
  PROVE  UNCHANGED RowView \/ Ledger!Next
<1> USE DEF MarksInv, Agreed
<1>0. /\ plan \in Plans /\ Plans \subseteq AllPlans /\ plan' = plan
      /\ plan.level \in BOOLEAN /\ plan.legacy \in BOOLEAN
      /\ now \in Int /\ row.created \in Int
  <2>1. plan' = plan
    BY DEF Next, Tick, NextMinute, Check, ForceClose, PersistOutcome, MarkTriggered,
       MarkTp1Touched, Crash, Resume, FeedStart, vars, market
  <2> QED
    BY <2>1, RowStageIs, MonitorAssumption DEF Typed, Minutes, Rows
<1> DEFINE Same == UNCHANGED <<row, Stored>>
<1>1. Same => UNCHANGED RowView
  BY <1>0 DEF RowView, RowState, RowStage, StageOf
<1>2. CASE NextMinute
  <2>1. Stored => Stored'
    BY <1>0, <1>2 DEF NextMinute, Stored
  <2>2. CASE ~Stored /\ Stored'
    <3>1. pc = "idle" /\ row' = row /\ row.outcome = Undecided
          /\ row.triggered = NoMark /\ row.banked = NoMark
      BY <1>2, <2>2 DEF NextMinute
    <3>2. RowState' = FirstStage(plan.level)
      BY <1>0, <3>1 DEF RowState, RowStage, StageOf, FirstStage
    <3>3. RowView[plan] = "ABSENT" /\ RowView' = [RowView EXCEPT ![plan] = FirstStage(plan.level)]
      BY <1>0, <2>2, <3>2 DEF RowView
    <3>4. Ledger!FirstStage(plan \in {p \in Plans : p.level}) = FirstStage(plan.level)
      BY <1>0 DEF FirstStage, Ledger!FirstStage, Pending, Live, Ledger!Pending, Ledger!Live
    <3>5. Ledger!Store(plan)
      BY <3>3, <3>4 DEF Ledger!Store, Ledger!Absent
    <3> QED
      BY <1>0, <3>5 DEF Ledger!Next
  <2>3. CASE Stored <=> Stored'
    BY <1>1, <1>2, <2>3 DEF NextMinute, Stored
  <2> QED
    BY <2>1, <2>2, <2>3
<1>3. CASE PersistOutcome
  <2>1. Stored /\ Stored' /\ row.outcome = Undecided /\ row'.outcome = decision
    BY <1>3 DEF PersistOutcome, Stored, Typed, Rows, market
  <2>2. CASE decision = Undecided
    <3>1. row' = row
      BY <1>3, <2>1, <2>2 DEF PersistOutcome, Typed, Rows
    <3> QED
      BY <1>1, <1>3, <3>1 DEF PersistOutcome, Stored, market
  <2>3. CASE decision # Undecided
    <3>1. RowState = RowStage /\ RowState' = decision
      BY <2>1, <2>3 DEF RowState
    <3>2. RowView[plan] = RowStage /\ RowView' = [RowView EXCEPT ![plan] = decision]
      BY <1>0, <2>1, <3>1, ViewOfRow
    <3>3. decision \in Ledger!Follows(plan, RowStage) /\ RowStage \in Ledger!TrackedStages
      BY <1>3, <2>3, RowStageIs DEF PersistOutcome, TrackedStages, Ledger!TrackedStages,
         Pending, Live, Banked, Ledger!Pending, Ledger!Live, Ledger!Banked
    <3>4. Ledger!Decide(plan)
      BY <3>2, <3>3 DEF Ledger!Decide
    <3> QED
      BY <1>0, <3>4 DEF Ledger!Next
  <2> QED
    BY <2>2, <2>3
<1>4. CASE MarkTriggered
  <2>1. Stored /\ Stored' /\ row'.outcome = row.outcome
    BY <1>4 DEF MarkTriggered, Stored, Typed, Rows, market
  <2>2. CASE row' = row
    BY <1>1, <2>1, <2>2
  <2>3. CASE row.outcome # Undecided
    BY <1>0, <2>1, <2>3 DEF RowView, RowState
  <2>4. CASE row' # row /\ row.outcome = Undecided
    <3>1. /\ row.triggered = NoMark /\ row'.triggered # NoMark /\ row'.banked = row.banked
          /\ plan.level
      <4>1. row.triggered = NoMark /\ row' = [row EXCEPT !.triggered = triggered]
        BY <1>4, <2>4 DEF MarkTriggered
      <4>2. row'.triggered = triggered /\ row'.banked = row.banked /\ triggered # NoMark
        BY <2>4, <4>1 DEF Typed, Rows
      <4> QED
        BY <4>1, <4>2 DEF Marks, MarksOK
    <3>2. row.banked = NoMark
      BY <3>1 DEF Marks, MarksOK
    <3>3. RowState = Pending /\ RowState' = Live
      BY <1>0, <2>1, <2>4, <3>1, <3>2 DEF RowState, RowStage, StageOf
    <3>4. RowView[plan] = Pending /\ RowView' = [RowView EXCEPT ![plan] = Live]
      BY <1>0, <2>1, <3>3, ViewOfRow
    <3>5. Ledger!Fill(plan)
      BY <3>4 DEF Ledger!Fill, Pending, Live, Ledger!Pending, Ledger!Live
    <3> QED
      BY <1>0, <3>5 DEF Ledger!Next
  <2> QED
    BY <2>2, <2>3, <2>4
<1>5. CASE MarkTp1Touched
  <2>1. Stored /\ Stored' /\ row'.outcome = row.outcome
    BY <1>5 DEF MarkTp1Touched, Stored, Typed, Rows, market
  <2>2. CASE row' = row
    BY <1>1, <2>1, <2>2
  <2>3. CASE row.outcome # Undecided
    BY <1>0, <2>1, <2>3 DEF RowView, RowState
  <2>4. CASE row' # row /\ row.outcome = Undecided
    <3>1. /\ row.banked = NoMark /\ row'.banked # NoMark /\ row'.triggered = row.triggered
          /\ ~plan.legacy /\ (plan.level => row.triggered # NoMark)
      <4>1. row.banked = NoMark /\ row' = [row EXCEPT !.banked = banked]
        BY <1>5, <2>4 DEF MarkTp1Touched
      <4>2. row'.banked = banked /\ row'.triggered = row.triggered /\ banked # NoMark
        BY <2>4, <4>1 DEF Typed, Rows
      <4>3. row.triggered = triggered
        BY <1>5 DEF MarkTp1Touched, Drained
      <4> QED
        BY <4>1, <4>2, <4>3 DEF Marks, MarksOK
    <3>2. RowState = Live /\ RowState' = Banked
      BY <1>0, <2>1, <2>4, <3>1 DEF RowState, RowStage, StageOf
    <3>3. RowView[plan] = Live /\ RowView' = [RowView EXCEPT ![plan] = Banked]
      BY <1>0, <2>1, <3>2, ViewOfRow
    <3>4. plan \notin {p \in Plans : p.legacy}
      BY <3>1
    <3>5. Ledger!Bank(plan)
      BY <3>3, <3>4 DEF Ledger!Bank, Banked, Live, Ledger!Banked, Ledger!Live
    <3> QED
      BY <1>0, <3>5 DEF Ledger!Next
  <2> QED
    BY <2>2, <2>3, <2>4
<1>6. CASE ~(NextMinute \/ PersistOutcome \/ MarkTriggered \/ MarkTp1Touched)
  <2>1. UNCHANGED <<row, now>>
    BY <1>6 DEF Next, Tick, Check, ForceClose, Crash, Resume, FeedStart, vars, market
  <2> QED
    BY <1>1, <2>1 DEF Stored
<1> QED
  BY <1>2, <1>3, <1>4, <1>5, <1>6

(***************************************************************************)
(* The walk, the queues of marks, the write of an outcome and the resume   *)
(* implement the ledger: whatever the candles and wherever the process     *)
(* died, the row only moves forward along the plan, its outcome is final   *)
(* and is one that may follow the marks stored before it.                  *)
(***************************************************************************)
THEOREM RowImplementsLedger ==
  Spec => StartsInLedger /\ [][Ledger!Next]_RowView
<1> DEFINE Inv == MarksInv /\ Agreed
<1>1. Init => Inv
  BY MarksInit, AgreedInit
<1>2. Inv /\ [Next]_vars => Inv'
  BY MarksStep, AgreedStep
<1>3. Init => StartsInLedger
  <2> SUFFICES ASSUME Init PROVE StartsInLedger
    OBVIOUS
  <2>1. Stored => RowState = FirstStage(plan.level)
    BY DEF Init, RowState, RowStage, StageOf, FirstStage
  <2>2. ~Stored => Ledger!Init
    BY DEF RowView, Ledger!Init, Ledger!Absent
  <2> QED
    BY <2>1, <2>2 DEF StartsInLedger, RowView
<1>4. Inv /\ [Next]_vars => [Ledger!Next]_RowView
  BY RowStep
<1> QED
  BY <1>1, <1>2, <1>3, <1>4, PTL DEF Spec
=============================================================================
