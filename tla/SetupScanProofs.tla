--------------------------- MODULE SetupScanProofs ---------------------------
(***************************************************************************)
(* Proofs about module SetupScan, for any tapes, bars and contexts: what   *)
(* the labels of the market and the gates say of each other, the geometry  *)
(* of the candidates, evaluator by evaluator, the scores when the market   *)
(* turns to the side of a candidate, and both when a context is reflected. *)
(***************************************************************************)
EXTENDS SetupScan, FiniteSetTheorems, SequenceTheorems, WellFoundedInduction, TLAPS

Voters == {"nifty", "bank", "daily", "flow", "gap"}

\* There are finitely many votes.
LEMMA FiveVoters == IsFiniteSet(Voters)
<1>1. IsFiniteSet({"gap"})
  BY FS_Singleton
<1>2. IsFiniteSet({"gap"} \cup {"flow"})
  BY <1>1, FS_AddElement
<1>4. IsFiniteSet((({"gap"} \cup {"flow"}) \cup {"daily"}) \cup {"bank"})
  BY <1>2, FS_AddElement
<1>6. Voters = (((({"gap"} \cup {"flow"}) \cup {"daily"}) \cup {"bank"}) \cup {"nifty"})
  BY DEF Voters
<1> QED
  BY <1>4, FS_AddElement, <1>6

\* The votes for a side among finitely many, counted.
LEMMA Counted ==
  ASSUME NEW votes, NEW side, IsFiniteSet(DOMAIN votes)
  PROVE  /\ IsFiniteSet({v \in DOMAIN votes : votes[v] = side})
         /\ Count(votes, side) \in Nat
<1>2. IsFiniteSet({v \in DOMAIN votes : votes[v] = side})
  BY FS_Subset
<1> QED
  BY <1>2, FS_CardinalityType DEF Count

\* One voter is not two votes.
LEMMA OneVoter ==
  ASSUME NEW votes, NEW side, NEW voter,
         \A v \in DOMAIN votes : votes[v] = side => v = voter
  PROVE  Count(votes, side) \in Nat /\ Count(votes, side) <= 1
<1> DEFINE V == {v \in DOMAIN votes : votes[v] = side}
<1>1. V \subseteq {voter}
  OBVIOUS
<1>2. IsFiniteSet({voter}) /\ Cardinality({voter}) = 1
  BY FS_Singleton
<1> QED
  BY <1>2, <1>1, FS_Subset, FS_CardinalityType DEF Count

\* Where the bias in force takes a side, the average it is confirmed by and
\* the move are not on the other one: only the VWAP can be.
LEMMA BiasConfirmed ==
  ASSUME NEW r \in Reads, NEW side \in Sides, NEW other \in Sides, other # side,
         Bias(r) = side
  PROVE  BiasV2(r) # other
<1> DEFINE votes == [vwap |-> Side(r.last, r.vwap), anchor |-> Anchor(r),
                     move |-> Moved(r.open, r.last, BiasMinPct)]
<1>1. Moved(r.open, r.last, BiasMinPct) = side
  BY DEF Bias, Sides, Long, Short, Neutral
<1>2. Anchor(r) # other
  BY DEF Bias, Anchor, Side, Sides, Long, Short, Neutral, Reads
<1>4. Count(votes, other) \in Nat /\ Count(votes, other) <= 1
  BY <1>1, <1>2, OneVoter
<1> QED
  BY <1>4 DEF BiasV2, Sides, Long, Short, Neutral, Majority

\* Two tallies that share the votes of flow, gap and daily regime, where each
\* index that takes a side in the first does not take the other in the
\* second: an unopposed side of the first is not outvoted in the second.
LEMMA Outvoted ==
  ASSUME NEW v1, NEW v2, DOMAIN v1 = Voters, DOMAIN v2 = Voters,
         NEW side \in Sides, NEW other \in Sides, other # side,
         \A v \in {"daily", "flow", "gap"} : v1[v] = v2[v],
         \A v \in {"nifty", "bank"} : v1[v] = side => v2[v] # other,
         Unopposed(v1) = side
  PROVE  Majority(v2) # other
<1> SUFFICES ASSUME Majority(v2) = other PROVE FALSE
  OBVIOUS
<1> DEFINE Of(votes, s) == {v \in DOMAIN votes : votes[v] = s}
<1>0. IsFiniteSet(Voters)
  BY FiveVoters
<1>1. /\ Count(v1, side) \in Nat /\ Count(v2, side) \in Nat
      /\ Count(v1, other) \in Nat /\ Count(v2, other) \in Nat
      /\ IsFiniteSet(Of(v1, other)) /\ IsFiniteSet(Of(v2, side)) /\ IsFiniteSet(Of(v1, side))
  <2>1. IsFiniteSet(DOMAIN v1) /\ IsFiniteSet(DOMAIN v2)
    BY <1>0
  <2>3. Count(v1, other) \in Nat /\ IsFiniteSet(Of(v1, other))
    BY <2>1, Counted
  <2>4. Count(v2, side) \in Nat /\ IsFiniteSet(Of(v2, side))
    BY <2>1, Counted
  <2>5. Count(v2, other) \in Nat
    BY <2>1, Counted
  <2> QED
    BY <2>1, Counted, <2>3, <2>4, <2>5
<1>2. Count(v1, side) >= 2 /\ Count(v1, other) = 0
  BY <1>1 DEF Unopposed, Sides, Long, Short, Neutral
<1>3. Count(v2, other) >= 2 /\ Count(v2, other) > Count(v2, side)
  BY <1>1 DEF Majority, Sides, Long, Short, Neutral
<1>4. Of(v1, other) = {}
  BY <1>1, <1>2, FS_EmptySet DEF Count
\* So the other side has its votes from the two indices alone, both of them,
\* and neither had taken this side before.
<1>5. \A v \in Voters : v2[v] = other => v \in {"nifty", "bank"}
  BY <1>4 DEF Voters
<1>6. v2["nifty"] = other
  <2> SUFFICES ASSUME v2["nifty"] # other PROVE FALSE
    OBVIOUS
  <2>1. \A v \in DOMAIN v2 : v2[v] = other => v = "bank"
    BY <1>5
  <2> QED
    BY <2>1, <1>3, OneVoter
<1>7. v2["bank"] = other
  <2> SUFFICES ASSUME v2["bank"] # other PROVE FALSE
    OBVIOUS
  <2> QED
    BY <1>5, <1>3, OneVoter
<1>8. Of(v1, side) \subseteq Of(v2, side)
  BY <1>6, <1>7 DEF Voters
<1>9. Count(v1, side) <= Count(v2, side)
  BY <1>8, <1>1, FS_Subset DEF Count
<1>10. Count(v2, other) <= 2
  <2>1. Of(v2, other) \subseteq {"nifty", "bank"}
    BY <1>5
  <2>2. IsFiniteSet({"nifty", "bank"}) /\ Cardinality({"nifty", "bank"}) = 2
    <3>1. IsFiniteSet({"bank"}) /\ Cardinality({"bank"}) = 1
      BY FS_Singleton
    <3>2. /\ IsFiniteSet({"bank"} \cup {"nifty"})
          /\ Cardinality({"bank"} \cup {"nifty"}) = Cardinality({"bank"}) + 1
      BY <3>1, FS_AddElement
    <3>3. {"nifty", "bank"} = {"bank"} \cup {"nifty"}
      OBVIOUS
    <3> QED
      BY <3>1, <3>2, <3>3
  <2> QED
    BY <2>1, <2>2, FS_Subset DEF Count
<1> QED
  BY <1>1, <1>2, <1>3, <1>9, <1>10

\* An index that is there has a read.
LEMMA PresentRead ==
  ASSUME NEW tape \in Tapes, NEW index \in IndexBases, tape.reads[index] # <<>>
  PROVE  ReadOf(tape, index) \in Reads
<1>1. tape.reads[index] \in Seq(Reads)
  BY DEF Tapes, OptionalRead
<1> QED
  BY <1>1 DEF ReadOf

\* Whatever the market, the label measured beside the one in force does not
\* contradict it.
LEMMA LabelsAgree == ASSUME NEW tape \in Tapes PROVE NeverOpposed(tape)
<1> SUFFICES ASSUME NEW side \in Sides, NEW other \in Sides, other # side,
                    Direction(tape) = side
             PROVE  DirectionV2(tape) # other
  BY DEF NeverOpposed
<1> DEFINE nifty == ReadOf(tape, "NIFTY")
           bank == ReadOf(tape, "BANKNIFTY")
           v1 == Votes(tape, Bias(nifty), Bias(bank))
           v2 == Votes(tape, BiasV2(nifty), BiasV2(bank))
<1>1. DOMAIN v1 = Voters /\ DOMAIN v2 = Voters
  BY DEF Votes, Voters
<1>2. \A v \in {"daily", "flow", "gap"} : v1[v] = v2[v]
  BY DEF Votes
<1>3. \A v \in {"nifty", "bank"} : v1[v] = side => v2[v] # other
  BY PresentRead, BiasConfirmed DEF IndexBases, Votes, ReadOf, Sides, Long, Short, Neutral
<1>4. Unopposed(v1) = side
  BY DEF Direction
<1>5. Majority(v2) # other
  BY <1>1, <1>2, <1>3, <1>4, Outvoted
<1> QED
  BY <1>5 DEF DirectionV2

\* A direction in force has no vote against it.
LEMMA NoVoteAgainst ==
  ASSUME NEW tape, NEW side \in Sides, NEW other \in Sides, other # side,
         Direction(tape) = side
  PROVE  /\ tape.reads["NIFTY"] # <<>> => Bias(ReadOf(tape, "NIFTY")) # other
         /\ tape.reads["BANKNIFTY"] # <<>> => Bias(ReadOf(tape, "BANKNIFTY")) # other
<1> DEFINE votes == Votes(tape, Bias(ReadOf(tape, "NIFTY")), Bias(ReadOf(tape, "BANKNIFTY")))
           against == {v \in DOMAIN votes : votes[v] = other}
<1>1. DOMAIN votes = Voters
  BY DEF Votes, Voters
<1>2. Count(votes, other) = 0
  BY DEF Direction, Unopposed, Sides, Long, Short, Neutral
<1>3. IsFiniteSet(against)
  BY <1>1, FiveVoters, Counted
<1>4. against = {}
  BY <1>2, <1>3, FS_EmptySet DEF Count
<1>5. votes["nifty"] # other /\ votes["bank"] # other
  BY <1>1, <1>4 DEF Voters
<1> QED
  BY <1>5 DEF Votes

\* The proxies of a base that is no finance company all vote.
LEMMA ProxiesVote ==
  ASSUME NEW base \in Bases \ {"NBFC"}
  PROVE  /\ DOMAIN Proxies(base) \subseteq 1..2
         /\ \A i \in DOMAIN Proxies(base) : Proxies(base)[i] \in Voting
<1>1. CASE base = "BANK"
  BY <1>1 DEF Proxies, IndexBases, Voting
<1>2. CASE base = "STOCK"
  BY <1>2 DEF Proxies, IndexBases, Voting
<1>3. CASE base = "NIFTY"
  BY <1>3 DEF Proxies, IndexBases, Voting
<1>4. CASE base \in IndexBases \ {"NIFTY"}
  BY <1>4 DEF Proxies, IndexBases, Voting
<1> QED
  BY <1>1, <1>2, <1>3, <1>4 DEF Bases

\* The bias a base is held to is that of an index that has a vote.
LEMMA HeldToAVote ==
  ASSUME NEW tape, NEW base \in Bases \ {"NBFC"}, IndexBias(tape, base) # Neutral
  PROVE  \E index \in Voting : /\ tape.reads[index] # <<>>
                               /\ IndexBias(tape, base) = Bias(ReadOf(tape, index))
<1> DEFINE there == {i \in DOMAIN Proxies(base) : tape.reads[Proxies(base)[i]] # <<>>}
           first == CHOOSE i \in there : \A j \in there : i <= j
<1>1. there # {}
  BY DEF IndexBias
<1>2. \E i \in there : \A j \in there : i <= j
  BY ProxiesVote, <1>1
<1>3. first \in there
  BY <1>2
<1> QED
  BY <1>3, <1>1, ProxiesVote DEF IndexBias

\* Whatever the market, a base but a finance company has a direction left.
LEMMA GatesLeaveASide == ASSUME NEW tape PROVE OpenToOneSide(tape)
<1> SUFFICES ASSUME NEW base \in Bases \ {"NBFC"}
             PROVE  \E side \in Sides :
                      /\ ~FightsIndex(base, IndexBias(tape, base), side)
                      /\ ~FightsMarket(Direction(tape), side)
  BY DEF OpenToOneSide
<1>1. Direction(tape) \in Sides \cup {Neutral}
  BY DEF Direction, Unopposed, Sides
<1>2. IndexBias(tape, base) # Neutral => IndexBias(tape, base) \in Sides
  BY HeldToAVote DEF Bias, Sides, Long, Short, Neutral
<1>3. CASE Direction(tape) = Neutral
  BY <1>2, <1>3 DEF FightsIndex, FightsMarket, Sides
<1>4. CASE Direction(tape) \in Sides
  <2>1. IndexBias(tape, base) \in {Neutral, Direction(tape)}
    <3> SUFFICES ASSUME IndexBias(tape, base) # Neutral,
                        IndexBias(tape, base) # Direction(tape)
                 PROVE  FALSE
      OBVIOUS
    <3>1. PICK index \in Voting : /\ tape.reads[index] # <<>>
                                  /\ IndexBias(tape, base) = Bias(ReadOf(tape, index))
      BY HeldToAVote
    <3> QED
      BY <3>1, <1>2, <1>4, NoVoteAgainst DEF Voting
  <2> QED
    BY <2>1, <1>4 DEF FightsIndex, FightsMarket
<1> QED
  BY <1>1, <1>3, <1>4

(***************************************************************************)
(* Breaks of structure.                                                    *)
(***************************************************************************)
Bars == [open : Int, high : Int, low : Int, close : Int]

\* A set of indices that is not empty has a greatest one.
LEMMA Greatest ==
  ASSUME NEW n \in Nat, NEW S, S \subseteq 1..n, S # {}
  PROVE  Max(S) \in S
<1> DEFINE gaps == {k \in Nat : n - k \in S}
           less == {pair \in Nat \X Nat : pair[1] < pair[2]}
<1>1. gaps \subseteq Nat /\ gaps # {}
  <2>1. PICK i \in S : TRUE
    OBVIOUS
  <2>2. n - i \in gaps
    BY <2>1
  <2> QED
    BY <2>2
<1>2. IsWellFoundedOn(less, Nat)
  BY NatLessThanWellFounded, Zenon DEF OpToRel
<1>3. PICK k \in gaps : \A j \in gaps : ~ (<<j, k>> \in less)
  BY <1>1, <1>2, WFMin
<1>4. \A j \in gaps : ~ (j < k)
  BY <1>3
<1>5. \A i \in S : n - k >= i
  BY <1>4
<1> QED
  BY <1>5 DEF Max

\* So has what is left of two without it.
LEMMA GreatestTwo ==
  ASSUME NEW n \in Nat, NEW S, S \subseteq 1..n, ~ (Cardinality(S) < 2)
  PROVE  Max(S) \in 1..n /\ Max(S \ {Max(S)}) \in 1..n
<1>1. S # {}
  BY FS_EmptySet
<1>2. Max(S) \in S
  BY <1>1, Greatest
<1>3. S \ {Max(S)} # {}
  <2> SUFFICES ASSUME S \ {Max(S)} = {} PROVE FALSE
    OBVIOUS
  <2>1. S = {Max(S)}
    BY <1>2
  <2> QED
    BY <2>1, FS_Singleton
<1> QED
  BY <1>2, <1>3, Greatest

\* The swings confirmed at a bar are those of the bars there were.
LEMMA SwingsKept ==
  ASSUME NEW bars \in Seq(Bars), NEW n \in 1..Len(bars), NEW i \in 1..n
  PROVE  LET then == SubSeq(bars, 1, n) IN
         /\ Confirmed(SwingHighs(then, 2), i, 2) = Confirmed(SwingHighs(bars, 2), i, 2)
         /\ Confirmed(SwingLows(then, 2), i, 2) = Confirmed(SwingLows(bars, 2), i, 2)
<1> DEFINE then == SubSeq(bars, 1, n)
<1>1. Len(then) = n /\ \A k \in 1..n : then[k] = bars[k]
  OBVIOUS
<1> HIDE DEF then
<1> DEFINE Peak(b, s) == \A j \in 1..2 : b[s].high > b[s - j].high /\ b[s].high >= b[s + j].high
           Trough(b, s) == \A j \in 1..2 : b[s].low < b[s - j].low /\ b[s].low <= b[s + j].low
<1>2. ASSUME NEW b, Len(b) \in Nat, i <= Len(b)
      PROVE  /\ Confirmed(SwingHighs(b, 2), i, 2) = {s \in 3..(i - 2) : Peak(b, s)}
             /\ Confirmed(SwingLows(b, 2), i, 2) = {s \in 3..(i - 2) : Trough(b, s)}
  BY <1>2 DEF Confirmed, SwingHighs, SwingLows
<1>3. ASSUME NEW s \in 3..(i - 2)
      PROVE  (Peak(then, s) <=> Peak(bars, s)) /\ (Trough(then, s) <=> Trough(bars, s))
  <2>2. /\ then[s] = bars[s]
        /\ \A j \in 1..2 : then[s - j] = bars[s - j] /\ then[s + j] = bars[s + j]
    BY <1>1
  <2> QED
    BY <2>2
<1>4. Len(then) \in Nat /\ i <= Len(then) /\ Len(bars) \in Nat /\ i <= Len(bars)
  BY <1>1
<1> HIDE DEF Peak, Trough
<1>5. /\ {s \in 3..(i - 2) : Peak(then, s)} = {s \in 3..(i - 2) : Peak(bars, s)}
      /\ {s \in 3..(i - 2) : Trough(then, s)} = {s \in 3..(i - 2) : Trough(bars, s)}
  BY <1>3
<1>6. /\ Confirmed(SwingHighs(then, 2), i, 2) = Confirmed(SwingHighs(bars, 2), i, 2)
      /\ Confirmed(SwingLows(then, 2), i, 2) = Confirmed(SwingLows(bars, 2), i, 2)
  BY <1>2, <1>4, <1>5
<1> QED
  BY <1>6 DEF then

\* A break is read off the swings confirmed at its bar and off its close.
LEMMA BreakKept ==
  ASSUME NEW bars \in Seq(Bars), NEW n \in 1..Len(bars), NEW i \in 1..n
  PROVE  BreakAt(SubSeq(bars, 1, n), i, 2) = BreakAt(bars, i, 2)
<1> DEFINE then == SubSeq(bars, 1, n)
           highs == Confirmed(SwingHighs(bars, 2), i, 2)
           lows == Confirmed(SwingLows(bars, 2), i, 2)
<1>1. /\ Confirmed(SwingHighs(then, 2), i, 2) = highs
      /\ Confirmed(SwingLows(then, 2), i, 2) = lows
  BY SwingsKept
<1>2. \A k \in 1..n : then[k] = bars[k]
  OBVIOUS
<1>3. highs \subseteq 1..n /\ lows \subseteq 1..n
  BY DEF Confirmed, SwingHighs, SwingLows
<1> HIDE DEF then, highs, lows
<1>4. CASE Cardinality(highs) < 2 \/ Cardinality(lows) < 2
  BY <1>1, <1>4 DEF BreakAt, then, highs, lows
<1>5. CASE ~ (Cardinality(highs) < 2 \/ Cardinality(lows) < 2)
  <2>1. n \in Nat
    OBVIOUS
  <2>3. /\ then[Max(highs)] = bars[Max(highs)]
        /\ then[Max(highs \ {Max(highs)})] = bars[Max(highs \ {Max(highs)})]
        /\ then[Max(lows)] = bars[Max(lows)]
        /\ then[Max(lows \ {Max(lows)})] = bars[Max(lows \ {Max(lows)})]
        /\ then[i] = bars[i]
    BY <1>2, <1>3, <1>5, <2>1, GreatestTwo
  <2> QED
    BY <1>1, <2>3 DEF BreakAt, then, highs, lows
<1> QED
  BY <1>4, <1>5

(***************************************************************************)
(* Least and greatest elements.                                            *)
(***************************************************************************)
\* Natural numbers have a least one.
LEMMA LeastNatural ==
  ASSUME NEW S, S \subseteq Nat, S # {}
  PROVE  \E k \in S : \A j \in S : k <= j
<1> DEFINE R == OpToRel(<, Nat)
<1>1. IsWellFoundedOn(R, Nat)
  BY NatLessThanWellFounded
<1>2. \A k, j \in S : j < k => <<j, k>> \in R
  BY DEF OpToRel
<1> HIDE DEF R
<1>3. PICK k \in S : \A j \in S : ~(<<j, k>> \in R)
  BY <1>1, WFMin
<1>4. \A j \in S : ~(j < k)
  BY <1>2, <1>3, Zenon
<1> QED
  BY <1>4

\* The least of some places.
LEMMA Least ==
  ASSUME NEW S, S \subseteq Nat, S # {}
  PROVE  Min(S) \in S /\ \A j \in S : Min(S) <= j
BY LeastNatural DEF Min

\* Among places there are first ones by any measure.
LEMMA BestPlace ==
  ASSUME NEW n \in Nat, NEW f \in [1..n -> Int], NEW S, S \subseteq 1..n, S # {}
  PROVE  \E i \in S : \A j \in S : f[i] <= f[j]
<1> DEFINE Has(T) == \E i \in T : \A j \in T : f[i] <= f[j]
           Bad(k) == \E T \in SUBSET (1..k) : T # {} /\ ~Has(T)
           bad == {k \in 0..n : Bad(k)}
<1> SUFFICES ASSUME ~Has(S) PROVE FALSE
  OBVIOUS
<1>1. n \in bad
  OBVIOUS
<1>2. PICK k \in bad : \A j \in bad : k <= j
  <2> HIDE DEF Bad
  <2>1. bad \subseteq Nat /\ bad # {}
    BY <1>1
  <2> HIDE DEF bad
  <2> QED
    BY <2>1, LeastNatural
<1>3. PICK T \in SUBSET (1..k) : T # {} /\ ~Has(T)
  BY <1>2
<1>4. k \in 1..n
  <2>1. k # 0
    <3>1. PICK i \in T : TRUE
      BY <1>3
    <3>2. i \in 1..k
      BY <3>1
    <3> QED
      BY <3>2
  <2> QED
    BY <2>1, <1>2
<1>5. \A R \in SUBSET (1..(k - 1)) : R # {} => Has(R)
  <2>1. k - 1 \in 0..n
    BY <1>4
  <2>2. ~ Bad(k - 1)
    <3> HIDE DEF Bad
    <3> QED
      BY <1>2, <1>4, <2>1
  <2> QED
    BY <2>2
<1>6. k \in T
  <2> SUFFICES ASSUME ~ (k \in T) PROVE FALSE
    OBVIOUS
  <2>1. T \in SUBSET (1..(k - 1))
    BY <1>4
  <2> QED
    BY <2>1, <1>3, <1>5
<1>7. T \ {k} # {}
  <2> SUFFICES ASSUME T = {k} PROVE FALSE
    BY <1>6
  <2>1. f[k] \in Int
    BY <1>4
  <2> QED
    BY <2>1, <1>3
<1>8. T \ {k} \in SUBSET (1..(k - 1))
  BY <1>4
<1>9. PICK i \in T \ {k} : \A j \in T \ {k} : f[i] <= f[j]
  BY <1>5, <1>7, <1>8
<1>10. f[i] \in Int /\ f[k] \in Int /\ \A j \in T : f[j] \in Int
  BY <1>4
<1>11. CASE f[i] <= f[k]
  BY <1>3, <1>9, <1>11
<1>12. CASE f[k] <= f[i]
  <2>1. \A j \in T : f[k] <= f[j]
    BY <1>9, <1>10, <1>12
  <2> QED
    BY <1>3, <1>6, <2>1
<1> QED
  BY <1>10, <1>11, <1>12

(***************************************************************************)
(* Scores.                                                                 *)
(***************************************************************************)
\* The points of a table are whole numbers when its entries are.
LEMMA StepsPoints ==
  ASSUME NEW n \in Nat, NEW table, DOMAIN table = 1..n,
         \A i \in 1..n : table[i][2] \in Int,
         NEW value, NEW least \in Int
  PROVE  Steps(value, table, least) \in Int
<1> DEFINE reached == {i \in DOMAIN table : value >= table[i][1]}
<1>0. reached \subseteq Nat /\ reached \subseteq 1..n
  OBVIOUS
<1>1. CASE reached = {}
  BY <1>1 DEF Steps
<1>2. CASE reached # {}
  BY <1>0, <1>2, Least DEF Steps
<1> QED
  BY <1>1, <1>2

\* A sum kept within limits grows with what is summed.
LEMMA Clamped ==
  ASSUME NEW x \in Int, NEW y \in Int, NEW lo \in Int, NEW hi \in Int, x <= y, lo <= hi
  PROVE  /\ Clamp(x, lo, hi) \in Int /\ Clamp(y, lo, hi) \in Int
         /\ Clamp(x, lo, hi) <= Clamp(y, lo, hi)
<1>1. ASSUME NEW z \in Int
      PROVE  Clamp(z, lo, hi) = IF z < lo THEN lo ELSE IF z > hi THEN hi ELSE z
  BY <1>1 DEF Min, Max, Clamp
<1> QED
  BY <1>1

\* The points are whole numbers: those of the volume,
LEMMA VolumePoints == ASSUME NEW sig, NEW ctx PROVE ScoreVolume(sig, ctx) \in Int
<1> DEFINE table == <<<<300, 15>>, <<200, 13>>, <<150, 11>>, <<120, 9>>, <<100, 8>>>>
<1>1. DOMAIN table = 1..5 /\ \A i \in 1..5 : table[i][2] \in Int
  OBVIOUS
<1> HIDE DEF table
<1>2. ASSUME NEW ratio PROVE Steps(ratio, table, 5) \in Int
  <2>1. 5 \in Nat /\ 5 \in Int
    OBVIOUS
  <2> QED
    BY <1>1, <2>1, StepsPoints
<1> QED
  BY <1>2 DEF ScoreVolume, table
\* of the reward,
LEMMA RrPoints == ASSUME NEW sig PROVE ScoreRr(sig) \in Int
<1> DEFINE table == <<<<200, 15>>, <<160, 13>>, <<130, 11>>, <<100, 9>>, <<70, 6>>>>
<1>1. DOMAIN table = 1..5 /\ \A i \in 1..5 : table[i][2] \in Int
  OBVIOUS
<1> HIDE DEF table
<1>2. ASSUME NEW ratio PROVE Steps(ratio, table, 3) \in Int
  <2>1. 5 \in Nat /\ 3 \in Int
    OBVIOUS
  <2> QED
    BY <1>1, <2>1, StepsPoints
<1> QED
  BY <1>2 DEF ScoreRr, table

\* and of the confluence.
LEMMA ConfluencePoints == ASSUME NEW sig, NEW ctx PROVE ScoreConfluence(sig, ctx) \in Int
<1> DEFINE table == <<<<3, 10>>, <<2, 8>>, <<1, 5>>>>
<1>1. DOMAIN table = 1..3 /\ \A i \in 1..3 : table[i][2] \in Int
  OBVIOUS
<1> HIDE DEF table
<1>2. ASSUME NEW met PROVE Steps(met, table, 2) \in Int
  <2>1. 3 \in Nat /\ 2 \in Int
    OBVIOUS
  <2> QED
    BY <1>1, <2>1, StepsPoints
<1> QED
  BY <1>2 DEF ScoreConfluence, table

\* What the market says for a candidate in one context it says in the other,
\* or says for it there; all else is the same.
AsAligned(sig, was, now) ==
  /\ now.index = was.index /\ now.atr = was.atr /\ now.volume = was.volume
  /\ now.cur = was.cur /\ now.c15 = was.c15 /\ now.pdh = was.pdh /\ now.pdl = was.pdl
  /\ now.pdc = was.pdc /\ now.orh = was.orh /\ now.orl = was.orl /\ now.vwap = was.vwap
  /\ now.callWall = was.callWall /\ now.putWall = was.putWall /\ now.maxPain = was.maxPain
  /\ now.oiChange = was.oiChange /\ now.vix = was.vix /\ now.time = was.time
  /\ now.edge = was.edge
  /\ now.r60 \in {was.r60, With(sig.dir)}
  /\ now.daily \in {was.daily, With(sig.dir)}
  /\ now.indexBias \in {was.indexBias, sig.dir}
  /\ now.pcr \in {was.pcr, IF sig.dir = Long THEN "BEARISH" ELSE "BULLISH"}
  /\ now.back \in {was.back, <<was.cur.close - Sign(sig.dir)>>}

\* The points that read nothing that turns.
LEMMA SamePoints ==
  ASSUME NEW sig, NEW was, NEW now, AsAligned(sig, was, now)
  PROVE  /\ ScoreVolume(sig, now) = ScoreVolume(sig, was)
         /\ ScoreConfluence(sig, now) = ScoreConfluence(sig, was)
         /\ AtrNormality(now) = AtrNormality(was)
         /\ Event15(now) = Event15(was)
         /\ MeasuredEdge(now) = MeasuredEdge(was)
         /\ ExtensionPenalty(sig, now) = ExtensionPenalty(sig, was)
<1>1. ScoreVolume(sig, now) = ScoreVolume(sig, was)
  BY DEF AsAligned, ScoreVolume
<1>2. ScoreConfluence(sig, now) = ScoreConfluence(sig, was)
  <2>1. /\ OfAtr(now, 50) = OfAtr(was, 50) /\ RoundStep(now) = RoundStep(was)
        /\ OiLevels(now) = OiLevels(was)
    BY DEF AsAligned, OfAtr, RoundStep, OiLevels
  <2>2. \A tol : InAlignedZone(sig, now, tol) <=> InAlignedZone(sig, was, tol)
    BY Zenon DEF AsAligned, InAlignedZone
  <2> QED
    BY <2>1, <2>2, Zenon DEF AsAligned, ScoreConfluence
<1>3. AtrNormality(now) = AtrNormality(was)
  BY DEF AsAligned, AtrNormality
<1>4. Event15(now) = Event15(was)
  BY DEF AsAligned, Event15
<1>5. MeasuredEdge(now) = MeasuredEdge(was)
  BY DEF AsAligned, MeasuredEdge
<1> QED
  BY <1>1, <1>2, <1>3, <1>4, <1>5, Zenon DEF AsAligned, ExtensionPenalty

\* No setup loses points by having the trend with it.
LEMMA Affinity ==
  ASSUME NEW setup \in SetupClasses
  PROVE  LET points == RegimeAffinity(setup) IN
         /\ points[1] \in Int /\ points[2] \in Int /\ points[3] \in Int
         /\ points[1] >= points[2] /\ points[1] >= points[3]
<1> DEFINE points == RegimeAffinity(setup)
           Falls == /\ points[1] \in Int /\ points[2] \in Int /\ points[3] \in Int
                    /\ points[1] >= points[2] /\ points[1] >= points[3]
<1> SUFFICES Falls
  OBVIOUS
<1>1. CASE setup \in {"LSR", "FAR"}
  <2>1. RegimeAffinity(setup) = <<13, 9, 6>>
    BY <1>1 DEF RegimeAffinity
  <2> QED
    BY <2>1
<1>2. CASE setup = "ORB"
  BY <1>2 DEF RegimeAffinity
<1>3. CASE setup = "TPE"
  BY <1>3 DEF RegimeAffinity
<1>4. CASE setup \in {"VSB", "BDS", "QCB"}
  BY <1>4 DEF RegimeAffinity
<1>5. CASE setup \in {"SRF", "DIV"}
  BY <1>5 DEF RegimeAffinity
<1>6. CASE setup \in {"VIX", "PCR"}
  BY <1>6 DEF RegimeAffinity
<1>7. CASE setup = "MAC"
  BY <1>7 DEF RegimeAffinity
<1>8. CASE setup = "OIS"
  BY <1>8 DEF RegimeAffinity
<1>9. CASE setup = "EGS"
  BY <1>9 DEF RegimeAffinity
<1> HIDE DEF Falls
<1> QED
  BY <1>1, <1>2, <1>3, <1>4, <1>5, <1>6, <1>7, <1>8, <1>9 DEF SetupClasses

\* The reads of the market that count more when they turn to the candidate.
LEMMA MorePoints ==
  ASSUME NEW sig, NEW was, NEW now, AsAligned(sig, was, now),
         sig.setup \in SetupClasses, sig.dir \in Sides, was.cur.close \in Int
  PROVE  /\ ScoreRegime(sig, was) \in Int /\ ScoreRegime(sig, now) \in Int
         /\ ScoreHtf(sig, was) \in Int /\ ScoreHtf(sig, now) \in Int
         /\ ScoreOi(sig, was) \in Int /\ ScoreOi(sig, now) \in Int
         /\ ScoreVixPcr(sig, was) \in Int /\ ScoreVixPcr(sig, now) \in Int
         /\ ScoreIndexAlignment(sig, was) \in Int /\ ScoreIndexAlignment(sig, now) \in Int
         /\ ScoreRegime(sig, was) <= ScoreRegime(sig, now)
         /\ ScoreHtf(sig, was) <= ScoreHtf(sig, now)
         /\ ScoreOi(sig, was) <= ScoreOi(sig, now)
         /\ ScoreVixPcr(sig, was) <= ScoreVixPcr(sig, now)
         /\ ScoreIndexAlignment(sig, was) <= ScoreIndexAlignment(sig, now)
<1>1. /\ ScoreRegime(sig, was) \in Int /\ ScoreRegime(sig, now) \in Int
      /\ ScoreRegime(sig, was) <= ScoreRegime(sig, now)
  <2> DEFINE points == RegimeAffinity(sig.setup)
  <2> HIDE DEF points
  <2> QED
    BY Affinity DEF AsAligned, ScoreRegime, points
<1>3. /\ ScoreOi(sig, was) \in Int /\ ScoreOi(sig, now) \in Int
      /\ ScoreOi(sig, was) <= ScoreOi(sig, now)
  BY DEF AsAligned, ScoreOi, None, Sign, Sides, Long, Short
<1>4. /\ ScoreVixPcr(sig, was) \in Int /\ ScoreVixPcr(sig, now) \in Int
      /\ ScoreVixPcr(sig, was) <= ScoreVixPcr(sig, now)
  <2> DEFINE Vix(ctx) == IF ctx.vix > 0 /\ ctx.vix < 14 /\ sig.setup \in LowVixFavoured THEN 2
                         ELSE IF ctx.vix > 18 /\ sig.setup \in HighVixFavoured THEN 2 ELSE 0
             Crowd(ctx) == IF ctx.pcr = "NONE" THEN 0
                           ELSE IF (ctx.pcr = "BEARISH") = (sig.dir = Long) THEN 2 ELSE -2
  <2>1. Vix(now) = Vix(was) /\ Vix(was) \in Int
    BY DEF AsAligned
  <2>2. Crowd(was) \in Int /\ Crowd(now) \in Int /\ Crowd(was) <= Crowd(now)
    BY DEF AsAligned, Sides, Long, Short
  <2> HIDE DEF Vix, Crowd
  <2>3. /\ 4 + Vix(was) + Crowd(was) \in Int /\ 4 + Vix(now) + Crowd(now) \in Int
        /\ 4 + Vix(was) + Crowd(was) <= 4 + Vix(now) + Crowd(now) /\ 0 \in Int /\ 8 \in Int /\ 0 <= 8
    BY <2>1, <2>2
  <2>4. /\ Clamp(4 + Vix(was) + Crowd(was), 0, 8) \in Int
        /\ Clamp(4 + Vix(now) + Crowd(now), 0, 8) \in Int
        /\ Clamp(4 + Vix(was) + Crowd(was), 0, 8) <= Clamp(4 + Vix(now) + Crowd(now), 0, 8)
    BY <2>3, Clamped
  <2> QED
    BY <2>4 DEF ScoreVixPcr, Vix, Crowd
<1>5. /\ ScoreIndexAlignment(sig, was) \in Int /\ ScoreIndexAlignment(sig, now) \in Int
      /\ ScoreIndexAlignment(sig, was) <= ScoreIndexAlignment(sig, now)
  BY DEF AsAligned, ScoreIndexAlignment, Sides, Long, Short, Neutral
<1> QED
  BY <1>1, <1>3, <1>4, <1>5 DEF AsAligned, ScoreHtf

\* What is added for the ledger and for the extension is a whole number.
LEMMA OtherPoints ==
  ASSUME NEW in \in Judgements
  PROVE  /\ AtrNormality(in.ctx) \in Int /\ MeasuredEdge(in.ctx) \in Int
         /\ PhaseAffinity(in.sig.setup, Phase(in.ctx.time)) \in Int
         /\ ExtensionPenalty(in.sig, in.ctx) \in Int
         /\ 30 * Min({2, in.nth - 1}) \in Int
<1> DEFINE sig == in.sig
           ctx == in.ctx
<1>1. /\ ctx.edge \in Optional(Int) /\ ctx.vwap \in Optional(Nat) /\ ctx.atr \in Nat
      /\ sig.entry \in Nat /\ sig.dir \in Sides /\ in.nth \in Nat
  BY DEF Judgements, Contexts
<1> HIDE DEF sig, ctx
<1>2. AtrNormality(ctx) \in Int
  BY DEF AtrNormality
<1>3. MeasuredEdge(ctx) \in Int
  <2>1. CASE ctx.edge = None
    BY <2>1 DEF MeasuredEdge
  <2>2. CASE ctx.edge # None
    <3>1. ctx.edge[1] \in Int
      BY <1>1, <2>2 DEF Optional, None
    <3> DEFINE lo == -10 * EdgeCap
               hi == 10 * EdgeCap
    <3>2. lo \in Int /\ hi \in Int /\ lo <= hi
      BY DEF EdgeCap
    <3>3. MeasuredEdge(ctx) = Clamp(ctx.edge[1], lo, hi)
      BY <2>2 DEF MeasuredEdge
    <3> HIDE DEF lo, hi
    <3>4. ctx.edge[1] <= ctx.edge[1]
      BY <3>1
    <3> QED
      BY <3>1, <3>2, <3>3, <3>4, Clamped
  <2> QED
    BY <2>1, <2>2
<1>4. PhaseAffinity(sig.setup, Phase(ctx.time)) \in Int
  <2> DEFINE row == CASE Family(sig.setup) = "BREAKOUT" -> <<80, 20, 50>>
                      [] Family(sig.setup) = "REVERSION" -> <<30, 80, 50>>
                      [] Family(sig.setup) = "TREND" -> <<50, 20, 80>>
                      [] OTHER -> <<50, 50, 50>>
  <2> HIDE DEF row
  <2> QED
    BY DEF PhaseAffinity, Phase, row
<1>5. ExtensionPenalty(sig, ctx) \in Int
  <2>1. CASE ctx.vwap = None \/ ctx.atr <= 0
    BY <2>1 DEF ExtensionPenalty
  <2>2. CASE ~ (ctx.vwap = None \/ ctx.atr <= 0)
    <3> DEFINE beyond == Sign(sig.dir) * (sig.entry - ctx.vwap[1])
               part == (25 * (2 * beyond - ctx.atr)) \div ctx.atr
    <3>1. ctx.vwap[1] \in Nat
      BY <1>1, <2>2 DEF Optional, None
    <3>2. Sign(sig.dir) \in {1, -1}
      BY DEF Sign
    <3>3. beyond \in Int
      BY <1>1, <3>1, <3>2
    <3> HIDE DEF beyond
    <3>4. ctx.atr \in Nat /\ ctx.atr > 0
      BY <1>1, <2>2
    <3>5. 25 * (2 * beyond - ctx.atr) \in Int
      BY <3>3, <3>4
    <3>6. part \in Int
      BY <3>4, <3>5
    <3> HIDE DEF part
    <3>7. Min({100, part}) \in Int
      BY <3>6 DEF Min
    <3> QED
      BY <3>7, <2>2 DEF ExtensionPenalty, beyond, part
  <2> QED
    BY <2>1, <2>2
<1>6. 30 * Min({2, in.nth - 1}) \in Int
  BY <1>1 DEF Min
<1> QED
  BY <1>2, <1>3, <1>4, <1>5, <1>6 DEF sig, ctx

\* The greatest of four.
LEMMA FourGreatest ==
  ASSUME NEW a \in Int, NEW b \in Int, NEW c \in Int, NEW d \in Int
  PROVE  /\ Max({a, b, c, d}) \in {a, b, c, d}
         /\ \A x \in {a, b, c, d} : x <= Max({a, b, c, d})
<1>1. \E x \in {a, b, c, d} : \A y \in {a, b, c, d} : x >= y
  <2> DEFINE p == IF a >= b THEN a ELSE b
             q == IF c >= d THEN c ELSE d
  <2>1. p \in {a, b, c, d} /\ q \in {a, b, c, d} /\ p \in Int /\ q \in Int
        /\ p >= a /\ p >= b /\ q >= c /\ q >= d
    OBVIOUS
  <2> HIDE DEF p, q
  <2>2. CASE p >= q
    BY <2>1, <2>2
  <2>3. CASE q >= p
    BY <2>1, <2>3
  <2> QED
    BY <2>1, <2>2, <2>3
<1> QED
  BY <1>1 DEF Max

\* The establishment of the trend grows with each of its four reads.
LEMMA Established ==
  ASSUME NEW sig, NEW was, NEW now, AsAligned(sig, was, now),
         sig.setup \in SetupClasses, sig.dir \in Sides, was.cur.close \in Int
  PROVE  /\ TrendEstablishment(sig, was) \in Int /\ TrendEstablishment(sig, now) \in Int
         /\ TrendEstablishment(sig, was) <= TrendEstablishment(sig, now)
<1> DEFINE Regime(ctx) == 10 * ScoreRegime(sig, ctx)
           Htf(ctx) == IF sig.htf \/ ctx.daily = With(sig.dir) THEN 150 ELSE 60
           Structured(ctx) ==
             IF Event15(ctx) = "none" THEN 60
             ELSE IF Event15(ctx) = (IF sig.dir = Long THEN "BOS_UP" ELSE "BOS_DOWN") THEN 150
             ELSE IF Event15(ctx) = (IF sig.dir = Long THEN "CHOCH_UP" ELSE "CHOCH_DOWN") THEN 105
             ELSE 0
           Index(ctx) == IF ctx.indexBias = Neutral THEN 90
                         ELSE IF ctx.indexBias = sig.dir THEN 150 ELSE 0
<1>1. /\ Regime(was) \in Int /\ Regime(now) \in Int /\ Regime(was) <= Regime(now)
  BY MorePoints
<1>2. /\ Htf(was) \in Int /\ Htf(now) \in Int /\ Htf(was) <= Htf(now)
  BY DEF AsAligned
<1>3. /\ Structured(was) \in Int /\ Structured(now) \in Int /\ Structured(was) <= Structured(now)
  BY SamePoints
<1>4. /\ Index(was) \in Int /\ Index(now) \in Int /\ Index(was) <= Index(now)
  BY DEF AsAligned, Sides, Long, Short, Neutral
<1>5. \A ctx : TrendEstablishment(sig, ctx) = Max({Regime(ctx), Htf(ctx), Structured(ctx), Index(ctx)})
  BY DEF TrendEstablishment
<1> HIDE DEF Regime, Htf, Structured, Index
<1> DEFINE Four(ctx) == {Regime(ctx), Htf(ctx), Structured(ctx), Index(ctx)}
<1>6. /\ Max(Four(was)) \in Four(was) /\ \A x \in Four(now) : x <= Max(Four(now))
      /\ Max(Four(now)) \in Four(now)
  BY <1>1, <1>2, <1>3, <1>4, FourGreatest
<1>8. Max(Four(was)) \in Int /\ Max(Four(now)) \in Int /\ Max(Four(was)) <= Max(Four(now))
  BY <1>1, <1>2, <1>3, <1>4, <1>6
<1> QED
  BY <1>5, <1>8

\* What a judgement is about.
LEMMA JudgedTypes ==
  ASSUME NEW in \in Judgements
  PROVE  /\ in.ctx \in Contexts /\ in.ctx.cur.close \in Nat
         /\ in.sig.setup \in SetupClasses /\ in.sig.dir \in Sides
<1>1. in.ctx \in Contexts /\ in.sig.setup \in SetupClasses /\ in.sig.dir \in Sides
  BY DEF Judgements
<1>2. in.ctx.cur \in Candles
  BY <1>1 DEF Contexts
<1>3. in.ctx.cur.close \in Nat
  BY <1>2 DEF Candles
<1> QED
  BY <1>1, <1>3

\* A sum of points grows with its parts.
LEMMA ScoreGrows ==
  ASSUME NEW in \in Judgements, NEW now, AsAligned(in.sig, in.ctx, now)
  PROVE  Score(in.sig, in.ctx) <= Score(in.sig, now)
<1> DEFINE sig == in.sig
           was == in.ctx
           Sum(ctx) == 10 * ( ScoreRegime(sig, ctx) + ScoreHtf(sig, ctx) + ScoreVolume(sig, ctx)
                            + ScoreRr(sig) + ScoreConfluence(sig, ctx) + ScoreOi(sig, ctx)
                            + ScoreVixPcr(sig, ctx) + ScoreStructure(sig, ctx)
                            + ScoreIndexAlignment(sig, ctx)) + MeasuredEdge(ctx)
<1>1. sig.setup \in SetupClasses /\ sig.dir \in Sides /\ was.cur.close \in Int
  BY JudgedTypes
<1>2. AtrNormality(was) \in Int /\ MeasuredEdge(was) \in Int
  BY OtherPoints
<1>3. AsAligned(sig, was, now)
  OBVIOUS
<1> HIDE DEF sig, was
<1>4. /\ ScoreStructure(sig, was) \in Int /\ ScoreStructure(sig, now) = ScoreStructure(sig, was)
  BY <1>2, <1>3, SamePoints DEF ScoreStructure
<1>5. /\ ScoreVolume(sig, was) \in Int /\ ScoreRr(sig) \in Int /\ ScoreConfluence(sig, was) \in Int
  BY VolumePoints, RrPoints, ConfluencePoints
<1>6. Sum(was) \in Int /\ Sum(now) \in Int /\ Sum(was) <= Sum(now)
  BY <1>1, <1>2, <1>3, <1>4, <1>5, MorePoints, SamePoints
<1>7. \A ctx : Score(sig, ctx) = Clamp(Sum(ctx), 0, 1000)
  BY DEF Score
<1> HIDE DEF Sum
<1>8. 0 \in Int /\ 1000 \in Int /\ 0 <= 1000
  OBVIOUS
<1>9. Clamp(Sum(was), 0, 1000) <= Clamp(Sum(now), 0, 1000)
  BY <1>6, <1>8, Clamped
<1> QED
  BY <1>7, <1>9 DEF sig, was

\* So does the second sum, whatever the freshness adds to it.
LEMMA ScoreV2Grows ==
  ASSUME NEW in \in Judgements, NEW now, AsAligned(in.sig, in.ctx, now),
         Freshness(in.sig, in.ctx, in.age) <= Freshness(in.sig, now, in.age)
  PROVE  ScoreV2(in.sig, in.ctx, in.age, in.nth) <= ScoreV2(in.sig, now, in.age, in.nth)
<1> DEFINE sig == in.sig
           was == in.ctx
           Fresh(ctx) == Freshness(sig, ctx, in.age)
           Apart(ctx) == PhaseAffinity(sig.setup, Phase(ctx.time))
           Again == 30 * Min({2, in.nth - 1})
           Sum(ctx) == TrendEstablishment(sig, ctx)
                       + 10 * ( AtrNormality(ctx) + ScoreVolume(sig, ctx) + ScoreRr(sig)
                              + ScoreConfluence(sig, ctx) + ScoreOi(sig, ctx) + ScoreVixPcr(sig, ctx))
                       + Apart(ctx) + Fresh(ctx) - Again
                       + ExtensionPenalty(sig, ctx) + MeasuredEdge(ctx)
<1>1. sig.setup \in SetupClasses /\ sig.dir \in Sides /\ was.cur.close \in Int
  BY JudgedTypes
<1>2. /\ AtrNormality(was) \in Int /\ MeasuredEdge(was) \in Int /\ Apart(was) \in Int
      /\ ExtensionPenalty(sig, was) \in Int /\ Again \in Int
  BY OtherPoints
<1>3. AsAligned(sig, was, now) /\ Fresh(was) <= Fresh(now)
  OBVIOUS
<1>4. Fresh(was) \in Int /\ Fresh(now) \in Int
  BY DEF Freshness
<1>5. Apart(now) = Apart(was)
  BY DEF AsAligned
<1> HIDE DEF sig, was, Fresh, Apart, Again
<1>8. Sum(was) \in Int /\ Sum(now) \in Int /\ Sum(was) <= Sum(now)
  <2> DEFINE Ten(ctx) == AtrNormality(ctx) + ScoreVolume(sig, ctx) + ScoreRr(sig)
                         + ScoreConfluence(sig, ctx) + ScoreOi(sig, ctx) + ScoreVixPcr(sig, ctx)
  <2>1. /\ ScoreOi(sig, was) \in Int /\ ScoreOi(sig, now) \in Int
        /\ ScoreVixPcr(sig, was) \in Int /\ ScoreVixPcr(sig, now) \in Int
        /\ ScoreOi(sig, was) <= ScoreOi(sig, now)
        /\ ScoreVixPcr(sig, was) <= ScoreVixPcr(sig, now)
    BY <1>1, <1>3, MorePoints
  <2>2. /\ AtrNormality(now) = AtrNormality(was) /\ ScoreVolume(sig, now) = ScoreVolume(sig, was)
        /\ ScoreConfluence(sig, now) = ScoreConfluence(sig, was)
        /\ ExtensionPenalty(sig, now) = ExtensionPenalty(sig, was)
        /\ MeasuredEdge(now) = MeasuredEdge(was)
    BY <1>3, SamePoints
  <2>3. Ten(was) \in Int /\ Ten(now) \in Int /\ Ten(was) <= Ten(now)
    BY <1>2, VolumePoints, RrPoints, ConfluencePoints, <2>1, <2>2
  <2> HIDE DEF Ten
  <2>4. \A ctx : Sum(ctx) = TrendEstablishment(sig, ctx) + 10 * Ten(ctx) + Apart(ctx) + Fresh(ctx)
                            - Again + ExtensionPenalty(sig, ctx) + MeasuredEdge(ctx)
    BY DEF Ten
  <2> HIDE DEF Sum
  <2> QED
    BY <1>2, <1>3, <1>4, <1>5, <1>1, Established, <2>2, <2>3, <2>4
<1>9. \A ctx : ScoreV2(sig, ctx, in.age, in.nth) = Clamp(Sum(ctx), 0, 1000)
  BY DEF ScoreV2, Apart, Fresh, Again
<1> HIDE DEF Sum
<1>10. 0 \in Int /\ 1000 \in Int /\ 0 <= 1000
  OBVIOUS
<1>11. Clamp(Sum(was), 0, 1000) <= Clamp(Sum(now), 0, 1000)
  BY <1>8, <1>10, Clamped
<1> QED
  BY <1>9, <1>11 DEF sig, was

\* The contexts the property compares are aligned ones.
LEMMA AlignedAre ==
  ASSUME NEW in \in Judgements, NEW now \in Aligned(in.ctx, in.sig.dir)
  PROVE  AsAligned(in.sig, in.ctx, now) /\ now.direction = in.ctx.direction
<1> DEFINE ctx == in.ctx
           side == in.sig.dir
<1>1. ctx \in Contexts
  BY JudgedTypes
<1>2. CASE now = [ctx EXCEPT !.r60 = With(side)]
  BY <1>1, <1>2 DEF AsAligned, Contexts
<1>3. CASE now = [ctx EXCEPT !.daily = With(side)]
  BY <1>1, <1>3 DEF AsAligned, Contexts
<1>4. CASE now = [ctx EXCEPT !.indexBias = side]
  BY <1>1, <1>4 DEF AsAligned, Contexts
<1>5. CASE now = [ctx EXCEPT !.pcr = IF side = Long THEN "BEARISH" ELSE "BULLISH"]
  BY <1>1, <1>5 DEF AsAligned, Contexts
<1>6. CASE now = [ctx EXCEPT !.back = <<ctx.cur.close - Sign(side)>>]
  BY <1>1, <1>6 DEF AsAligned, Contexts
<1> QED
  BY <1>2, <1>3, <1>4, <1>5, <1>6 DEF Aligned

\* The direction turned to the candidate.
LEMMA TurnedIs ==
  ASSUME NEW in \in Judgements, NEW now, now = [in.ctx EXCEPT !.direction = in.sig.dir]
  PROVE  AsAligned(in.sig, in.ctx, now) /\ now.direction = in.sig.dir
<1>1. in.ctx \in Contexts
  BY JudgedTypes
<1> QED
  BY <1>1 DEF AsAligned, Contexts

\* No read that turns to a candidate costs it points, in any context.
LEMMA TurningHelps ==
  ASSUME NEW in \in Judgements
  PROVE  LET V2(ctx) == ScoreV2(in.sig, ctx, in.age, in.nth) IN
         /\ \A ctx \in Aligned(in.ctx, in.sig.dir) :
              Score(in.sig, ctx) >= Score(in.sig, in.ctx) /\ V2(ctx) >= V2(in.ctx)
         /\ in.age <= 120 => V2([in.ctx EXCEPT !.direction = in.sig.dir]) >= V2(in.ctx)
<1>1. ASSUME NEW x, NEW y PROVE x <= y => y >= x
  OBVIOUS
<1>2. ASSUME NEW ctx \in Aligned(in.ctx, in.sig.dir)
      PROVE  /\ Score(in.sig, ctx) >= Score(in.sig, in.ctx)
             /\ ScoreV2(in.sig, ctx, in.age, in.nth) >= ScoreV2(in.sig, in.ctx, in.age, in.nth)
  BY AlignedAre, <1>1, ScoreGrows, ScoreV2Grows DEF Freshness
<1>3. ASSUME in.age <= 120
      PROVE  ScoreV2(in.sig, [in.ctx EXCEPT !.direction = in.sig.dir], in.age, in.nth)
               >= ScoreV2(in.sig, in.ctx, in.age, in.nth)
  <2> DEFINE now == [in.ctx EXCEPT !.direction = in.sig.dir]
  <2>1. AsAligned(in.sig, in.ctx, now) /\ now.direction = in.sig.dir
    BY TurnedIs
  <2> HIDE DEF now
  <2>3. ScoreV2(in.sig, in.ctx, in.age, in.nth) <= ScoreV2(in.sig, now, in.age, in.nth)
    BY <2>1, <1>3, ScoreV2Grows DEF Freshness
  <2> QED
    BY <1>1, <2>3 DEF now
<1> QED
  BY <1>2, <1>3

(***************************************************************************)
(* The geometry of candidates.                                             *)
(***************************************************************************)
\* A distance is a natural number, either way.
LEMMA DistIs ==
  ASSUME NEW p \in Int, NEW q \in Int
  PROVE  /\ Dist(p, q) \in Nat /\ Dist(p, q) = Dist(q, p)
         /\ Dist(p, q) = 0 <=> p = q
         /\ Dist(p, q) = p - q \/ Dist(p, q) = q - p
BY DEF Dist

\* The first of the best is one of them, by each of the measures.
LEMMA FirstIsIn ==
  ASSUME NEW list \in Seq(Int), NEW S, S \subseteq DOMAIN list, S # {}, NEW p \in Int
  PROVE  /\ \E i \in S : FirstMin(list, S, LAMBDA x : Dist(x, p)) = <<list[i]>>
         /\ \E i \in S : FirstMin(list, S, LAMBDA x : x) = <<list[i]>>
         /\ \E i \in S : FirstMin(list, S, LAMBDA x : -x) = <<list[i]>>
<1>1. /\ Len(list) \in Nat /\ S \subseteq 1..Len(list) /\ S \subseteq Nat
      /\ \A i \in 1..Len(list) : list[i] \in Int
  OBVIOUS
<1>2. ASSUME NEW f \in [1..Len(list) -> Int]
      PROVE  Min({i \in S : \A j \in S : f[i] <= f[j]}) \in S
  <2> DEFINE best == {i \in S : \A j \in S : f[i] <= f[j]}
  <2>1. best # {}
    BY <1>1, BestPlace
  <2>2. best \subseteq Nat /\ best \subseteq S
    BY <1>1
  <2> HIDE DEF best
  <2>3. Min(best) \in best
    BY <2>1, <2>2, Least
  <2> QED
    BY <2>2, <2>3 DEF best
<1>3. \E i \in S : FirstMin(list, S, LAMBDA x : Dist(x, p)) = <<list[i]>>
  <2> DEFINE f == [i \in 1..Len(list) |-> Dist(list[i], p)]
  <2>1. f \in [1..Len(list) -> Int] /\ \A i \in S : f[i] = Dist(list[i], p)
    <3>1. \A q \in Int : Dist(q, p) \in Nat
      BY DistIs
    <3>2. ASSUME NEW i \in 1..Len(list) PROVE Dist(list[i], p) \in Int
      <4>1. list[i] \in Int
        BY <1>1
      <4>2. Dist(list[i], p) \in Nat
        BY <3>1, <4>1
      <4> QED
        BY <4>2
    <3> QED
      BY <1>1, <3>2
  <2> HIDE DEF f
  <2>3. Min({i \in S : \A j \in S : Dist(list[i], p) <= Dist(list[j], p)}) \in S
    BY <1>2, <2>1
  <2> QED
    BY <2>3 DEF FirstMin
<1>4. \E i \in S : FirstMin(list, S, LAMBDA x : x) = <<list[i]>>
  <2> DEFINE f == [i \in 1..Len(list) |-> list[i]]
  <2>1. f \in [1..Len(list) -> Int] /\ \A i \in S : f[i] = list[i]
    BY <1>1
  <2> HIDE DEF f
  <2>3. Min({i \in S : \A j \in S : list[i] <= list[j]}) \in S
    BY <1>2, <2>1
  <2> QED
    BY <2>3 DEF FirstMin
<1>5. \E i \in S : FirstMin(list, S, LAMBDA x : -x) = <<list[i]>>
  <2> DEFINE f == [i \in 1..Len(list) |-> -list[i]]
  <2>1. f \in [1..Len(list) -> Int] /\ \A i \in S : f[i] = -list[i]
    BY <1>1
  <2> HIDE DEF f
  <2>3. Min({i \in S : \A j \in S : -list[i] <= -list[j]}) \in S
    BY <1>2, <2>1
  <2> QED
    BY <2>3 DEF FirstMin
<1> QED
  BY <1>3, <1>4, <1>5

\* What the nearest level above or below a price is.
LEMMA NearestAre ==
  ASSUME NEW list \in Seq(Int), NEW p \in Int
  PROVE  /\ NearestAbove(p, list) = None \/ \E q \in Int : q > p /\ NearestAbove(p, list) = <<q>>
         /\ NearestBelow(p, list) = None \/ \E q \in Int : q < p /\ NearestBelow(p, list) = <<q>>
<1>1. \A i \in DOMAIN list : list[i] \in Int
  OBVIOUS
<1>2. NearestAbove(p, list) = None \/ \E q \in Int : q > p /\ NearestAbove(p, list) = <<q>>
  <2> DEFINE A == {i \in DOMAIN list : list[i] > p}
  <2>1. NearestAbove(p, list) = FirstMin(list, A, LAMBDA x : x)
    BY DEF NearestAbove
  <2>2. A \subseteq DOMAIN list /\ \A i \in A : list[i] \in Int /\ list[i] > p
    BY <1>1
  <2> HIDE DEF A
  <2>3. A = {} => FirstMin(list, A, LAMBDA x : x) = None
    BY DEF FirstMin
  <2>4. A # {} => \E i \in A : FirstMin(list, A, LAMBDA x : x) = <<list[i]>>
    BY <2>2, FirstIsIn
  <2> QED
    BY <2>1, <2>2, <2>3, <2>4
<1>3. NearestBelow(p, list) = None \/ \E q \in Int : q < p /\ NearestBelow(p, list) = <<q>>
  <2> DEFINE B == {i \in DOMAIN list : list[i] < p}
  <2>1. NearestBelow(p, list) = FirstMin(list, B, LAMBDA x : -x)
    BY DEF NearestBelow
  <2>2. B \subseteq DOMAIN list /\ \A i \in B : list[i] \in Int /\ list[i] < p
    BY <1>1
  <2> HIDE DEF B
  <2>3. B = {} => FirstMin(list, B, LAMBDA x : -x) = None
    BY DEF FirstMin
  <2>4. B # {} => \E i \in B : FirstMin(list, B, LAMBDA x : -x) = <<list[i]>>
    BY <2>2, FirstIsIn
  <2> QED
    BY <2>1, <2>2, <2>3, <2>4
<1> QED
  BY <1>2, <1>3

\* A round number is a whole one.
LEMMA RoundTyped ==
  ASSUME NEW p \in Int, NEW step \in {50, 100}
  PROVE  RoundTo(p, step) \in Int
<1>1. CASE step = 50
  BY <1>1 DEF RoundTo
<1>2. CASE step = 100
  BY <1>2 DEF RoundTo
<1> QED
  BY <1>1, <1>2

\* A function from an initial segment is a list.
LEMMA Indexed ==
  ASSUME NEW f, DOMAIN f = 1..5, f \in [1..5 -> Int]
  PROVE  f \in Seq(Int)
<1>1. \E n \in Nat : f \in [1..n -> Int]
  OBVIOUS
<1> QED
  BY <1>1, SeqDef

\* The levels of a context are whole numbers.
LEMMA LevelsTyped ==
  ASSUME NEW ctx \in Contexts, NEW entry \in Int
  PROVE  /\ KeyLevels(ctx) \in Seq(Int)
         /\ KeyLevels(ctx) \o RoundGrid(ctx, entry) \in Seq(Int)
<1>1. /\ ctx.pdh \in Int /\ ctx.pdl \in Int /\ ctx.pdc \in Int
      /\ ctx.vwap \in Optional(Nat) /\ ctx.callWall \in Optional(Nat)
      /\ ctx.putWall \in Optional(Nat) /\ ctx.maxPain \in Optional(Nat)
      /\ ctx.orh \in Optional(Nat) /\ ctx.orl \in Optional(Nat)
  BY DEF Contexts
<1>2. \A s \in Optional(Nat) : s \in Seq(Int)
  BY DEF Optional
<1>3. OiLevels(ctx) \in Seq(Int)
  BY <1>1, <1>2 DEF OiLevels
<1>5. <<ctx.pdh, ctx.pdl, ctx.pdc>> \in Seq(Int)
  BY <1>1
<1>6. KeyLevels(ctx) \in Seq(Int)
  BY <1>1, <1>2, <1>3, <1>5 DEF KeyLevels, None
<1>7. RoundStep(ctx) \in {50, 100}
  BY DEF RoundStep
<1>8. RoundTo(entry, RoundStep(ctx)) \in Int
  BY <1>7, RoundTyped
<1>9. RoundGrid(ctx, entry) \in Seq(Int)
  <2>1. \A k \in 1..5 : RoundTo(entry, RoundStep(ctx)) + (k - 2) * RoundStep(ctx) \in Int
    BY <1>7, <1>8
  <2> HIDE DEF RoundStep
  <2> QED
    BY <2>1, Indexed DEF RoundGrid
<1> QED
  BY <1>6, <1>9

\* What is asked of a setup's candidate.
Geometry(setup, sig) ==
  /\ setup \notin UnsidedSetups => RightSide(sig.dir, sig.sl, sig.entry)
  /\ RightSide(sig.dir, sig.entry, sig.tp1)
  /\ sig.tp2 # None /\ RightSide(sig.dir, sig.tp1, sig.tp2[1])
  /\ setup \notin {"VIX", "EGS"} => Pays(sig.entry, sig.sl, sig.tp1, TP1MinRR)

\* The signs of the sides.
LEMMA SignIs ==
  ASSUME NEW d \in Sides
  PROVE  /\ (d = Long /\ Sign(d) = 1) \/ (d = Short /\ Sign(d) = -1)
         /\ Long # Short
BY DEF Sign, Sides, Long, Short

\* The second target lies beyond a first one that follows the direction.
LEMMA SecondBeyond ==
  ASSUME NEW ctx \in Contexts, NEW d \in Sides, NEW entry \in Int, NEW tp1 \in Int,
         entry > 0, RightSide(d, entry, tp1)
  PROVE  /\ DeriveTp2(ctx, d, entry, tp1) # None
         /\ RightSide(d, tp1, DeriveTp2(ctx, d, entry, tp1)[1])
<1> DEFINE dist == Dist(tp1, entry)
           anchor == entry + Sign(d) * ((dist * TP2Mult) \div 100)
           levels == KeyLevels(ctx)
           mapped == LevelsBeyond(levels, d, entry, TP2MinMult * dist, TP2MaxMult * dist)
           s == Sign(d)
<1>1. s \in {1, -1}
  BY SignIs
<1>2. s * (tp1 - entry) > 0
  BY DEF RightSide
<1> HIDE DEF s
<1>3. dist \in Nat /\ dist > 0 /\ dist = s * (tp1 - entry)
  BY <1>1, <1>2 DEF Dist
<1> HIDE DEF dist
<1>4. anchor \in Int /\ s * (anchor - tp1) > 0
  BY <1>1, <1>3 DEF TP2Mult, s
<1> HIDE DEF anchor
<1>5. levels \in Seq(Int)
  BY LevelsTyped
<1>6. /\ mapped \subseteq DOMAIN levels
      /\ \A i \in mapped : TP2MinMult * dist <= 100 * s * (levels[i] - entry)
  BY DEF LevelsBeyond, s
<1>7. \A i \in mapped : levels[i] \in Int
  BY <1>5, <1>6
<1> HIDE DEF levels, mapped
<1>8. DeriveTp2(ctx, d, entry, tp1)
        = IF mapped = {} THEN <<anchor>> ELSE FirstMin(levels, mapped, LAMBDA p : Dist(p, anchor))
  BY <1>3 DEF DeriveTp2, levels, mapped, anchor, dist, s
<1>9. CASE mapped = {}
  BY <1>4, <1>8, <1>9 DEF None, RightSide, s
<1>10. CASE mapped # {}
  <2>1. PICK i \in mapped : FirstMin(levels, mapped, LAMBDA p : Dist(p, anchor)) = <<levels[i]>>
    BY <1>4, <1>5, <1>6, <1>10, FirstIsIn
  <2>3. s * (levels[i] - tp1) > 0
    BY <1>1, <1>3, <1>6, <1>7 DEF TP2MinMult
  <2> QED
    BY <1>8, <1>10, <2>1, <2>3 DEF None, RightSide, s
<1> QED
  BY <1>9, <1>10

\* So a candidate is sound once its stop and its first target are.
LEMMA SignalSound ==
  ASSUME NEW ctx \in Contexts, NEW setup, NEW name, NEW d \in Sides,
         NEW entry \in Int, NEW sl \in Int, NEW tp1 \in Int, NEW type, NEW htf, NEW volume,
         entry > 0, RightSide(d, entry, tp1),
         setup \notin UnsidedSetups => RightSide(d, sl, entry),
         setup \notin {"VIX", "EGS"} => Pays(entry, sl, tp1, TP1MinRR)
  PROVE  Geometry(setup, Signal(ctx, name, d, entry, sl, tp1, type, htf, volume)[1])
<1> DEFINE sig == Signal(ctx, name, d, entry, sl, tp1, type, htf, volume)[1]
<1>1. /\ sig.dir = d /\ sig.entry = entry /\ sig.sl = sl /\ sig.tp1 = tp1
      /\ sig.tp2 = DeriveTp2(ctx, d, entry, tp1)
  BY DEF Signal
<1> HIDE DEF sig
<1>2. /\ DeriveTp2(ctx, d, entry, tp1) # None
      /\ RightSide(d, tp1, DeriveTp2(ctx, d, entry, tp1)[1])
  BY SecondBeyond
<1>3. Geometry(setup, sig)
  BY <1>1, <1>2 DEF Geometry
<1> QED
  BY <1>3 DEF sig

\* The target at twice the stop and more pays.
LEMMA MultiplePays ==
  ASSUME NEW d \in Sides, NEW entry \in Int, NEW sl \in Int, sl # entry
  PROVE  /\ Multiple(d, entry, sl, 200) \in Int
         /\ RightSide(d, entry, Multiple(d, entry, sl, 200))
         /\ Dist(Multiple(d, entry, sl, 200), entry) = 2 * Dist(entry, sl)
<1>1. Dist(entry, sl) \in Nat /\ Dist(entry, sl) > 0
  BY DEF Dist
<1>2. Sign(d) \in {1, -1}
  BY SignIs
<1> QED
  BY <1>1, <1>2 DEF RightSide, Dist, Multiple

\* The structural target is at least at 1.2 times the stop.
LEMMA StructuralPays ==
  ASSUME NEW ctx \in Contexts, NEW d \in Sides, NEW entry \in Int, NEW sl \in Int,
         entry > 0, sl # entry
  PROVE  LET tp1 == StructuralTp1(ctx, d, entry, sl, 200) IN
         tp1 \in Int /\ RightSide(d, entry, tp1) /\ Pays(entry, sl, tp1, TP1MinRR)
<1> DEFINE dist == Dist(entry, sl)
           levels == KeyLevels(ctx) \o RoundGrid(ctx, entry)
           mapped == LevelsBeyond(levels, d, entry, TP1MinRR * dist, 200 * dist)
           tp1 == StructuralTp1(ctx, d, entry, sl, 200)
           s == Sign(d)
<1>1. s \in {1, -1}
  BY SignIs
<1>2. dist \in Nat /\ dist > 0
  BY DEF Dist
<1>3. levels \in Seq(Int)
  BY LevelsTyped
<1>4. /\ mapped \subseteq DOMAIN levels
      /\ \A i \in mapped : TP1MinRR * dist <= 100 * s * (levels[i] - entry)
  BY DEF LevelsBeyond
<1>5. tp1 = IF mapped = {} THEN Multiple(d, entry, sl, 200)
            ELSE FirstMin(levels, mapped, LAMBDA p : Dist(p, entry))[1]
  BY <1>2 DEF StructuralTp1
<1> HIDE DEF dist, levels, mapped, tp1
<1>6. \A i \in mapped : levels[i] \in Int
  BY <1>3, <1>4
<1>7. tp1 \in Int /\ RightSide(d, entry, tp1) /\ Pays(entry, sl, tp1, TP1MinRR)
  <2>1. CASE mapped = {}
    BY <1>2, <1>5, <2>1, MultiplePays DEF Pays, TP1MinRR, dist
  <2>2. CASE mapped # {}
    <3>1. PICK i \in mapped : FirstMin(levels, mapped, LAMBDA p : Dist(p, entry)) = <<levels[i]>>
      BY <1>3, <1>4, <2>2, FirstIsIn
    <3>2. tp1 = levels[i] /\ tp1 \in Int /\ 120 * dist <= 100 * s * (tp1 - entry)
      BY <1>4, <1>5, <1>6, <2>2, <3>1 DEF TP1MinRR
    <3> HIDE DEF s
    <3>3. s * (tp1 - entry) > 0
      BY <1>1, <1>2, <3>2
    <3> QED
      BY <1>1, <1>2, <3>2, <3>3 DEF RightSide, Pays, TP1MinRR, dist, s, Dist
  <2> QED
    BY <2>1, <2>2
<1> QED
  BY <1>7 DEF tp1

\* The least and the greatest of two.
LEMMA OfTwo ==
  ASSUME NEW a \in Int, NEW b \in Int
  PROVE  /\ Min({a, b}) = IF a <= b THEN a ELSE b
         /\ Max({a, b}) = IF a >= b THEN a ELSE b
BY DEF Min, Max

\* What the evaluators read of a context.
LEMMA ContextTyped ==
  ASSUME NEW ctx \in Contexts
  PROVE  /\ ctx.atr \in Nat
         /\ ctx.cur.open \in Nat /\ ctx.cur.high \in Nat
         /\ ctx.cur.low \in Nat /\ ctx.cur.close \in Nat
         /\ ctx.cur.low <= ctx.cur.close /\ ctx.cur.close <= ctx.cur.high
         /\ ctx.cur.low <= ctx.cur.open /\ ctx.cur.open <= ctx.cur.high
         /\ ctx.c15 \in Seq(Candles)
         /\ ctx.pdh \in Nat /\ ctx.pdl \in Nat /\ ctx.pdc \in Nat
         /\ ctx.orh \in Optional(Nat) /\ ctx.orl \in Optional(Nat)
<1>1. ctx.cur \in Candles
  BY DEF Contexts
<1>3. /\ ctx.atr \in Nat /\ ctx.c15 \in Seq(Candles)
      /\ ctx.pdh \in Nat /\ ctx.pdl \in Nat /\ ctx.pdc \in Nat
      /\ ctx.orh \in Optional(Nat) /\ ctx.orl \in Optional(Nat)
  BY DEF Contexts
<1> QED
  BY <1>1, <1>3 DEF Candles

\* An optional price is a list of at most one.
LEMMA OptionalIs ==
  ASSUME NEW s \in Optional(Nat)
  PROVE  s \in Seq(Int) /\ (s = None \/ \E q \in Nat : s = <<q>>)
<1>1. s \in Seq(Nat) /\ Len(s) <= 1
  BY DEF Optional
<1>2. CASE Len(s) = 0
  BY <1>1, <1>2 DEF None
<1>3. CASE Len(s) = 1
  <2>1. s[1] \in Nat
    BY <1>1, <1>3
  <2> DEFINE one == <<s[1]>>
  <2>2. one \in Seq(Nat) /\ Len(one) = 1 /\ \A i \in 1..1 : one[i] = s[i]
    BY <2>1
  <2> HIDE DEF one
  <2>4. s = one
    BY <2>2, <1>1, <1>3, SeqEqual
  <2>5. \E q \in Nat : s = <<q>>
    BY <2>4, <2>1, Zenon DEF one
  <2> QED
    BY <1>1, <2>5
<1>4. Len(s) \in {0, 1}
  BY <1>1
<1>5. s \in Seq(Int)
  BY <1>1
<1> QED
  BY <1>2, <1>3, <1>4, <1>5

\* A share of the range is a natural number.
LEMMA OfAtrNat ==
  ASSUME NEW ctx \in Contexts, NEW percent \in Nat
  PROVE  OfAtr(ctx, percent) \in Nat
<1>1. ctx.atr \in Nat
  BY ContextTyped
<1>2. ctx.atr * percent \in Nat
  BY <1>1
<1> DEFINE x == ctx.atr * percent
<1>3. x \in Nat
  BY <1>2
<1> HIDE DEF x
<1>4. x \div 100 \in Nat
  BY <1>3
<1> QED
  BY <1>4 DEF OfAtr, x

\* A swing is an optional price.
LEMMA SwingsTyped ==
  ASSUME NEW ctx \in Contexts, NEW lookback \in Nat
  PROVE  /\ SwingHigh(ctx, lookback) \in Optional(Nat)
         /\ SwingLow(ctx, lookback) \in Optional(Nat)
<1> DEFINE bars == ctx.c15
           n == Len(bars)
           H == {i \in SwingHighs(bars, 1) : i > n - lookback}
           L == {i \in SwingLows(bars, 1) : i > n - lookback}
<1>1. bars \in Seq(Candles)
  BY ContextTyped
<1> HIDE DEF bars
<1>2. n \in Nat /\ \A i \in 1..n : bars[i] \in Candles
  BY <1>1
<1>4. H \subseteq 1..n /\ L \subseteq 1..n
  BY <1>2 DEF SwingHighs, SwingLows
<1>5. /\ SwingHigh(ctx, lookback) = IF H = {} THEN None ELSE <<bars[Max(H)].high>>
      /\ SwingLow(ctx, lookback) = IF L = {} THEN None ELSE <<bars[Max(L)].low>>
  BY DEF SwingHigh, SwingLow, LastSwingHigh, LastSwingLow, bars
<1> HIDE DEF H, L
<1>6. H # {} => Max(H) \in 1..n
  BY <1>2, <1>4, Greatest
<1>7. L # {} => Max(L) \in 1..n
  BY <1>2, <1>4, Greatest
<1>8. None \in Optional(Nat) /\ \A q \in Nat : <<q>> \in Optional(Nat)
  BY DEF None, Optional
<1> QED
  BY <1>2, <1>5, <1>6, <1>7, <1>8 DEF Candles

\* The least and the other demands on the reward.
LEMMA PaysMore ==
  ASSUME NEW entry \in Int, NEW sl \in Int, NEW tp1 \in Int, NEW rr \in Int, rr >= TP1MinRR,
         Pays(entry, sl, tp1, rr)
  PROVE  Pays(entry, sl, tp1, TP1MinRR)
<1>1. Dist(entry, sl) \in Nat /\ Dist(tp1, entry) \in Nat
  BY DistIs
<1> QED
  BY <1>1 DEF Pays, TP1MinRR

\* A sweep stops beyond the bar that swept.
LEMMA LsrBuilds ==
  ASSUME NEW ctx \in Contexts, NEW d \in Sides, NEW swing \in Optional(Nat),
         d = Long => ctx.cur.low < ctx.cur.close,
         d = Short => ctx.cur.close < ctx.cur.high,
         LsrBuild(ctx, d, swing) # None
  PROVE  Geometry("LSR", LsrBuild(ctx, d, swing)[1])
<1> DEFINE entry == ctx.cur.close
           pad == OfAtr(ctx, LSR.pad)
           sl == IF d = Long THEN Min({ctx.cur.low - pad, ctx.cur.low - Tick})
                 ELSE Max({ctx.cur.high + pad, ctx.cur.high + Tick})
           tp1 == LsrTarget(d, entry, sl, swing)
           type == "MARKET"
           htf == ReversalAligned(ctx, d)
<1>1. /\ entry \in Int /\ ctx.cur.low \in Int /\ ctx.cur.high \in Int
  BY ContextTyped
<1>2. pad \in Nat
  BY OfAtrNat DEF LSR
<1> HIDE DEF pad
<1>3. sl \in Int /\ RightSide(d, sl, entry)
  <2>1. /\ ctx.cur.low - pad \in Int /\ ctx.cur.low - Tick \in Int
        /\ ctx.cur.high + pad \in Int /\ ctx.cur.high + Tick \in Int
    BY <1>1, <1>2 DEF Tick
  <2>2. d = Long => sl \in Int /\ sl < entry
    BY <1>1, <1>2, <2>1, OfTwo DEF Tick
  <2>3. d # Long => sl \in Int /\ sl > entry
    <3>2. Max({ctx.cur.high + pad, ctx.cur.high + Tick}) \in {ctx.cur.high + pad, ctx.cur.high + Tick}
      BY <2>1, OfTwo
    <3> QED
      BY <1>1, <1>2, <2>1, SignIs, <3>2 DEF Tick
  <2> QED
    BY <1>1, <2>2, <2>3, SignIs DEF RightSide
<1> HIDE DEF entry, sl, tp1, htf, type
<1>4. StopFits(entry, sl, LSR) /\ Pays(entry, sl, tp1, LSR.minRR)
  BY DEF LsrBuild, entry, sl, tp1, pad
<1>5. entry > 0 /\ sl # entry
  BY <1>4 DEF StopFits
<1>6. tp1 \in Int /\ RightSide(d, entry, tp1)
  <2> DEFINE beyond == IF d = Long THEN NearestAbove(entry, swing) ELSE NearestBelow(entry, swing)
  <2>1. beyond = None \/ \E q \in Int : RightSide(d, entry, q) /\ beyond = <<q>>
    BY <1>1, OptionalIs, NearestAre, SignIs DEF RightSide
  <2>2. tp1 = Multiple(d, entry, sl, 200) \/ (beyond # None /\ tp1 = beyond[1])
    BY DEF LsrTarget, tp1
  <2> HIDE DEF beyond
  <2> QED
    BY <1>1, <1>3, <1>5, <2>1, <2>2, MultiplePays
<1>7. Pays(entry, sl, tp1, TP1MinRR)
  BY <1>1, <1>3, <1>4, <1>6, PaysMore DEF LSR, TP1MinRR
<1>9. Geometry("LSR", Signal(ctx, "LSR", d, entry, sl, tp1, type, htf, 0)[1])
  BY <1>1, <1>3, <1>5, <1>6, <1>7, SignalSound
<1> QED
  BY <1>4, <1>9 DEF LsrBuild, entry, sl, tp1, pad, type, htf

\* So a sweep is sound.
LEMMA LsrSound ==
  ASSUME NEW ctx \in Contexts, LiquiditySweepReversal(ctx) # None
  PROVE  Geometry("LSR", LiquiditySweepReversal(ctx)[1])
<1> DEFINE low == SwingLow(ctx, LSR.lookback)
           high == SwingHigh(ctx, LSR.lookback)
<1>1. low \in Optional(Nat) /\ high \in Optional(Nat)
  BY SwingsTyped DEF LSR
<1>2. Long \in Sides /\ Short \in Sides /\ Long # Short
  BY DEF Long, Short, Sides
<1> HIDE DEF low, high
<1>4. /\ low # None => low[1] \in Int
      /\ high # None => high[1] \in Int
  BY <1>1, OptionalIs
<1>5. /\ ctx.cur.low \in Int /\ ctx.cur.high \in Int /\ ctx.cur.close \in Int
  BY ContextTyped
<1> QED
  BY <1>1, <1>2, <1>4, <1>5, LsrBuilds DEF LiquiditySweepReversal, low, high

\* A breakout stops on the other side of the range it breaks out of.
LEMMA OrbSound ==
  ASSUME NEW ctx \in Contexts, OpeningRangeBreakout(ctx) # None
  PROVE  Geometry("ORB", OpeningRangeBreakout(ctx)[1])
<1> DEFINE last == ctx.cur.close
           buffer == OfAtr(ctx, ORB.buffer)
           top == ctx.orh[1] + buffer
           bottom == ctx.orl[1] - buffer
<1>1. last \in Nat /\ ctx.orh \in Optional(Nat) /\ ctx.orl \in Optional(Nat)
  BY ContextTyped
<1>2. buffer \in Nat
  BY OfAtrNat DEF ORB
<1> HIDE DEF last, buffer
<1>3. /\ ctx.orh # None /\ ctx.orl # None /\ last > 0
      /\ ShareIn(ctx.orh[1] - ctx.orl[1], last, ORB.minRange, ORB.maxRange)
      /\ \/ OpeningRangeBreakout(ctx) = OrbBuild(ctx, Long, top, bottom)
         \/ OpeningRangeBreakout(ctx) = OrbBuild(ctx, Short, bottom, top)
  BY DEF OpeningRangeBreakout, last, buffer
<1>4. ctx.orh[1] \in Int /\ ctx.orl[1] \in Int
  BY <1>1, <1>3, OptionalIs
<1>5. top \in Int /\ bottom \in Int /\ top > bottom
  BY <1>1, <1>2, <1>3, <1>4 DEF ShareIn, ORB
<1> HIDE DEF top, bottom
<1>6. ASSUME NEW d \in Sides, NEW entry \in Int, NEW sl \in Int, RightSide(d, sl, entry),
             OrbBuild(ctx, d, entry, sl) # None
      PROVE  Geometry("ORB", OrbBuild(ctx, d, entry, sl)[1])
  <2> DEFINE tp1 == StructuralTp1(ctx, d, entry, sl, 200)
             type == "LEVEL"
             htf == TrendMatches(ctx, d)
  <2> HIDE DEF tp1, type, htf
  <2>1. /\ StopFits(entry, sl, ORB)
        /\ OrbBuild(ctx, d, entry, sl) = Signal(ctx, "ORB", d, entry, sl, tp1, type, htf, ctx.volume)
    BY <1>6 DEF OrbBuild, tp1, type, htf, ORB
  <2>2. entry > 0 /\ sl # entry
    BY <2>1 DEF StopFits
  <2>3. tp1 \in Int /\ RightSide(d, entry, tp1) /\ Pays(entry, sl, tp1, TP1MinRR)
    BY <2>2, StructuralPays DEF tp1
  <2>4. Geometry("ORB", Signal(ctx, "ORB", d, entry, sl, tp1, type, htf, ctx.volume)[1])
    BY <1>6, <2>2, <2>3, SignalSound
  <2> QED
    BY <2>1, <2>4
<1> QED
  BY <1>3, <1>5, <1>6 DEF RightSide, Sign, Long, Short, Sides

\* A breakout of a swing stops behind it.
LEMMA BreakoutSound ==
  ASSUME NEW ctx \in Contexts, NEW d \in Sides, NEW setup \in {"VSB", "BDS"},
         VolumeBreakout(ctx, d, setup) # None
  PROVE  Geometry(setup, VolumeBreakout(ctx, d, setup)[1])
<1> DEFINE swing == IF d = Long THEN SwingHigh(ctx, VSB.lookback) ELSE SwingLow(ctx, VSB.lookback)
           level == swing[1]
           entry == IF d = Long THEN level + OfAtr(ctx, VSB.entry) ELSE level - OfAtr(ctx, VSB.entry)
           sl == IF d = Long
                 THEN LET base == level - OfAtr(ctx, VSB.pad) IN
                        IF ctx.cur.open < level THEN Min({ctx.cur.open, base}) ELSE base
                 ELSE LET base == level + OfAtr(ctx, VSB.pad) IN
                        IF ctx.cur.open > level THEN Max({ctx.cur.open, base}) ELSE base
           tp1 == StructuralTp1(ctx, d, entry, sl, 200)
           type == "LEVEL"
           htf == TrendMatches(ctx, d)
<1>1. swing \in Optional(Nat)
  BY SwingsTyped DEF VSB
<1> HIDE DEF swing, tp1, type, htf
<1>3. /\ swing # None /\ StopFits(entry, sl, VSB)
      /\ VolumeBreakout(ctx, d, setup) = Signal(ctx, setup, d, entry, sl, tp1, type, htf, ctx.volume)
  BY DEF VolumeBreakout, swing, tp1, type, htf, VSB
<1>4. level \in Int
  BY <1>1, <1>3, OptionalIs
<1> HIDE DEF level
<1>5. entry > 0 /\ sl # entry
  BY <1>3 DEF StopFits
<1>6. entry \in Int /\ sl \in Int /\ RightSide(d, sl, entry)
  <2> DEFINE e == OfAtr(ctx, VSB.entry)
             p == OfAtr(ctx, VSB.pad)
             o == ctx.cur.open
  <2>1. e \in Nat /\ p \in Nat /\ o \in Int
    BY ContextTyped, OfAtrNat DEF VSB
  <2> HIDE DEF e, p, o
  <2>2. CASE d = Long
    BY <2>2, <1>4, <2>1, OfTwo, <1>5 DEF p, o, e, RightSide, Sign
  <2>3. CASE d = Short
    <3>2. Max({o, level + p}) = IF o >= level + p THEN o ELSE level + p
      BY <1>4, <2>1, OfTwo
    <3>3. entry = level - e
      BY <2>3 DEF e, Long, Short
    <3>4. sl \in Int /\ sl >= entry
      BY <1>4, <2>1, <2>3, <3>2, <3>3 DEF p, o, Long, Short
    <3> HIDE DEF sl, entry
    <3> QED
      BY <1>4, <1>5, <2>1, <2>3, <3>3, <3>4 DEF RightSide, Sign, Long, Short
  <2> QED
    BY <2>2, <2>3, SignIs
<1> HIDE DEF entry, sl
<1>8. Geometry(setup, Signal(ctx, setup, d, entry, sl, tp1, type, htf, ctx.volume)[1])
  BY <1>5, <1>6, StructuralPays, SignalSound DEF tp1
<1> QED
  BY <1>3, <1>8

\* The right side, by direction.
LEMMA SideIs ==
  ASSUME NEW a \in Int, NEW b \in Int
  PROVE  /\ Long \in Sides /\ Short \in Sides
         /\ RightSide(Long, a, b) <=> a < b
         /\ RightSide(Short, a, b) <=> b < a
BY DEF RightSide, Sign, Long, Short, Sides

\* The nearest level of its side follows the direction.
LEMMA NearestFollow ==
  ASSUME NEW entry \in Int, NEW list \in Seq(Int)
  PROVE  /\ NearestAbove(entry, list) = None
              \/ \E q \in Int : RightSide(Long, entry, q) /\ NearestAbove(entry, list) = <<q>>
         /\ NearestBelow(entry, list) = None
              \/ \E q \in Int : RightSide(Short, entry, q) /\ NearestBelow(entry, list) = <<q>>
<1> QED
  BY SideIs, NearestAre

\* A pullback stops behind its bar, and no nearer than the least distance.
LEMMA TpeSound ==
  ASSUME NEW ctx \in Contexts, TrendPullbackEma(ctx) # None
  PROVE  Geometry("TPE", TrendPullbackEma(ctx)[1])
<1>0. Long \in Sides /\ Short \in Sides
  BY DEF Sides
<1> SUFFICES ASSUME NEW d \in Sides, TpeBuild(ctx, d) # None
             PROVE  Geometry("TPE", TpeBuild(ctx, d)[1])
  BY <1>0 DEF TrendPullbackEma
<1> DEFINE entry == ctx.cur.close
           sl == TpeStop(ctx, d)
           swing == IF d = Long THEN NearestAbove(entry, SwingHigh(ctx, 20))
                    ELSE NearestBelow(entry, SwingLow(ctx, 20))
           tp1 == IF swing # None /\ Pays(entry, sl, swing[1], TPE.minRR) THEN swing[1]
                  ELSE Multiple(d, entry, sl, TPE.rr)
           type == "MARKET"
           htf == TRUE
<1>1. /\ entry \in Nat /\ entry \in Int /\ ctx.cur.low \in Int /\ ctx.cur.high \in Int
      /\ ctx.cur.low <= entry /\ entry <= ctx.cur.high
  BY ContextTyped
<1>2. sl \in Int /\ (d = Long => sl <= entry) /\ (d = Short => sl >= entry)
  <2> DEFINE least == IF ctx.index THEN TPE.points ELSE (entry * TPE.minSl) \div 10000
             pad == OfAtr(ctx, TPE.pad)
  <2>1. least \in Nat
    BY <1>1 DEF TPE
  <2>2. pad \in Nat
    BY OfAtrNat DEF TPE
  <2>3. sl = IF d = Long THEN Min({ctx.cur.low - pad, entry - least})
             ELSE Max({ctx.cur.high + pad, entry + least})
    BY DEF TpeStop
  <2> HIDE DEF least, pad, entry, sl
  <2>4. /\ Min({ctx.cur.low - pad, entry - least})
             = IF ctx.cur.low - pad <= entry - least THEN ctx.cur.low - pad ELSE entry - least
        /\ Max({ctx.cur.high + pad, entry + least})
             = IF ctx.cur.high + pad >= entry + least THEN ctx.cur.high + pad ELSE entry + least
    <3>1. /\ ctx.cur.low - pad \in Int /\ entry - least \in Int
          /\ ctx.cur.high + pad \in Int /\ entry + least \in Int
      BY <1>1, <2>1, <2>2
    <3> QED
      BY <3>1, OfTwo
  <2>5. CASE d = Long
    BY <1>1, <2>1, <2>2, <2>3, <2>4, <2>5, SignIs
  <2>6. CASE d = Short
    BY <1>1, <2>1, <2>2, <2>3, <2>4, <2>6, SignIs
  <2> QED
    BY <2>5, <2>6, SignIs
<1>3. swing = None \/ \E q \in Int : RightSide(d, entry, q) /\ swing = <<q>>
  <2>1. SwingHigh(ctx, 20) \in Seq(Int) /\ SwingLow(ctx, 20) \in Seq(Int)
    BY SwingsTyped, OptionalIs
  <2>2. /\ d = Long => swing = NearestAbove(entry, SwingHigh(ctx, 20))
        /\ d = Short => swing = NearestBelow(entry, SwingLow(ctx, 20))
    BY SignIs
  <2> HIDE DEF swing, entry
  <2>3. CASE d = Long
    BY <1>1, <2>1, <2>2, <2>3, NearestFollow
  <2>4. CASE d = Short
    BY <1>1, <2>1, <2>2, <2>4, NearestFollow
  <2> QED
    BY <2>3, <2>4, SignIs
<1> HIDE DEF entry, sl, swing, tp1, type, htf
<1>4. /\ StopFits(entry, sl, TPE) /\ Pays(entry, sl, tp1, TPE.minRR)
      /\ TpeBuild(ctx, d) = Signal(ctx, "TPE", d, entry, sl, tp1, type, htf, 0)
  BY DEF TpeBuild, entry, sl, swing, tp1, type, htf
<1>5. entry > 0 /\ sl # entry
  BY <1>4 DEF StopFits
<1>6. RightSide(d, sl, entry)
  BY <1>1, <1>2, <1>5, SignIs DEF RightSide
<1>7. tp1 \in Int /\ RightSide(d, entry, tp1)
  BY <1>1, <1>2, <1>3, <1>5, MultiplePays DEF tp1, TPE
<1>8. Pays(entry, sl, tp1, TP1MinRR)
  BY <1>1, <1>2, <1>4, <1>7, PaysMore DEF TPE, TP1MinRR
<1> QED
  BY <1>4, <1>1, <1>2, <1>5, <1>6, <1>7, <1>8, SignalSound

\* The fear spike asks of both its prices on which side they are.
LEMMA VixSound ==
  ASSUME NEW ctx \in Contexts, IndiaVixExtreme(ctx) # None
  PROVE  Geometry("VIX", IndiaVixExtreme(ctx)[1])
<1> DEFINE entry == ctx.cur.close
           sl == ctx.dayLow - OfAtr(ctx, VIX.pad)
           type == "MARKET"
           htf == FALSE
<1>1. entry \in Int /\ ctx.pdc \in Int
  BY ContextTyped
<1>2. sl \in Int
  <2>1. ctx.dayLow \in Nat
    BY DEF Contexts
  <2> QED
    BY <2>1, OfAtrNat DEF VIX
<1> HIDE DEF entry, sl, type, htf
<1>3. /\ entry > sl /\ ctx.pdc > entry /\ StopFits(entry, sl, VIX)
      /\ IndiaVixExtreme(ctx) = Signal(ctx, "VIX", Long, entry, sl, ctx.pdc, type, htf, 0)
  <2> DEFINE spike == /\ ctx.n5 >= 16 /\ ctx.vix > VIX.high /\ ctx.dayOpen > 0
                      /\ ctx.r60 # "DOWN" /\ ctx.ready
                      /\ (ctx.dayOpen - entry) * 10000 >= VIX.drop * ctx.dayOpen
                      /\ BullishRejection(ctx.cur, ctx.prev, MinRange(ctx))
                      /\ ctx.rsi < VIX.rsi
             sides == entry > sl /\ ctx.pdc > entry
             fits == StopFits(entry, sl, VIX)
  <2>1. IndiaVixExtreme(ctx) = IF spike /\ sides /\ fits
                               THEN Signal(ctx, "VIX", Long, entry, sl, ctx.pdc, type, htf, 0)
                               ELSE None
    BY DEF IndiaVixExtreme, entry, sl, type, htf
  <2> HIDE DEF spike, sides, fits
  <2>2. sides /\ fits /\ IndiaVixExtreme(ctx) = Signal(ctx, "VIX", Long, entry, sl, ctx.pdc, type, htf, 0)
    BY <2>1
  <2> QED
    BY <2>2 DEF sides, fits
<1>4. Long \in Sides /\ RightSide(Long, sl, entry) /\ RightSide(Long, entry, ctx.pdc) /\ entry > 0
  BY <1>1, <1>2, <1>3 DEF RightSide, Sign, Long, Sides, StopFits
<1>5. Geometry("VIX", Signal(ctx, "VIX", Long, entry, sl, ctx.pdc, type, htf, 0)[1])
  BY <1>1, <1>2, <1>4, SignalSound
<1> QED
  BY <1>3, <1>5

\* A candidate at a level pays, and aims where it goes; on which side of the
\* price its level is was not asked.
LEMMA LevelSound ==
  ASSUME NEW ctx \in Contexts, NEW setup \in UnsidedSetups, NEW cfg \in {PCR, OIS}, NEW d \in Sides,
         NEW level \in Int, NEW target, NEW htf,
         target = None \/ \E q \in Int : RightSide(d, ctx.cur.close, q) /\ target = <<q>>,
         LevelBuild(ctx, setup, cfg, d, level, target, htf) # None
  PROVE  Geometry(setup, LevelBuild(ctx, setup, cfg, d, level, target, htf)[1])
<1> DEFINE entry == ctx.cur.close
           pad == OfAtr(ctx, cfg.pad)
           sl == IF d = Long THEN level - pad ELSE level + pad
           tp1 == target[1]
           type == "MARKET"
<1>1. entry \in Int
  BY ContextTyped
<1>2. cfg.minRR = 150 /\ pad \in Nat
  BY OfAtrNat DEF PCR, OIS
<1>3. sl \in Int
  BY <1>2
<1> HIDE DEF entry, pad, sl, tp1, type
<1>4. /\ target # None /\ StopFits(entry, sl, cfg) /\ Pays(entry, sl, tp1, cfg.minRR)
      /\ LevelBuild(ctx, setup, cfg, d, level, target, htf)
           = Signal(ctx, setup, d, entry, sl, tp1, type, htf, 0)
  BY DEF LevelBuild, entry, pad, sl, tp1, type
<1>5. entry > 0 /\ tp1 \in Int /\ RightSide(d, entry, tp1)
  BY <1>4 DEF StopFits, entry, tp1
<1>6. Pays(entry, sl, tp1, TP1MinRR)
  BY <1>1, <1>2, <1>3, <1>4, <1>5, PaysMore DEF TP1MinRR
<1> QED
  BY <1>4, <1>1, <1>3, <1>5, <1>6, SignalSound

\* The nearest of some levels is one of them.
LEMMA NearestTyped ==
  ASSUME NEW list \in Seq(Int), list # <<>>, NEW p \in Int
  PROVE  Nearest(p, list)[1] \in Int
<1>1. DOMAIN list = 1..Len(list) /\ Len(list) \in Nat /\ Len(list) # 0
  OBVIOUS
<1>2. DOMAIN list # {}
  BY <1>1
<1>3. PICK i \in DOMAIN list : FirstMin(list, DOMAIN list, LAMBDA x : Dist(x, p)) = <<list[i]>>
  BY <1>2, FirstIsIn
<1>4. list[i] \in Int
  OBVIOUS
<1> QED
  BY <1>3, <1>4 DEF Nearest

\* The put-call extreme at either level.
LEMMA PcrSound ==
  ASSUME NEW ctx \in Contexts, PcrExtreme(ctx) # None
  PROVE  Geometry("PCR", PcrExtreme(ctx)[1])
<1> DEFINE last == ctx.cur.close
           low == SwingLow(ctx, 20)
           high == SwingHigh(ctx, 20)
           support == Nearest(last, low \o <<ctx.pdl, ctx.pdc>>)[1]
           resistance == Nearest(last, high \o <<ctx.pdh, ctx.pdc>>)[1]
           above == NearestAbove(last, high \o ctx.orh)
           below == NearestBelow(last, low \o ctx.orl)
<1>1. last \in Int /\ ctx.pdh \in Int /\ ctx.pdl \in Int /\ ctx.pdc \in Int
  BY ContextTyped
<1>2. low \in Seq(Int) /\ high \in Seq(Int) /\ ctx.orh \in Seq(Int) /\ ctx.orl \in Seq(Int)
  BY SwingsTyped, ContextTyped, OptionalIs
<1> HIDE DEF last, low, high
<1>3. support \in Int /\ resistance \in Int
  <2>1. /\ low \o <<ctx.pdl, ctx.pdc>> \in Seq(Int) /\ low \o <<ctx.pdl, ctx.pdc>> # <<>>
        /\ high \o <<ctx.pdh, ctx.pdc>> \in Seq(Int) /\ high \o <<ctx.pdh, ctx.pdc>> # <<>>
    BY <1>1, <1>2
  <2> QED
    BY <1>1, <2>1, NearestTyped
<1>4. /\ above = None \/ \E q \in Int : RightSide(Long, last, q) /\ above = <<q>>
      /\ below = None \/ \E q \in Int : RightSide(Short, last, q) /\ below = <<q>>
  <2>1. high \o ctx.orh \in Seq(Int) /\ low \o ctx.orl \in Seq(Int)
    BY <1>2
  <2> QED
    BY <1>1, <2>1, NearestAre, SideIs
<1> HIDE DEF support, resistance, above, below
<1>6. Long \in Sides /\ Short \in Sides /\ "PCR" \in UnsidedSetups
  BY DEF Sides, UnsidedSetups
<1> QED
  BY <1>3, <1>4, <1>6, LevelSound DEF last, PcrExtreme, low, high, support, resistance, above,
     below

\* The spike at either level.
LEMMA OisSound ==
  ASSUME NEW ctx \in Contexts, OiSpikeReversal(ctx) # None
  PROVE  Geometry("OIS", OiSpikeReversal(ctx)[1])
<1> DEFINE last == ctx.cur.close
           low == SwingLow(ctx, 20)
           high == SwingHigh(ctx, 20)
           step == RoundStep(ctx)
           round == RoundTo(last, step)
           support == Nearest(last, low \o <<ctx.pdl, ctx.pdc, round - step, round>>)[1]
           resistance == Nearest(last, high \o <<ctx.pdh, ctx.pdc, round, round + step>>)[1]
           above == NearestAbove(last, high \o ctx.orh \o <<ctx.pdh>>)
           below == NearestBelow(last, low \o ctx.orl \o <<ctx.pdl>>)
<1>1. last \in Int /\ ctx.pdh \in Int /\ ctx.pdl \in Int /\ ctx.pdc \in Int
  BY ContextTyped
<1>2. low \in Seq(Int) /\ high \in Seq(Int) /\ ctx.orh \in Seq(Int) /\ ctx.orl \in Seq(Int)
  BY SwingsTyped, ContextTyped, OptionalIs
<1> HIDE DEF last, low, high
<1>3. step \in Int /\ round \in Int
  BY <1>1, RoundTyped DEF RoundStep
<1> HIDE DEF step, round
<1>4. support \in Int /\ resistance \in Int
  <2>1. /\ low \o <<ctx.pdl, ctx.pdc, round - step, round>> \in Seq(Int)
        /\ low \o <<ctx.pdl, ctx.pdc, round - step, round>> # <<>>
        /\ high \o <<ctx.pdh, ctx.pdc, round, round + step>> \in Seq(Int)
        /\ high \o <<ctx.pdh, ctx.pdc, round, round + step>> # <<>>
    BY <1>1, <1>2, <1>3
  <2> QED
    BY <1>1, <2>1, NearestTyped
<1>5. /\ above = None \/ \E q \in Int : RightSide(Long, last, q) /\ above = <<q>>
      /\ below = None \/ \E q \in Int : RightSide(Short, last, q) /\ below = <<q>>
  <2>1. high \o ctx.orh \o <<ctx.pdh>> \in Seq(Int) /\ low \o ctx.orl \o <<ctx.pdl>> \in Seq(Int)
    BY <1>1, <1>2
  <2> QED
    BY <1>1, <2>1, NearestAre, SideIs
<1> HIDE DEF support, resistance, above, below
<1>7. Long \in Sides /\ Short \in Sides /\ "OIS" \in UnsidedSetups
  BY DEF Sides, UnsidedSetups
<1> QED
  BY <1>4, <1>5, <1>7, LevelSound DEF last, OiSpikeReversal, low, high, step, round, support,
     resistance, above, below

\* What a function takes from finitely many arguments is finite.
LEMMA FiniteImage ==
  ASSUME NEW f, IsFiniteSet(DOMAIN f), f = [x \in DOMAIN f |-> f[x]]
  PROVE  IsFiniteSet({f[x] : x \in DOMAIN f})
<1> DEFINE T == {f[x] : x \in DOMAIN f}
<1>1. f \in Surjection(DOMAIN f, T)
  BY DEF Surjection
<1> HIDE DEF T
<1>2. IsFiniteSet(T)
  BY <1>1, FS_Surjection
<1> QED
  BY <1>2 DEF T

\* The sum of the prices of finitely many touches is a whole number.
LEMMA SumTyped ==
  ASSUME NEW S, IsFiniteSet(S), \A t \in S : t[3] \in Int
  PROVE  MapThenSumSet(LAMBDA t : t[3], S) \in Int
<1> DEFINE Pick(s) == CHOOSE x \in s : TRUE
           Sum(f, s) == IF s = {} THEN 0 ELSE Pick(s)[3] + f[s \ {Pick(s)}]
           Small(n) == {s \in SUBSET S : Cardinality(s) <= n}
           Sums(n, f) == f = [s \in Small(n) |-> Sum(f, s)]
           Has(n) == \E f : Sums(n, f)
           iter == CHOOSE f : f = [s \in SUBSET S |-> Sum(f, s)]
<1>1. MapThenSumSet(LAMBDA t : t[3], S) = iter[S]
  BY DEF MapThenSumSet, MapThenFoldSet
<1>2. \A s \in SUBSET S : /\ IsFiniteSet(s) /\ Cardinality(s) \in Nat
                          /\ Cardinality(s) <= Cardinality(S) /\ Cardinality(S) \in Nat
  BY FS_Subset, FS_CardinalityType
<1>3. ASSUME NEW s \in SUBSET S, s # {}
      PROVE  /\ Pick(s) \in s /\ Pick(s)[3] \in Int
             /\ s \ {Pick(s)} \in SUBSET S
             /\ Cardinality(s \ {Pick(s)}) = Cardinality(s) - 1
  BY <1>3, <1>2, FS_RemoveElement
<1> HIDE DEF Pick
<1>5. Has(0)
  <2> DEFINE f == [s \in Small(0) |-> 0]
  <2>1. \A s \in Small(0) : s = {}
    BY <1>2, FS_EmptySet
  <2>2. f = [s \in Small(0) |-> Sum(f, s)]
    BY <2>1
  <2> QED
    BY <2>2
<1>6. ASSUME NEW n \in Nat, Has(n) PROVE Has(n + 1)
  <2>1. PICK f : Sums(n, f)
    BY <1>6
  <2> DEFINE g == [s \in Small(n + 1) |-> Sum(f, s)]
  <2>2. ASSUME NEW s \in Small(n + 1) PROVE Sum(f, s) = Sum(g, s)
    <3>1. CASE s = {}
      BY <3>1
    <3>2. CASE s # {}
      <4> DEFINE t == s \ {Pick(s)}
      <4>2. t \in Small(n) /\ t \in Small(n + 1)
        BY <1>2, <1>3, <3>2
      <4>3. f[t] = Sum(f, t)
        BY <2>1, <4>2
      <4>4. g[t] = Sum(f, t)
        BY <4>2
      <4> HIDE DEF t, g
      <4> QED
        BY <3>2, <4>3, <4>4 DEF t
    <3> QED
      BY <3>1, <3>2
  <2>3. Sums(n + 1, g)
    BY <2>2
  <2> QED
    BY <2>3
<1>7. \A n \in Nat : Has(n)
  <2> HIDE DEF Has
  <2> DEFINE bad == {n \in Nat : ~Has(n)}
  <2> SUFFICES ASSUME bad # {} PROVE FALSE
    OBVIOUS
  <2>1. bad \subseteq Nat
    OBVIOUS
  <2>2. PICK k \in bad : \A j \in bad : k <= j
    BY <2>1, LeastNatural
  <2>3. k # 0 /\ k - 1 \in Nat
    BY <1>5, <2>2
  <2>4. Has(k - 1)
    BY <2>2, <2>3
  <2>5. Has((k - 1) + 1)
    BY <1>6, <2>3, <2>4
  <2> QED
    BY <2>2, <2>5
<1>8. iter = [s \in SUBSET S |-> Sum(iter, s)]
  <2>1. PICK f : Sums(Cardinality(S), f)
    BY <1>2, <1>7
  <2>2. Small(Cardinality(S)) = SUBSET S
    BY <1>2
  <2>3. f = [s \in SUBSET S |-> Sum(f, s)]
    BY <2>1, <2>2
  <2> HIDE DEF Sum
  <2> QED
    BY <2>3
<1> HIDE DEF iter
<1>9. \A s \in SUBSET S : iter[s] \in Int
  <2> DEFINE bad == {Cardinality(s) : s \in {r \in SUBSET S : iter[r] \notin Int}}
  <2> SUFFICES ASSUME bad # {} PROVE FALSE
    OBVIOUS
  <2>1. bad \subseteq Nat
    BY <1>2
  <2>2. PICK k \in bad : \A j \in bad : k <= j
    BY <2>1, LeastNatural
  <2>3. PICK s \in SUBSET S : iter[s] \notin Int /\ Cardinality(s) = k
    BY <2>2
  <2>4. iter[s] = Sum(iter, s)
    BY <1>8
  <2>5. s # {}
    BY <2>3, <2>4
  <2>6. iter[s \ {Pick(s)}] \in Int
    <3> DEFINE t == s \ {Pick(s)}
    <3>1. t \in SUBSET S /\ Cardinality(t) = k - 1
      BY <1>3, <2>3, <2>5
    <3> HIDE DEF t
    <3>2. k \in Nat
      BY <2>1, <2>2
    <3>3. iter[t] \in Int
      BY <2>2, <3>1, <3>2
    <3> QED
      BY <3>3 DEF t
  <2>7. iter[s] = Pick(s)[3] + iter[s \ {Pick(s)}]
    BY <2>4, <2>5
  <2> QED
    BY <1>3, <2>3, <2>5, <2>6, <2>7
<1> QED
  BY <1>1, <1>9

\* The least and the greatest of some listed numbers are among them.
LEMMA ListedExtremes ==
  ASSUME NEW n \in Nat, n > 0, NEW f \in [1..n -> Int], NEW V,
         \A i \in 1..n : f[i] \in V, \A v \in V : \E i \in 1..n : v = f[i]
  PROVE  /\ Min(V) \in V /\ \A v \in V : Min(V) <= v
         /\ Max(V) \in V /\ \A v \in V : v <= Max(V)
<1>0. 1..n \subseteq 1..n /\ 1..n # {}
  BY 1 \in 1..n
<1>1. PICK i \in 1..n : \A j \in 1..n : f[i] <= f[j]
  BY <1>0, BestPlace
<1>2. \E k \in 1..n : \A j \in 1..n : f[j] <= f[k]
  <2> DEFINE g == [k \in 1..n |-> -f[k]]
  <2>1. g \in [1..n -> Int] /\ \A k \in 1..n : f[k] \in Int /\ g[k] = -f[k]
    OBVIOUS
  <2> HIDE DEF g
  <2>2. PICK k \in 1..n : \A j \in 1..n : g[k] <= g[j]
    BY <1>0, <2>1, BestPlace
  <2>3. \A j \in 1..n : f[j] <= f[k]
    BY <2>1, <2>2
  <2> QED
    BY <2>3
<1>3. \E v \in V : \A w \in V : v <= w
  BY <1>1
<1>4. \E v \in V : \A w \in V : w <= v
  BY <1>2
<1> QED
  BY <1>3, <1>4 DEF Min, Max

\* So are those of a bounded set.
LEMMA BoundedExtremes ==
  ASSUME NEW S, S \subseteq Int, S # {}, NEW b \in Int
  PROVE  /\ (\A x \in S : x >= b) => Min(S) \in S /\ \A y \in S : Min(S) <= y
         /\ (\A x \in S : x <= b) => Max(S) \in S /\ \A y \in S : y <= Max(S)
<1>1. ASSUME \A x \in S : x >= b PROVE Min(S) \in S /\ \A y \in S : Min(S) <= y
  <2> DEFINE gaps == {k \in Nat : b + k \in S}
  <2>1. PICK x \in S : TRUE
    OBVIOUS
  <2>2. x - b \in gaps
    BY <1>1, <2>1
  <2>3. gaps \subseteq Nat /\ gaps # {}
    BY <2>2
  <2>4. PICK k \in gaps : \A j \in gaps : k <= j
    BY <2>3, LeastNatural
  <2>5. b + k \in S /\ \A y \in S : b + k <= y
    BY <1>1, <2>4
  <2> QED
    BY <2>5 DEF Min
<1>2. ASSUME \A x \in S : x <= b PROVE Max(S) \in S /\ \A y \in S : y <= Max(S)
  <2> DEFINE gaps == {k \in Nat : b - k \in S}
  <2>1. PICK x \in S : TRUE
    OBVIOUS
  <2>2. b - x \in gaps
    BY <1>2, <2>1
  <2>3. gaps \subseteq Nat /\ gaps # {}
    BY <2>2
  <2>4. PICK k \in gaps : \A j \in gaps : k <= j
    BY <2>3, LeastNatural
  <2>5. b - k \in S /\ \A y \in S : y <= b - k
    BY <1>2, <2>4
  <2> QED
    BY <2>5 DEF Max
<1> QED
  BY <1>1, <1>2

\* The range of some bars.
LEMMA RangeTyped ==
  ASSUME NEW bars \in Seq(Candles), Len(bars) > 0
  PROVE  /\ Min({bars[i].low : i \in DOMAIN bars}) \in Int
         /\ \A i \in DOMAIN bars : Min({bars[j].low : j \in DOMAIN bars}) <= bars[i].low
         /\ Max({bars[i].high : i \in DOMAIN bars}) \in Int
         /\ \A i \in DOMAIN bars : bars[i].high <= Max({bars[j].high : j \in DOMAIN bars})
<1> DEFINE n == Len(bars)
           lows == {bars[i].low : i \in DOMAIN bars}
           highs == {bars[i].high : i \in DOMAIN bars}
           f == [i \in 1..n |-> bars[i].low]
           g == [i \in 1..n |-> bars[i].high]
<1>1. n \in Nat /\ n > 0 /\ DOMAIN bars = 1..n /\ \A i \in 1..n : bars[i] \in Candles
  OBVIOUS
<1>2. \A i \in 1..n : bars[i].high \in Nat /\ bars[i].low \in Nat
  BY <1>1 DEF Candles
<1>3. f \in [1..n -> Int] /\ \A i \in 1..n : f[i] = bars[i].low
  BY <1>2
<1>4. g \in [1..n -> Int] /\ \A i \in 1..n : g[i] = bars[i].high
  BY <1>2
<1>5. (\A i \in 1..n : f[i] \in lows) /\ \A v \in lows : \E i \in 1..n : v = f[i]
  BY <1>1
<1>6. (\A i \in 1..n : g[i] \in highs) /\ \A v \in highs : \E i \in 1..n : v = g[i]
  BY <1>1
<1>7. lows \subseteq Int /\ highs \subseteq Int
  BY <1>1, <1>2
<1>8. /\ \A i \in DOMAIN bars : bars[i].low \in lows
      /\ \A i \in DOMAIN bars : bars[i].high \in highs
  OBVIOUS
<1> HIDE DEF f, g, lows, highs, n
<1>9. n \in Nat /\ n > 0 /\ f \in [1..n -> Int] /\ g \in [1..n -> Int]
  BY <1>1, <1>3, <1>4
<1>10. Min(lows) \in lows /\ \A v \in lows : Min(lows) <= v
  BY <1>5, <1>9, ListedExtremes
<1>11. Max(highs) \in highs /\ \A v \in highs : v <= Max(highs)
  BY <1>6, <1>9, ListedExtremes
<1>12. /\ Min(lows) \in Int /\ \A i \in DOMAIN bars : Min(lows) <= bars[i].low
       /\ Max(highs) \in Int /\ \A i \in DOMAIN bars : bars[i].high <= Max(highs)
  BY <1>7, <1>8, <1>10, <1>11
<1> QED
  BY <1>12 DEF lows, highs

\* A history has finitely many touches, each at a whole price.
LEMMA TouchesTyped ==
  ASSUME NEW bars \in Seq(Candles), Len(bars) > 0, NEW step \in {50, 100}, NEW extra \in Seq(Int)
  PROVE  /\ IsFiniteSet(Touches(bars, step, extra, 1))
         /\ \A t \in Touches(bars, step, extra, 1) : t[3] \in Int
<1> DEFINE n == Len(bars)
           high == [i \in SwingHighs(bars, 1) |-> <<"high", i, bars[i].high>>]
           low == [i \in SwingLows(bars, 1) |-> <<"low", i, bars[i].low>>]
           D == DOMAIN extra
           more == [i \in D |-> <<"extra", i, extra[i]>>]
           round == [p \in RoundLevels(bars, step) |-> <<"round", p, p>>]
<1>1. n \in Nat /\ n > 0 /\ DOMAIN bars = 1..n /\ \A i \in 1..n : bars[i] \in Candles
  OBVIOUS
<1>2. \A i \in 1..n : bars[i].high \in Nat /\ bars[i].low \in Nat
  BY <1>1 DEF Candles
<1>3. SwingHighs(bars, 1) \subseteq 1..n /\ SwingLows(bars, 1) \subseteq 1..n
  BY <1>1 DEF SwingHighs, SwingLows
<1>4. IsFiniteSet(SwingHighs(bars, 1)) /\ IsFiniteSet(SwingLows(bars, 1))
  <2>1. IsFiniteSet(1..n)
    BY <1>1, FS_Interval
  <2> QED
    BY <1>3, <2>1, FS_Subset
<1>5. IsFiniteSet(D) /\ \A i \in D : extra[i] \in Int
  BY FS_Interval
<1>6. RoundLevels(bars, step) \subseteq Int /\ IsFiniteSet(RoundLevels(bars, step))
  <2> DEFINE lows == {bars[i].low : i \in DOMAIN bars}
             highs == {bars[i].high : i \in DOMAIN bars}
             from == (Min(lows) \div step) + 1
             to == Max(highs) \div step
             all == {step * k : k \in from..to}
  <2>1. Min(lows) \in Int /\ Max(highs) \in Int
    BY RangeTyped
  <2>3. from \in Int /\ to \in Int
    BY <2>1
  <2>4. RoundLevels(bars, step) = {p \in all : p < Max(highs)}
    BY DEF RoundLevels
  <2> HIDE DEF from, to, lows, highs
  <2>5. IsFiniteSet(from..to)
    BY <2>3, FS_Interval
  <2>6. IsFiniteSet(all)
    <3> DEFINE ks == from..to
               grid == [k \in ks |-> step * k]
    <3>1. all = {grid[k] : k \in ks}
      OBVIOUS
    <3>2. DOMAIN grid = ks /\ grid = [k \in ks |-> grid[k]]
      OBVIOUS
    <3>3. IsFiniteSet(ks)
      BY <2>5
    <3> HIDE DEF ks, grid, all
    <3> QED
      BY <3>1, <3>2, <3>3, FiniteImage
  <2>7. all \subseteq Int
    BY <2>3
  <2> QED
    BY <2>4, <2>6, <2>7, FS_Subset
<1> DEFINE H == {high[i] : i \in DOMAIN high}
           L == {low[i] : i \in DOMAIN low}
           E == {more[i] : i \in DOMAIN more}
           R == {round[p] : p \in DOMAIN round}
<1>7. Touches(bars, step, extra, 1) = ((H \cup L) \cup E) \cup R
  BY DEF Touches
<1>8. /\ \A t \in H : t[3] \in Int
      /\ \A t \in L : t[3] \in Int
      /\ \A t \in E : t[3] \in Int
      /\ \A t \in R : t[3] \in Int
  BY <1>2, <1>3, <1>5, <1>6
<1>9. /\ DOMAIN high = SwingHighs(bars, 1) /\ high = [i \in DOMAIN high |-> high[i]]
      /\ DOMAIN low = SwingLows(bars, 1) /\ low = [i \in DOMAIN low |-> low[i]]
      /\ DOMAIN more = D /\ more = [i \in DOMAIN more |-> more[i]]
      /\ DOMAIN round = RoundLevels(bars, step) /\ round = [i \in DOMAIN round |-> round[i]]
  OBVIOUS
<1> HIDE DEF high, low, more, round, D
<1>10. IsFiniteSet(H) /\ IsFiniteSet(L) /\ IsFiniteSet(E) /\ IsFiniteSet(R)
  <2>1. IsFiniteSet(H)
    BY <1>4, <1>9, FiniteImage
  <2>2. IsFiniteSet(L)
    BY <1>4, <1>9, FiniteImage
  <2>3. IsFiniteSet(E)
    BY <1>5, <1>9, FiniteImage
  <2>4. IsFiniteSet(R)
    BY <1>6, <1>9, FiniteImage
  <2> QED
    BY <2>1, <2>2, <2>3, <2>4
<1>12. \A t \in ((H \cup L) \cup E) \cup R : t[3] \in Int
  BY <1>8
<1> HIDE DEF H, L, E, R
<1>11. IsFiniteSet(((H \cup L) \cup E) \cup R)
  BY <1>10, FS_Union
<1> QED
  BY <1>7, <1>12, <1>11

\* The levels of the book are whole numbers.
LEMMA BookTyped ==
  ASSUME NEW bars \in Seq(Candles), Len(bars) > 0, NEW step \in {50, 100}, NEW extra \in Seq(Int),
         NEW tol
  PROVE  LevelBook(bars, step, extra, 1, tol) \subseteq Int
<1> DEFINE touches == Touches(bars, step, extra, 1)
           prices  == {t[3] : t \in touches}
           starts  == {p \in prices : \A q \in prices : q < p => p - q > tol}
           Group(s) == {t \in touches : t[3] >= s /\ \A r \in starts : r > s => t[3] < r}
           Average(T) == MapThenSumSet(LAMBDA t : t[3], T) \div Cardinality(T)
<1>1. IsFiniteSet(touches) /\ \A t \in touches : t[3] \in Int
  BY TouchesTyped
<1>2. LevelBook(bars, step, extra, 1, tol) = {Average(Group(s)) : s \in starts}
  BY DEF LevelBook
<1> HIDE DEF touches
<1>3. ASSUME NEW s \in starts PROVE Average(Group(s)) \in Int
  <2> DEFINE T == Group(s)
  <2>1. T \subseteq touches /\ T # {}
    <3>1. PICK t \in touches : t[3] = s
      OBVIOUS
    <3>3. t \in T
      BY <3>1, <1>1
    <3> QED
      BY <3>3
  <2> HIDE DEF T
  <2>2. IsFiniteSet(T) /\ \A t \in T : t[3] \in Int
    BY <1>1, <2>1, FS_Subset
  <2>3. Cardinality(T) \in Nat /\ Cardinality(T) # 0
    BY <2>1, <2>2, FS_CardinalityType, FS_EmptySet
  <2>4. MapThenSumSet(LAMBDA t : t[3], T) \in Int
    BY <2>2, SumTyped
  <2> DEFINE sum == MapThenSumSet(LAMBDA t : t[3], T)
             m == Cardinality(T)
  <2>5. sum \div m \in Int
    BY <2>3, <2>4
  <2>6. Average(T) \in Int
    BY <2>5
  <2> QED
    BY <2>6 DEF T
<1> HIDE DEF Average, Group, starts
<1> QED
  BY <1>2, <1>3

\* A retest stops behind its bar and aims at a level of the book that pays.
LEMMA SrfBuilds ==
  ASSUME NEW ctx \in Contexts, NEW d \in Sides, NEW book, book \subseteq Int,
         SrfBuild(ctx, d, book) # None
  PROVE  Geometry("SRF", SrfBuild(ctx, d, book)[1])
<1> DEFINE entry == ctx.cur.close
           pad == OfAtr(ctx, SRF.pad)
           sl == IF d = Short THEN ctx.cur.high + pad ELSE ctx.cur.low - pad
           paying == {p \in book : Pays(entry, sl, p, SRF.minRR)}
           targets == IF d = Short THEN {p \in paying : p <= entry} ELSE {p \in paying : p >= entry}
           tp1 == IF d = Short THEN Max(targets) ELSE Min(targets)
           type == "MARKET"
           htf == ReversalAligned(ctx, d)
<1>1. /\ entry \in Int /\ ctx.cur.low \in Int /\ ctx.cur.high \in Int
      /\ ctx.cur.low <= entry /\ entry <= ctx.cur.high
  BY ContextTyped
<1>2. pad \in Nat
  BY OfAtrNat DEF SRF
<1> HIDE DEF entry, pad
<1>3. sl \in Int /\ (d = Short => sl >= entry) /\ (d = Long => sl <= entry)
  BY <1>1, <1>2, SignIs
<1> HIDE DEF sl
<1>4. /\ targets \subseteq Int
      /\ \A p \in targets : Pays(entry, sl, p, SRF.minRR)
      /\ d = Short => \A p \in targets : p <= entry
      /\ d # Short => \A p \in targets : p >= entry
  OBVIOUS
<1> HIDE DEF targets, tp1, type, htf
<1>5. /\ StopFits(entry, sl, SRF) /\ targets # {}
      /\ SrfBuild(ctx, d, book) = Signal(ctx, "SRF", d, entry, sl, tp1, type, htf, 0)
  BY DEF SrfBuild, entry, pad, sl, targets, tp1, type, htf
<1>6. entry > 0 /\ sl # entry
  BY <1>5 DEF StopFits
<1>7. RightSide(d, sl, entry)
  BY <1>1, <1>3, <1>6, SignIs, SideIs
<1>8. tp1 \in targets
  BY <1>1, <1>4, <1>5, BoundedExtremes DEF tp1
<1>9. tp1 \in Int /\ Pays(entry, sl, tp1, SRF.minRR)
  BY <1>4, <1>8
<1>10. tp1 # entry
  BY <1>1, <1>3, <1>6, DistIs, <1>9 DEF Pays, SRF
<1>11. RightSide(d, entry, tp1)
  BY <1>4, <1>8, <1>1, <1>9, <1>10, SideIs, SignIs
<1>12. Pays(entry, sl, tp1, TP1MinRR)
  BY <1>1, <1>3, <1>9, PaysMore DEF SRF, TP1MinRR
<1> QED
  BY <1>5, <1>1, <1>3, <1>6, <1>7, <1>9, <1>11, <1>12, SignalSound

\* So a retest is sound.
LEMMA SrfSound ==
  ASSUME NEW ctx \in Contexts, SrFlipRetest(ctx) # None
  PROVE  Geometry("SRF", SrFlipRetest(ctx)[1])
<1> DEFINE extra == <<ctx.pdh, ctx.pdl, ctx.pdc>>
           step == RoundStep(ctx)
           tol == OfAtr(ctx, 20)
           book == LevelBook(ctx.c15, step, extra, 1, tol)
<1>1. ctx.c15 \in Seq(Candles) /\ extra \in Seq(Int)
  BY ContextTyped
<1>2. step \in {50, 100}
  BY DEF RoundStep
<1> HIDE DEF extra, step, tol
<1>3. /\ Len(ctx.c15) >= 6
      /\ \/ SrFlipRetest(ctx) = SrfBuild(ctx, Short, book)
         \/ SrFlipRetest(ctx) = SrfBuild(ctx, Long, book)
  BY DEF SrFlipRetest, extra, step, tol
<1>4. book \subseteq Int
  BY <1>1, <1>3, <1>2, BookTyped
<1> HIDE DEF book
<1> QED
  BY <1>3, <1>4, SrfBuilds DEF Sides

\* A reclaim stops behind the bars that failed.
LEMMA FarBuilds ==
  ASSUME NEW ctx \in Contexts, NEW d \in Sides, NEW sl \in Int, RightSide(d, sl, ctx.cur.close),
         FarBuild(ctx, d, sl) # None
  PROVE  Geometry("FAR", FarBuild(ctx, d, sl)[1])
<1> DEFINE entry == ctx.cur.close
           near == IF d = Long THEN NearestAbove(entry, SwingHigh(ctx, 20))
                   ELSE NearestBelow(entry, SwingLow(ctx, 20))
           swing == IF Len(ctx.c15) < 3 THEN None
                    ELSE IF d = Long THEN NearestAbove(entry, SwingHigh(ctx, 20))
                    ELSE NearestBelow(entry, SwingLow(ctx, 20))
           tp1 == IF swing # None THEN swing[1] ELSE Multiple(d, entry, sl, 200)
           type == "MARKET"
           htf == TrendMatches(ctx, d)
<1>1. entry \in Int
  BY ContextTyped
<1>2. near = None \/ \E q \in Int : RightSide(d, entry, q) /\ near = <<q>>
  <2>1. SwingHigh(ctx, 20) \in Seq(Int) /\ SwingLow(ctx, 20) \in Seq(Int)
    BY SwingsTyped, OptionalIs
  <2>2. /\ d = Long => near = NearestAbove(entry, SwingHigh(ctx, 20))
        /\ d = Short => near = NearestBelow(entry, SwingLow(ctx, 20))
    BY SignIs
  <2> HIDE DEF near, entry
  <2>3. CASE d = Long
    BY <1>1, <2>1, <2>2, <2>3, NearestFollow
  <2>4. CASE d = Short
    BY <1>1, <2>1, <2>2, <2>4, NearestFollow
  <2> QED
    BY <2>3, <2>4, SignIs
<1>3. swing = None \/ swing = near
  OBVIOUS
<1> HIDE DEF entry, near, swing, tp1, type, htf
<1>4. /\ StopFits(entry, sl, FAR) /\ Pays(entry, sl, tp1, FAR.minRR)
      /\ FarBuild(ctx, d, sl) = Signal(ctx, "FAR", d, entry, sl, tp1, type, htf, 0)
  BY DEF FarBuild, entry, swing, tp1, type, htf
<1>5. entry > 0 /\ sl # entry
  BY <1>4 DEF StopFits
<1>6. RightSide(d, sl, entry)
  BY DEF entry
<1>7. tp1 \in Int /\ RightSide(d, entry, tp1)
  BY <1>1, <1>2, <1>3, <1>5, MultiplePays DEF tp1
<1>8. Pays(entry, sl, tp1, TP1MinRR)
  BY <1>1, <1>4, <1>7, PaysMore DEF FAR, TP1MinRR
<1> QED
  BY <1>4, <1>1, <1>5, <1>6, <1>7, <1>8, SignalSound

\* So a reclaim is sound.
LEMMA FarSound ==
  ASSUME NEW ctx \in Contexts, FailedAuctionReclaim(ctx) # None
  PROVE  Geometry("FAR", FailedAuctionReclaim(ctx)[1])
<1> DEFINE last == ctx.cur.close
           look == ctx.look
           bars == {look[i] : i \in DOMAIN look}
           tops == (IF ctx.orLocked THEN ctx.orh ELSE None) \o <<ctx.pdh>>
           bottoms == (IF ctx.orLocked THEN ctx.orl ELSE None) \o <<ctx.pdl>>
           least == Min({b.low : b \in bars})
           most == Max({b.high : b \in bars})
<1>1. last \in Int /\ ctx.pdh \in Int /\ ctx.pdl \in Int
      /\ ctx.orh \in Seq(Int) /\ ctx.orl \in Seq(Int)
  BY ContextTyped, OptionalIs
<1>2. look \in Seq(Candles)
  BY DEF Contexts
<1>3. tops \in Seq(Int) /\ bottoms \in Seq(Int)
  BY <1>1 DEF None
<1> HIDE DEF last, tops, bottoms, least, most
<1>4. \/ /\ \E i \in DOMAIN tops : last > tops[i] /\ \E b \in bars : b.close < tops[i]
         /\ FailedAuctionReclaim(ctx) = FarBuild(ctx, Long, least)
      \/ /\ \E i \in DOMAIN bottoms : last < bottoms[i] /\ \E b \in bars : b.close > bottoms[i]
         /\ FailedAuctionReclaim(ctx) = FarBuild(ctx, Short, most)
  BY DEF FailedAuctionReclaim, last, tops, bottoms, least, most
<1>5. ASSUME bars # {}
      PROVE  /\ least \in Int /\ most \in Int
             /\ \A b \in bars : /\ b.close \in Int /\ b.low \in Int /\ b.high \in Int
                                /\ least <= b.close /\ b.close <= most
  <2>1. Len(look) > 0
    BY <1>2, <1>5
  <2>2. {b.low : b \in bars} = {look[i].low : i \in DOMAIN look}
    OBVIOUS
  <2>3. {b.high : b \in bars} = {look[i].high : i \in DOMAIN look}
    OBVIOUS
  <2>4. /\ least \in Int /\ most \in Int
        /\ \A i \in DOMAIN look : least <= look[i].low /\ look[i].high <= most
    BY <1>2, <2>1, <2>2, <2>3, RangeTyped DEF least, most
  <2>5. \A i \in DOMAIN look : look[i] \in Candles
    BY <1>2
  <2>6. \A i \in DOMAIN look :
          /\ look[i].close \in Int /\ look[i].low \in Int /\ look[i].high \in Int
          /\ look[i].low <= look[i].close /\ look[i].close <= look[i].high
    BY <2>5 DEF Candles
  <2> QED
    BY <2>4, <2>6
<1> HIDE DEF bars
<1>6. \A i \in DOMAIN tops : tops[i] \in Int
  BY <1>3
<1>7. \A i \in DOMAIN bottoms : bottoms[i] \in Int
  BY <1>3
<1>8. CASE /\ \E i \in DOMAIN tops : last > tops[i] /\ \E b \in bars : b.close < tops[i]
           /\ FailedAuctionReclaim(ctx) = FarBuild(ctx, Long, least)
  BY <1>1, <1>5, <1>6, <1>8, SideIs, FarBuilds DEF last
<1>9. CASE /\ \E i \in DOMAIN bottoms : last < bottoms[i] /\ \E b \in bars : b.close > bottoms[i]
           /\ FailedAuctionReclaim(ctx) = FarBuild(ctx, Short, most)
  BY <1>1, <1>5, <1>7, <1>9, SideIs, FarBuilds DEF last
<1> QED
  BY <1>4, <1>8, <1>9

\* A divergence stops behind the extreme, which the bar has not passed.
LEMMA DivBuilds ==
  ASSUME NEW ctx \in Contexts, NEW d \in Sides, NEW extreme \in Int,
         d = Short => extreme >= ctx.cur.high, d = Long => extreme <= ctx.cur.low,
         DivBuild(ctx, d, extreme) # None
  PROVE  Geometry("DIV", DivBuild(ctx, d, extreme)[1])
<1> DEFINE entry == ctx.cur.close
           pad == OfAtr(ctx, DIV.pad)
           sl == IF d = Short THEN extreme + pad ELSE extreme - pad
           down == <<ctx.pdl>> \o ctx.orl
           up == <<ctx.pdh>> \o ctx.orh
           target == IF d = Short THEN NearestBelow(entry, down) ELSE NearestAbove(entry, up)
           tp1 == IF target = None THEN Multiple(d, entry, sl, 200) ELSE target[1]
           type == "MARKET"
           htf == NotAgainst(ctx, d)
<1>1. /\ entry \in Int /\ ctx.cur.low \in Int /\ ctx.cur.high \in Int
      /\ ctx.cur.low <= entry /\ entry <= ctx.cur.high
  BY ContextTyped
<1>2. pad \in Nat
  BY OfAtrNat DEF DIV
<1>3. up \in Seq(Int) /\ down \in Seq(Int)
  BY ContextTyped, OptionalIs
<1> HIDE DEF pad
<1>4. sl \in Int /\ (d = Short => sl >= entry) /\ (d = Long => sl <= entry)
  BY <1>1, <1>2, SignIs
<1> HIDE DEF entry, sl, up, down
<1>5. target = None \/ \E q \in Int : RightSide(d, entry, q) /\ target = <<q>>
  BY SignIs, <1>1, <1>3, NearestFollow
<1> HIDE DEF target, tp1, type, htf
<1>6. /\ StopFits(entry, sl, DIV) /\ Pays(entry, sl, tp1, DIV.minRR)
      /\ DivBuild(ctx, d, extreme) = Signal(ctx, "DIV", d, entry, sl, tp1, type, htf, 0)
  BY DEF DivBuild, entry, pad, sl, up, down, target, tp1, type, htf
<1>7. entry > 0 /\ sl # entry
  BY <1>6 DEF StopFits
<1>8. RightSide(d, sl, entry)
  BY <1>1, <1>4, <1>7, SignIs, SideIs
<1>9. tp1 \in Int /\ RightSide(d, entry, tp1)
  <2>1. entry \in Int /\ sl \in Int
    BY <1>1, <1>4
  <2>2. Multiple(d, entry, sl, 200) \in Int /\ RightSide(d, entry, Multiple(d, entry, sl, 200))
    BY <1>7, <2>1, MultiplePays
  <2> QED
    BY <1>5, <2>2 DEF tp1
<1>10. Pays(entry, sl, tp1, TP1MinRR)
  BY <1>1, <1>4, <1>6, <1>9, PaysMore DEF DIV, TP1MinRR
<1> QED
  BY <1>6, <1>1, <1>4, <1>7, <1>8, <1>9, <1>10, SignalSound

\* So a divergence is sound.
LEMMA DivSound ==
  ASSUME NEW ctx \in Contexts, DivergenceContinuation(ctx) # None
  PROVE  Geometry("DIV", DivergenceContinuation(ctx)[1])
<1>1. /\ ctx.highs.rsi # None => ctx.highs.recent >= ctx.cur.high
      /\ ctx.lows.rsi # None => ctx.lows.recent <= ctx.cur.low
      /\ ctx.highs \in Extremes /\ ctx.lows \in Extremes
  BY DEF Contexts
<1>3. \/ /\ ctx.highs.rsi # None
         /\ DivergenceContinuation(ctx) = DivBuild(ctx, Short, ctx.highs.recent)
      \/ /\ ctx.lows.rsi # None
         /\ DivergenceContinuation(ctx) = DivBuild(ctx, Long, ctx.lows.recent)
  BY DEF DivergenceContinuation
<1>4. Long \in Sides /\ Short \in Sides /\ Long # Short
  BY DEF Sides, Long, Short
<1> QED
  BY <1>1, <1>3, <1>4, DivBuilds DEF Extremes

\* A break of the bands stops at their mean, and takes no nearer target than
\* twice its stop.
LEMMA QcbSound ==
  ASSUME NEW ctx \in Contexts, QuietCompressionBreak(ctx) # None
  PROVE  Geometry("QCB", QuietCompressionBreak(ctx)[1])
<1> DEFINE entry == ctx.cur.close
           pad == OfAtr(ctx, QCB.pad)
           d == IF entry > ctx.bands.upper THEN Long ELSE Short
           sl == IF d = Long THEN ctx.bands.mid - pad ELSE ctx.bands.mid + pad
           tp1 == QcbTarget(ctx, d, entry, sl)
           type == "MARKET"
           htf == TrendMatches(ctx, d)
<1>1. entry \in Int /\ ctx.orh \in Seq(Int) /\ ctx.orl \in Seq(Int)
  BY ContextTyped, OptionalIs
<1>2. pad \in Nat
  BY OfAtrNat DEF QCB
<1>3. /\ ctx.bands.upper \in Int /\ ctx.bands.mid \in Int /\ ctx.bands.lower \in Int
      /\ ctx.bands.lower <= ctx.bands.mid /\ ctx.bands.mid <= ctx.bands.upper
  BY DEF Contexts, Bands
<1> HIDE DEF entry, pad, d, sl, tp1, type, htf
<1>4. /\ entry > ctx.bands.upper \/ entry < ctx.bands.lower
      /\ StopFits(entry, sl, QCB)
      /\ QuietCompressionBreak(ctx) = Signal(ctx, "QCB", d, entry, sl, tp1, type, htf, ctx.volume)
  BY DEF QuietCompressionBreak, entry, pad, d, sl, tp1, type, htf
<1>5. entry > 0 /\ sl # entry
  BY <1>4 DEF StopFits
<1>6. d \in Sides
  BY DEF d, Sides
<1>7. sl \in Int /\ RightSide(d, sl, entry)
  BY <1>1, <1>2, <1>3, SideIs, SignIs, <1>4 DEF d, sl, Long, Short
<1> DEFINE least == Multiple(d, entry, sl, QCB.minRR)
<1>8. /\ least \in Int /\ RightSide(d, entry, least)
      /\ Dist(least, entry) = 2 * Dist(entry, sl)
  BY <1>1, <1>5, <1>6, <1>7, MultiplePays DEF QCB
<1> HIDE DEF least
\* The target is the least one, or one further on.
<1>9. tp1 \in Int /\ (d = Long => tp1 >= least) /\ (d = Short => tp1 <= least)
  <2> DEFINE up == NearestAbove(entry, SwingHigh(ctx, 20))
             down == NearestBelow(entry, SwingLow(ctx, 20))
             swing == IF Len(ctx.c15) < 3 THEN None ELSE IF d = Long THEN up ELSE down
             first == IF swing # None THEN swing[1] ELSE least
             range == IF d = Long THEN NearestAbove(entry, ctx.orh) ELSE NearestBelow(entry, ctx.orl)
             nearer == IF range = None THEN first
                       ELSE IF d = Long THEN Min({first, range[1]}) ELSE Max({first, range[1]})
  <2>1. SwingHigh(ctx, 20) \in Seq(Int) /\ SwingLow(ctx, 20) \in Seq(Int)
    BY SwingsTyped, OptionalIs
  <2>2. /\ up # None => up[1] \in Int
        /\ down # None => down[1] \in Int
    BY <1>1, <2>1, NearestAre
  <2>3. range # None => range[1] \in Int
    BY <1>1, NearestAre
  <2>4. tp1 = IF d = Long THEN Max({nearer, least}) ELSE Min({nearer, least})
    BY DEF tp1, QcbTarget, least
  <2> HIDE DEF up, down
  <2>5. swing # None => swing[1] \in Int
    BY <2>2
  <2> HIDE DEF swing, range
  <2>6. first \in Int
    BY <1>8, <2>5
  <2> HIDE DEF first
  <2>7. nearer \in Int
    <3>1. CASE range = None
      BY <2>6, <3>1
    <3>2. CASE range # None
      <4> DEFINE r == range[1]
      <4>1. r \in Int
        BY <2>3, <3>2
      <4> HIDE DEF r
      <4> QED
        BY <3>2, <2>6, <4>1, OfTwo DEF r
    <3> QED
      BY <3>1, <3>2
  <2> HIDE DEF nearer
  <2> DEFINE hi == Max({nearer, least})
             lo == Min({nearer, least})
  <2>11. hi \in Int /\ lo \in Int /\ hi >= least /\ lo <= least
    BY <1>8, <2>7, OfTwo
  <2>12. tp1 = IF d = Long THEN hi ELSE lo
    BY <2>4
  <2> HIDE DEF hi, lo
  <2>13. Long # Short
    BY DEF Long, Short
  <2> HIDE DEF tp1
  <2>9. CASE d = Long
    BY <2>9, <2>12, <2>13, <2>11
  <2>10. CASE d = Short
    BY <2>10, <2>12, <2>13, <2>11
  <2> QED
    BY <1>6, <2>9, <2>10, SignIs
<1>10. RightSide(d, entry, tp1) /\ Pays(entry, sl, tp1, TP1MinRR)
  BY <1>1, <1>7, DistIs, <1>8, <1>9, SideIs, <1>6, SignIs DEF Dist, Pays, TP1MinRR
<1>11. Geometry("QCB", Signal(ctx, "QCB", d, entry, sl, tp1, type, htf, ctx.volume)[1])
  BY <1>1, <1>5, <1>6, <1>7, <1>9, <1>10, SignalSound
<1> QED
  BY <1>4, <1>11

\* Where the averages cross, the bar has closed beyond the slow one: else
\* both come towards it from the far side, and the fast one stays ahead.
LEMMA CrossedBeyond ==
  ASSUME NEW x \in Crosses
  PROVE  /\ x.was21 < x.was55 /\ x.now21 > x.now55 => x.now55 <= x.close
         /\ x.was21 > x.was55 /\ x.now21 < x.now55 => x.now55 >= x.close
<1> DEFINE a == x.was21  b == x.was55  p == x.now21  q == x.now55  c == x.close
<1>1. /\ a \in Int /\ b \in Int /\ p \in Int /\ q \in Int /\ c \in Int
      /\ Between(p, a, c) /\ Between(q, b, c)
      /\ Dist(p, c) * Dist(b, c) <= Dist(q, c) * Dist(a, c)
  BY DEF Crosses, Averages
<1> HIDE DEF a, b, p, q, c
<1>2. ASSUME NEW u \in Int, NEW v \in Int, NEW y \in Int, NEW z \in Int, u > y, y > 0, v > z, z > 0
      PROVE  u * v > y * z
  BY <1>2
<1>3. ASSUME a < b, p > q, q > c PROVE FALSE
  <2>1. a >= p
    BY <1>1, <1>3 DEF Between
  <2> DEFINE u == p - c  v == b - c  y == q - c  z == a - c
  <2>3. u \in Int /\ v \in Int /\ y \in Int /\ z \in Int /\ u > y /\ y > 0 /\ v > z /\ z > 0
    BY <1>1, <1>3, <2>1
  <2>4. u * v <= y * z
    BY <1>1, <1>3, <2>1 DEF Dist
  <2> HIDE DEF u, v, y, z
  <2>5. u * v > y * z /\ u * v \in Int /\ y * z \in Int
    BY <1>2, <2>3
  <2> QED
    BY <2>4, <2>5
<1>4. ASSUME a > b, p < q, q < c PROVE FALSE
  <2>1. a <= p
    BY <1>1, <1>4 DEF Between
  <2> DEFINE u == c - p  v == c - b  y == c - q  z == c - a
  <2>3. u \in Int /\ v \in Int /\ y \in Int /\ z \in Int /\ u > y /\ y > 0 /\ v > z /\ z > 0
    BY <1>1, <1>4, <2>1
  <2>4. u * v <= y * z
    BY <1>1, <1>4, <2>1 DEF Dist
  <2> HIDE DEF u, v, y, z
  <2>5. u * v > y * z /\ u * v \in Int /\ y * z \in Int
    BY <1>2, <2>3
  <2> QED
    BY <2>4, <2>5
<1> QED
  BY <1>1, <1>3, <1>4 DEF a, b, p, q, c

\* So a crossing stops behind the slow average.
LEMMA MacSound ==
  ASSUME NEW ctx \in Contexts, MaCrossTrendShift(ctx) # None
  PROVE  Geometry("MAC", MaCrossTrendShift(ctx)[1])
<1> DEFINE x == ctx.cross[1]
           up == x.was21 < x.was55 /\ x.now21 > x.now55
           d == IF up THEN Long ELSE Short
           entry == x.close
           pad == (x.atr * MAC.pad) \div 100
           sl == IF d = Long THEN x.now55 - pad ELSE x.now55 + pad
           tops == SwingHigh(ctx, 20) \o <<ctx.pdh>>
           bottoms == SwingLow(ctx, 20) \o <<ctx.pdl>>
           target == IF d = Long THEN NearestAbove(entry, tops) ELSE NearestBelow(entry, bottoms)
           tp1 == IF target = None THEN Multiple(d, entry, sl, 200) ELSE target[1]
           type == "MARKET"
           htf == NotAgainst(ctx, d)
<1> HIDE DEF x
<1>1. /\ ctx.cross # None
      /\ up \/ (x.was21 > x.was55 /\ x.now21 < x.now55)
      /\ MaCrossTrendShift(ctx) = MacBuild(ctx, d, x)
  BY DEF MaCrossTrendShift, x
<1>2. x \in Crosses
  <2>1. ctx.cross \in Optional(Crosses)
    BY DEF Contexts
  <2>2. ctx.cross \in Seq(Crosses)
    BY <2>1 DEF Optional
  <2>3. Len(ctx.cross) # 0
    BY <1>1, <2>2 DEF None
  <2> QED
    BY <2>2, <2>3 DEF x
<1>3. x.atr \in Nat /\ x.now55 \in Int /\ x.close \in Int
  BY <1>2 DEF Crosses
<1>4. pad \in Nat
  <2> DEFINE y == x.atr * 50
  <2>1. y \in Nat
    BY <1>3
  <2> HIDE DEF y
  <2>2. y \div 100 \in Nat
    BY <2>1
  <2> QED
    BY <2>2 DEF MAC, y
<1> HIDE DEF pad
<1>5. d \in Sides
  BY DEF Sides
<1>6. /\ up => x.now55 <= x.close
      /\ ~up => x.now55 >= x.close
  BY <1>1, <1>2, CrossedBeyond
<1>7. /\ d = Long => up
      /\ d = Short => ~up
  BY SignIs DEF Long, Short
<1> HIDE DEF up, d
<1>8. sl \in Int /\ (d = Short => sl >= entry) /\ (d = Long => sl <= entry)
  BY <1>3, <1>4, <1>6, <1>7, SignIs, <1>5
<1>9. entry \in Int /\ tops \in Seq(Int) /\ bottoms \in Seq(Int)
  <2>1. SwingHigh(ctx, 20) \in Seq(Int) /\ SwingLow(ctx, 20) \in Seq(Int)
    BY SwingsTyped, OptionalIs
  <2>2. ctx.pdh \in Int /\ ctx.pdl \in Int
    BY ContextTyped
  <2> QED
    BY <1>3, <2>1, <2>2
<1> HIDE DEF entry, sl, tops, bottoms
<1>10. target = None \/ \E q \in Int : RightSide(d, entry, q) /\ target = <<q>>
  BY <1>9, NearestFollow, SignIs, <1>5
<1> HIDE DEF target, tp1, type, htf
<1>11. /\ StopFits(entry, sl, MAC) /\ Pays(entry, sl, tp1, MAC.minRR)
       /\ MacBuild(ctx, d, x) = Signal(ctx, "MAC", d, entry, sl, tp1, type, htf, 0)
  BY <1>1 DEF MacBuild, entry, pad, sl, tops, bottoms, target, tp1, type, htf
<1>12. entry > 0 /\ sl # entry
  BY <1>11 DEF StopFits
<1>13. RightSide(d, sl, entry)
  BY <1>5, <1>8, <1>9, <1>12, SignIs, SideIs
<1>14. tp1 \in Int /\ RightSide(d, entry, tp1)
  BY <1>5, <1>8, <1>9, <1>10, <1>12, MultiplePays DEF tp1
<1>15. Pays(entry, sl, tp1, TP1MinRR)
  BY <1>8, <1>9, <1>11, <1>14, PaysMore DEF MAC, TP1MinRR
<1> QED
  BY <1>1, <1>11, <1>5, <1>8, <1>9, <1>12, <1>13, <1>14, <1>15, SignalSound

\* The gamma squeeze goes from the price to max pain.
LEMMA EgsSound ==
  ASSUME NEW ctx \in Contexts, ExpiryGammaSqueeze(ctx) # None
  PROVE  Geometry("EGS", ExpiryGammaSqueeze(ctx)[1])
<1> DEFINE entry == ctx.cur.close
           pain == ctx.maxPain[1]
           d == IF pain > entry THEN Long ELSE Short
           pad == OfAtr(ctx, EGS.pad)
           sl == IF d = Long THEN entry - pad ELSE entry + pad
           type == "MARKET"
           htf == FALSE
<1>1. entry \in Int /\ ctx.maxPain \in Optional(Nat)
  <2>1. ctx.maxPain \in Optional(Nat)
    BY DEF Contexts
  <2> QED
    BY <2>1, ContextTyped
<1>2. pad \in Nat
  BY OfAtrNat DEF EGS
<1> HIDE DEF entry, pain, pad
<1>3. /\ ctx.maxPain # None /\ entry > 0
      /\ ShareIn(Dist(entry, pain), entry, EGS.minGap, EGS.maxGap)
      /\ StopFits(entry, sl, EGS)
      /\ ExpiryGammaSqueeze(ctx) = Signal(ctx, "EGS", d, entry, sl, pain, type, htf, 0)
  <2> DEFINE afternoon == ctx.expiry /\ 810 <= ctx.time /\ ctx.time <= 900
             there == ctx.maxPain # None /\ entry > 0
             gap == ShareIn(Dist(entry, pain), entry, EGS.minGap, EGS.maxGap)
             fits == StopFits(entry, sl, EGS)
  <2>1. ExpiryGammaSqueeze(ctx) = IF afternoon /\ there /\ gap /\ fits
                                  THEN Signal(ctx, "EGS", d, entry, sl, pain, type, htf, 0)
                                  ELSE None
    BY DEF ExpiryGammaSqueeze, entry, pain, pad
  <2> HIDE DEF afternoon, there, gap, fits, d, sl, type, htf
  <2>2. /\ there /\ gap /\ fits
        /\ ExpiryGammaSqueeze(ctx) = Signal(ctx, "EGS", d, entry, sl, pain, type, htf, 0)
    BY <2>1
  <2> QED
    BY <2>2 DEF there, gap, fits
<1>4. pain \in Int
  BY <1>1, <1>3, OptionalIs DEF pain
<1>5. sl # entry
  BY <1>3 DEF StopFits
<1>6. pain # entry
  BY <1>1, <1>3, <1>4, DistIs DEF ShareIn, EGS
<1>7. d \in Sides /\ (d = Long => pain > entry) /\ (d = Short => ~ (pain > entry))
  BY DEF Sides, Long, Short
<1> HIDE DEF d
<1>8. sl \in Int /\ RightSide(d, sl, entry)
  BY <1>1, <1>2, <1>5, SideIs, SignIs, <1>7
<1> HIDE DEF sl, type, htf
<1>9. RightSide(d, entry, pain)
  BY <1>1, <1>4, <1>6, <1>7, SideIs, SignIs
<1> QED
  BY <1>3, <1>1, <1>4, <1>7, <1>8, <1>9, SignalSound

\* Whatever an evaluator finds, in whatever context, is sound.
LEMMA EvaluateSound ==
  ASSUME NEW ctx \in Contexts, NEW setup \in SetupClasses, Evaluate(setup, ctx) # None
  PROVE  Geometry(setup, Evaluate(setup, ctx)[1])
<1>1. CASE setup = "LSR"
  BY <1>1, LsrSound DEF Evaluate, IndexOnly
<1>2. CASE setup = "ORB"
  BY <1>2, OrbSound DEF Evaluate, IndexOnly
<1>3. CASE setup = "TPE"
  BY <1>3, TpeSound DEF Evaluate, IndexOnly
<1>4. CASE setup = "VSB"
  BY <1>4, BreakoutSound DEF Evaluate, IndexOnly, VolumeSurgeBreakout, Sides
<1>5. CASE setup = "BDS"
  BY <1>5, BreakoutSound DEF Evaluate, IndexOnly, BreakdownShort, Sides
<1>6. CASE setup = "SRF"
  BY <1>6, SrfSound DEF Evaluate, IndexOnly
<1>7. CASE setup = "VIX"
  BY <1>7, VixSound DEF Evaluate, IndexOnly
<1>8. CASE setup = "PCR"
  BY <1>8, PcrSound DEF Contexts, Evaluate, IndexOnly
<1>9. CASE setup = "FAR"
  BY <1>9, FarSound DEF Evaluate, IndexOnly
<1>10. CASE setup = "DIV"
  BY <1>10, DivSound DEF Evaluate, IndexOnly
<1>11. CASE setup = "QCB"
  BY <1>11, QcbSound DEF Evaluate, IndexOnly
<1>12. CASE setup = "MAC"
  BY <1>12, MacSound DEF Evaluate, IndexOnly
<1>13. CASE setup = "OIS"
  BY <1>13, OisSound DEF Evaluate, IndexOnly
<1>14. CASE setup = "EGS"
  BY <1>14, EgsSound DEF Contexts, Evaluate, IndexOnly
<1> QED
  BY <1>1, <1>2, <1>3, <1>4, <1>5, <1>6, <1>7, <1>8, <1>9, <1>10, <1>11, <1>12, <1>13, <1>14
     DEF SetupClasses

(***************************************************************************)
(* A half and its reflection.                                              *)
(***************************************************************************)
Values(list) == {list[i] : i \in DOMAIN list}
Reflect(a, S) == {a - v : v \in S}

\* A list and its reflection.
LEMMA FlipAllIs ==
  ASSUME NEW a \in Int, NEW list \in Seq(Int)
  PROVE  /\ FlipAll(a, list) \in Seq(Int) /\ Len(FlipAll(a, list)) = Len(list)
         /\ DOMAIN FlipAll(a, list) = DOMAIN list
         /\ \A i \in DOMAIN list : FlipAll(a, list)[i] = a - list[i]
         /\ FlipAll(a, FlipAll(a, list)) = list
<1>1. Len(list) \in Nat /\ DOMAIN list = 1..Len(list)
  OBVIOUS
<1>2. \A i \in DOMAIN list : list[i] \in Int
  OBVIOUS
<1> DEFINE g == FlipAll(a, list)
<1>3. DOMAIN g = 1..Len(list) /\ \A i \in 1..Len(list) : g[i] = a - list[i] /\ g[i] \in Int
  BY <1>1, <1>2 DEF FlipAll
<1>4. g \in [1..Len(list) -> Int]
  BY <1>1, <1>2 DEF FlipAll
<1>5. g \in Seq(Int)
  BY <1>1, <1>4, SeqDef
<1> HIDE DEF g
<1>6. Len(g) = Len(list)
  BY <1>1, <1>3, <1>5
<1>7. FlipAll(a, g) = list
  BY <1>1, <1>2, <1>3 DEF FlipAll
<1> QED
  BY <1>1, <1>3, <1>5, <1>6, <1>7 DEF g

\* The reflection of a list that follows another.
LEMMA FlipAllJoins ==
  ASSUME NEW a \in Int, NEW s \in Seq(Int), NEW t \in Seq(Int)
  PROVE  FlipAll(a, s \o t) = FlipAll(a, s) \o FlipAll(a, t)
<1> DEFINE f == FlipAll(a, s)  g == FlipAll(a, t)  st == s \o t  h == FlipAll(a, st)
           fg == f \o g
<1>1. f \in Seq(Int) /\ Len(f) = Len(s) /\ \A i \in DOMAIN s : f[i] = a - s[i]
  BY FlipAllIs
<1>2. g \in Seq(Int) /\ Len(g) = Len(t) /\ \A i \in DOMAIN t : g[i] = a - t[i]
  BY FlipAllIs
<1>3. st \in Seq(Int)
  OBVIOUS
<1> HIDE DEF st
<1>4. h \in Seq(Int) /\ Len(h) = Len(st) /\ \A i \in DOMAIN st : h[i] = a - st[i]
  BY <1>3, FlipAllIs
<1> HIDE DEF f, g, h
<1>5. /\ Len(s) \in Nat /\ DOMAIN s = 1..Len(s) /\ Len(t) \in Nat /\ DOMAIN t = 1..Len(t)
      /\ Len(st) = Len(s) + Len(t) /\ DOMAIN st = 1..(Len(s) + Len(t))
      /\ \A i \in 1..Len(st) : st[i] = IF i <= Len(s) THEN s[i] ELSE t[i - Len(s)]
  BY DEF st
<1>6. fg \in Seq(Int) /\ Len(fg) = Len(s) + Len(t)
  <2>1. f \in Seq(Int) /\ g \in Seq(Int) /\ Len(f) = Len(s) /\ Len(g) = Len(t)
    BY <1>1, <1>2
  <2>2. fg \in Seq(Int) /\ Len(fg) = Len(f) + Len(g)
    BY <2>1, ConcatProperties
  <2> QED
    BY <2>1, <2>2
<1>7. \A i \in 1..(Len(s) + Len(t)) : fg[i] = IF i <= Len(s) THEN f[i] ELSE g[i - Len(s)]
  BY <1>1, <1>2
<1> HIDE DEF fg
<1>8. ASSUME NEW i \in 1..(Len(s) + Len(t)) PROVE h[i] = fg[i]
  <2>1. CASE i <= Len(s)
    <3>1. i \in DOMAIN s
      BY <1>5, <2>1
    <3> QED
      BY <1>1, <1>4, <1>5, <1>7, <2>1, <3>1
  <2>2. CASE ~ (i <= Len(s))
    <3>1. i - Len(s) \in DOMAIN t
      BY <1>5, <2>2
    <3> QED
      BY <1>2, <1>4, <1>5, <1>7, <2>2, <3>1
  <2> QED
    BY <2>1, <2>2
<1>9. h = fg
  BY <1>4, <1>5, <1>6, <1>8
<1> QED
  BY <1>9 DEF f, g, h, st, fg

\* An optional number is a list of at most one.
LEMMA OptionalInt ==
  ASSUME NEW s \in Optional(Int)
  PROVE  s \in Seq(Int) /\ (s = None \/ \E q \in Int : s = <<q>>)
<1>1. s \in Seq(Int) /\ Len(s) <= 1
  BY DEF Optional
<1>2. CASE Len(s) = 0
  BY <1>1, <1>2 DEF None
<1>3. CASE Len(s) = 1
  <2>1. s[1] \in Int
    BY <1>1, <1>3
  <2> DEFINE one == <<s[1]>>
  <2>2. one \in Seq(Int) /\ Len(one) = 1 /\ \A i \in 1..1 : one[i] = s[i]
    BY <2>1
  <2> HIDE DEF one
  <2>4. s = one
    BY <2>2, <1>1, <1>3
  <2> QED
    BY <1>1, <2>1, <2>4 DEF one
<1>4. \A n \in Nat : n <= 1 => n = 0 \/ n = 1
  OBVIOUS
<1>5. Len(s) = 0 \/ Len(s) = 1
  BY <1>1, <1>4, LenProperties
<1> QED
  BY <1>1, <1>2, <1>3, <1>5

\* The reflection of a single price, and of none.
LEMMA FlipOne ==
  ASSUME NEW a \in Int, NEW p \in Int
  PROVE  FlipAll(a, <<p>>) = <<a - p>> /\ FlipAll(a, None) = None
<1> DEFINE one == <<p>>
<1>1. /\ one \in Seq(Int) /\ <<a - p>> \in Seq(Int)
      /\ Len(one) = 1 /\ DOMAIN one = 1..1 /\ one[1] = p
  OBVIOUS
<1> HIDE DEF one
<1>3. FlipAll(a, one) = <<a - p>>
  BY <1>1, FlipAllIs
<1>4. None \in Seq(Int) /\ Len(None) = 0
  BY DEF None
<1>5. FlipAll(a, None) \in Seq(Int) /\ Len(FlipAll(a, None)) = 0
  BY <1>4, FlipAllIs
<1>6. FlipAll(a, None) = None
  BY <1>5 DEF None
<1> QED
  BY <1>3, <1>6 DEF one

\* The reflection of an optional price.
LEMMA FlipOptional ==
  ASSUME NEW a \in Int, NEW s \in Optional(Int)
  PROVE  /\ FlipAll(a, s) \in Optional(Int)
         /\ FlipAll(a, FlipAll(a, s)) = s
         /\ \/ s = None /\ FlipAll(a, s) = None
            \/ \E q \in Int : s = <<q>> /\ FlipAll(a, s) = <<a - q>> /\ a - q \in Int
<1>1. s \in Seq(Int) /\ Len(s) <= 1
  BY DEF Optional
<1> QED
  BY <1>1, FlipAllIs, OptionalInt, FlipOne DEF Optional

\* The values of a reflected list.
LEMMA FlippedValues ==
  ASSUME NEW a \in Int, NEW list \in Seq(Int)
  PROVE  Values(FlipAll(a, list)) = Reflect(a, Values(list))
<1>1. /\ DOMAIN FlipAll(a, list) = DOMAIN list
      /\ \A i \in DOMAIN list : FlipAll(a, list)[i] = a - list[i]
  BY FlipAllIs
<1> QED
  BY <1>1 DEF Values, Reflect

\* An optional price and its reflection.
LEMMA OneFlips ==
  ASSUME NEW a \in Int, NEW s \in Optional(Int), NEW t, t = FlipAll(a, s)
  PROVE  \/ s = None /\ t = None
         \/ \E q \in Int : s = <<q>> /\ t = <<a - q>> /\ s # None /\ t # None
<1>2. \A p : <<p>> # None
  BY DEF None
<1> QED
  BY FlipOptional, <1>2

\* What two lists list together.
LEMMA JoinedValues ==
  ASSUME NEW s \in Seq(Int), NEW t \in Seq(Int)
  PROVE  s \o t \in Seq(Int) /\ Values(s \o t) = Values(s) \cup Values(t)
<1> DEFINE st == s \o t
<1>1. /\ Len(s) \in Nat /\ DOMAIN s = 1..Len(s) /\ Len(t) \in Nat /\ DOMAIN t = 1..Len(t)
      /\ st \in Seq(Int) /\ DOMAIN st = 1..(Len(s) + Len(t))
      /\ \A i \in DOMAIN st : st[i] = IF i <= Len(s) THEN s[i] ELSE t[i - Len(s)]
  OBVIOUS
<1> HIDE DEF st
<1>2. Values(st) \subseteq Values(s) \cup Values(t)
  <2> SUFFICES ASSUME NEW i \in DOMAIN st PROVE st[i] \in Values(s) \cup Values(t)
    BY DEF Values
  <2>1. (i \in DOMAIN s /\ st[i] = s[i]) \/ (i - Len(s) \in DOMAIN t /\ st[i] = t[i - Len(s)])
    BY <1>1
  <2> QED
    BY <2>1 DEF Values
<1>3. ASSUME NEW i \in DOMAIN s PROVE s[i] \in Values(st)
  BY <1>1 DEF Values
<1>4. ASSUME NEW i \in DOMAIN t PROVE t[i] \in Values(st)
  <2> DEFINE k == i + Len(s)
  <2>1. k \in 1..(Len(s) + Len(t)) /\ ~ (k <= Len(s)) /\ k - Len(s) = i
    BY <1>1
  <2> HIDE DEF k
  <2>2. k \in DOMAIN st /\ st[k] = t[i]
    BY <1>1, <2>1
  <2> QED
    BY <2>2 DEF Values
<1>5. Values(st) = Values(s) \cup Values(t)
  BY <1>2, <1>3, <1>4 DEF Values
<1> QED
  BY <1>1, <1>5 DEF st

\* The first of the best is a best one, by each of the measures.
LEMMA FirstIsBest ==
  ASSUME NEW list \in Seq(Int), NEW S, S \subseteq DOMAIN list, S # {}, NEW p \in Int
  PROVE  /\ \E i \in S : /\ FirstMin(list, S, LAMBDA x : Dist(x, p)) = <<list[i]>>
                         /\ \A j \in S : Dist(list[i], p) <= Dist(list[j], p)
         /\ \E i \in S : /\ FirstMin(list, S, LAMBDA x : x) = <<list[i]>>
                         /\ \A j \in S : list[i] <= list[j]
         /\ \E i \in S : /\ FirstMin(list, S, LAMBDA x : -x) = <<list[i]>>
                         /\ \A j \in S : list[j] <= list[i]
<1>1. /\ Len(list) \in Nat /\ S \subseteq 1..Len(list) /\ S \subseteq Nat
      /\ \A i \in 1..Len(list) : list[i] \in Int
  OBVIOUS
<1>2. ASSUME NEW f \in [1..Len(list) -> Int]
      PROVE  LET best == {i \in S : \A j \in S : f[i] <= f[j]} IN Min(best) \in best
  <2> DEFINE best == {i \in S : \A j \in S : f[i] <= f[j]}
  <2>1. best # {}
    BY <1>1, BestPlace
  <2>2. best \subseteq Nat /\ best \subseteq S
    BY <1>1
  <2> HIDE DEF best
  <2>3. Min(best) \in best
    BY <2>1, <2>2, Least
  <2> QED
    BY <2>2, <2>3 DEF best
<1>3. \E i \in S : /\ FirstMin(list, S, LAMBDA x : Dist(x, p)) = <<list[i]>>
                   /\ \A j \in S : Dist(list[i], p) <= Dist(list[j], p)
  <2> DEFINE f == [i \in 1..Len(list) |-> Dist(list[i], p)]
             best == {i \in S : \A j \in S : Dist(list[i], p) <= Dist(list[j], p)}
  <2>1. f \in [1..Len(list) -> Int] /\ \A i \in S : f[i] = Dist(list[i], p)
    <3>1. \A q \in Int : Dist(q, p) \in Nat
      BY DistIs
    <3>2. ASSUME NEW i \in 1..Len(list) PROVE Dist(list[i], p) \in Int
      <4>1. list[i] \in Int
        BY <1>1
      <4>2. Dist(list[i], p) \in Nat
        BY <3>1, <4>1
      <4> QED
        BY <4>2
    <3> QED
      BY <1>1, <3>2
  <2> HIDE DEF f
  <2>2. best = {i \in S : \A j \in S : f[i] <= f[j]}
    BY <2>1
  <2>3. Min(best) \in best
    BY <1>2, <2>1, <2>2
  <2> QED
    BY <2>3 DEF FirstMin
<1>4. \E i \in S : /\ FirstMin(list, S, LAMBDA x : x) = <<list[i]>>
                   /\ \A j \in S : list[i] <= list[j]
  <2> DEFINE f == [i \in 1..Len(list) |-> list[i]]
             best == {i \in S : \A j \in S : list[i] <= list[j]}
  <2>1. f \in [1..Len(list) -> Int] /\ \A i \in S : f[i] = list[i]
    BY <1>1
  <2> HIDE DEF f
  <2>3. Min(best) \in best
    BY <1>2, <2>1
  <2> QED
    BY <2>3 DEF FirstMin
<1>5. \E i \in S : /\ FirstMin(list, S, LAMBDA x : -x) = <<list[i]>>
                   /\ \A j \in S : list[j] <= list[i]
  <2> DEFINE f == [i \in 1..Len(list) |-> -list[i]]
             best == {i \in S : \A j \in S : -list[i] <= -list[j]}
  <2>1. f \in [1..Len(list) -> Int] /\ \A i \in S : f[i] = -list[i]
    BY <1>1
  <2> HIDE DEF f
  <2>3. Min(best) \in best
    BY <1>2, <2>1
  <2>5. \A i \in S : list[i] \in Int
    BY <1>1
  <2>6. \A j \in S : list[j] <= list[Min(best)]
    BY <2>3, <2>5
  <2> QED
    BY <2>3, <2>6 DEF FirstMin
<1> QED
  BY <1>3, <1>4, <1>5

\* The nearest level above a price is the least of the values above it, the
\* nearest below the greatest of those below.
LEMMA NearestIs ==
  ASSUME NEW list \in Seq(Int), NEW p \in Int
  PROVE  /\ NearestAbove(p, list) \in Optional(Int) /\ NearestBelow(p, list) \in Optional(Int)
         /\ \/ NearestAbove(p, list) = None /\ \A v \in Values(list) : ~ (v > p)
            \/ \E q \in Values(list) : /\ q > p /\ NearestAbove(p, list) = <<q>>
                                       /\ \A v \in Values(list) : v > p => q <= v
         /\ \/ NearestBelow(p, list) = None /\ \A v \in Values(list) : ~ (v < p)
            \/ \E q \in Values(list) : /\ q < p /\ NearestBelow(p, list) = <<q>>
                                       /\ \A v \in Values(list) : v < p => v <= q
<1> DEFINE A == {i \in DOMAIN list : list[i] > p}
           B == {i \in DOMAIN list : list[i] < p}
<1>0. /\ \A i \in DOMAIN list : list[i] \in Int /\ list[i] \in Values(list)
      /\ Values(list) \subseteq Int
      /\ \A v \in Values(list) : \E i \in DOMAIN list : v = list[i]
  BY DEF Values
<1>1. /\ NearestAbove(p, list) = FirstMin(list, A, LAMBDA x : x)
      /\ NearestBelow(p, list) = FirstMin(list, B, LAMBDA x : -x)
  BY DEF NearestAbove, NearestBelow
<1>2. A \subseteq DOMAIN list /\ B \subseteq DOMAIN list
  OBVIOUS
<1>3. /\ \A i \in A : list[i] > p
      /\ \A v \in Values(list) : v > p => \E i \in A : v = list[i]
      /\ \A i \in B : list[i] < p
      /\ \A v \in Values(list) : v < p => \E i \in B : v = list[i]
  BY <1>0
<1> HIDE DEF A, B
<1>4. /\ A = {} => FirstMin(list, A, LAMBDA x : x) = None
      /\ B = {} => FirstMin(list, B, LAMBDA x : -x) = None
  BY DEF FirstMin
<1>7. \/ NearestAbove(p, list) = None /\ \A v \in Values(list) : ~ (v > p)
      \/ \E q \in Values(list) : /\ q > p /\ NearestAbove(p, list) = <<q>>
                                 /\ \A v \in Values(list) : v > p => q <= v
  <2>1. CASE A = {}
    BY <1>1, <1>3, <1>4, <2>1
  <2>2. CASE A # {}
    <3>1. PICK i \in A : /\ FirstMin(list, A, LAMBDA x : x) = <<list[i]>>
                         /\ \A j \in A : list[i] <= list[j]
      BY <1>2, FirstIsBest, <2>2
    <3>3. \A v \in Values(list) : v > p => list[i] <= v
      BY <1>3, <3>1
    <3> QED
      BY <1>0, <1>1, <1>2, <1>3, <3>1, <3>3
  <2> QED
    BY <2>1, <2>2
<1>8. \/ NearestBelow(p, list) = None /\ \A v \in Values(list) : ~ (v < p)
      \/ \E q \in Values(list) : /\ q < p /\ NearestBelow(p, list) = <<q>>
                                 /\ \A v \in Values(list) : v < p => v <= q
  <2>1. CASE B = {}
    BY <1>1, <1>3, <1>4, <2>1
  <2>2. CASE B # {}
    <3>1. PICK i \in B : /\ FirstMin(list, B, LAMBDA x : -x) = <<list[i]>>
                         /\ \A j \in B : list[j] <= list[i]
      BY <1>2, FirstIsBest, <2>2
    <3>3. \A v \in Values(list) : v < p => v <= list[i]
      BY <1>3, <3>1
    <3> QED
      BY <1>0, <1>1, <1>2, <1>3, <3>1, <3>3
  <2> QED
    BY <2>1, <2>2
<1>9. \A q \in Int : <<q>> \in Optional(Int)
  BY DEF Optional
<1>10. None \in Optional(Int)
  BY DEF Optional, None
<1>11. NearestAbove(p, list) \in Optional(Int)
  BY <1>0, <1>7, <1>9, <1>10
<1>12. NearestBelow(p, list) \in Optional(Int)
  BY <1>0, <1>8, <1>9, <1>10
<1> QED
  BY <1>7, <1>8, <1>11, <1>12

\* Reflected, the nearest above is the nearest below.
LEMMA NearestFlips ==
  ASSUME NEW a \in Int, NEW p \in Int, NEW list \in Seq(Int), NEW image \in Seq(Int),
         Values(image) = Reflect(a, Values(list))
  PROVE  /\ NearestAbove(a - p, image) = FlipAll(a, NearestBelow(p, list))
         /\ NearestBelow(a - p, image) = FlipAll(a, NearestAbove(p, list))
<1>0. Values(list) \subseteq Int /\ Values(image) \subseteq Int
  BY DEF Values
<1>1. a - p \in Int
  OBVIOUS
<1>2. \A v \in Values(list) : a - v \in Values(image)
  BY DEF Reflect
<1>3. \A w \in Values(image) : \E v \in Values(list) : w = a - v
  BY DEF Reflect
<1>4. FlipAll(a, None) = None /\ \A q \in Int : FlipAll(a, <<q>>) = <<a - q>>
  BY FlipOne
<1> DEFINE b == a - p
<1> HIDE DEF b
<1>5. b = a - p /\ b \in Int
  BY <1>1 DEF b
<1>6. NearestAbove(b, image) = FlipAll(a, NearestBelow(p, list))
  <2>1. CASE NearestBelow(p, list) = None /\ \A v \in Values(list) : ~ (v < p)
    BY <1>0, <1>3, <1>5, <2>1, NearestIs, <1>4
  <2>2. CASE \E q \in Values(list) : /\ q < p /\ NearestBelow(p, list) = <<q>>
                                     /\ \A v \in Values(list) : v < p => v <= q
    <3>1. PICK q \in Values(list) : /\ q < p /\ NearestBelow(p, list) = <<q>>
                                    /\ \A v \in Values(list) : v < p => v <= q
      BY <2>2
    <3>2. a - q \in Values(image) /\ a - q > b
      BY <1>0, <1>2, <1>5, <3>1
    <3>3. PICK r \in Values(image) : /\ r > b /\ NearestAbove(b, image) = <<r>>
                                     /\ \A w \in Values(image) : w > b => r <= w
      BY <1>5, <3>2, NearestIs
    <3>4. PICK v \in Values(list) : r = a - v
      BY <1>3
    <3>5. v < p
      BY <1>0, <1>5, <3>3, <3>4
    <3>6. v <= q /\ r <= a - q
      BY <3>1, <3>2, <3>3, <3>5
    <3>7. r = a - q
      BY <1>0, <3>4, <3>6
    <3> QED
      BY <1>0, <1>4, <3>1, <3>3, <3>7
  <2> QED
    BY <2>1, <2>2, NearestIs
<1>7. NearestBelow(b, image) = FlipAll(a, NearestAbove(p, list))
  <2>1. CASE NearestAbove(p, list) = None /\ \A v \in Values(list) : ~ (v > p)
    BY <1>0, <1>3, <1>5, <2>1, NearestIs, <1>4
  <2>2. CASE \E q \in Values(list) : /\ q > p /\ NearestAbove(p, list) = <<q>>
                                     /\ \A v \in Values(list) : v > p => q <= v
    <3>1. PICK q \in Values(list) : /\ q > p /\ NearestAbove(p, list) = <<q>>
                                    /\ \A v \in Values(list) : v > p => q <= v
      BY <2>2
    <3>2. a - q \in Values(image) /\ a - q < b
      BY <1>0, <1>2, <1>5, <3>1
    <3>3. PICK r \in Values(image) : /\ r < b /\ NearestBelow(b, image) = <<r>>
                                     /\ \A w \in Values(image) : w < b => w <= r
      BY <1>5, <3>2, NearestIs
    <3>4. PICK v \in Values(list) : r = a - v
      BY <1>3
    <3>5. v > p
      BY <1>0, <1>5, <3>3, <3>4
    <3>6. q <= v /\ a - q <= r
      BY <3>1, <3>2, <3>3, <3>5
    <3>7. r = a - q
      BY <1>0, <3>4, <3>6
    <3> QED
      BY <1>0, <1>4, <3>1, <3>3, <3>7
  <2> QED
    BY <2>1, <2>2, NearestIs
<1> QED
  BY <1>6, <1>7 DEF b

\* Reflected, the greatest of a set is the least.
LEMMA ExtremesFlip ==
  ASSUME NEW a \in Int, NEW S, S \subseteq Int, NEW T, T = Reflect(a, S)
  PROVE  /\ (\E m \in S : \A x \in S : m >= x) => Max(S) \in S /\ Min(T) = a - Max(S)
         /\ (\E m \in S : \A x \in S : m <= x) => Min(S) \in S /\ Max(T) = a - Min(S)
<1>1. T \subseteq Int /\ \A x \in S : a - x \in T
  BY DEF Reflect
<1>2. \A y \in T : \E x \in S : y = a - x
  BY DEF Reflect
<1>3. ASSUME NEW m \in S, \A x \in S : m >= x PROVE Max(S) = m /\ Min(T) = a - m
  <2>1. a - m \in T /\ \A y \in T : a - m <= y
    BY <1>1, <1>2, <1>3
  <2>2. \A y \in T : (\A z \in T : y <= z) => y = a - m
    BY <1>1, <2>1
  <2>3. \A x \in S : (\A z \in S : x >= z) => x = m
    BY <1>3
  <2> QED
    BY <1>3, <2>1, <2>2, <2>3 DEF Max, Min
<1>4. ASSUME NEW m \in S, \A x \in S : m <= x PROVE Min(S) = m /\ Max(T) = a - m
  <2>1. a - m \in T /\ \A y \in T : a - m >= y
    BY <1>1, <1>2, <1>4
  <2>2. \A y \in T : (\A z \in T : y >= z) => y = a - m
    BY <1>1, <2>1
  <2>3. \A x \in S : (\A z \in S : x <= z) => x = m
    BY <1>4
  <2> QED
    BY <1>4, <2>1, <2>2, <2>3 DEF Max, Min
<1> QED
  BY <1>3, <1>4

\* A bar and its reflection.
LEMMA FlipBarIs ==
  ASSUME NEW a \in Int, NEW b \in Bars
  PROVE  /\ b.open \in Int /\ b.high \in Int /\ b.low \in Int /\ b.close \in Int
         /\ FlipBar(a, b) \in Bars
         /\ FlipBar(a, b).open = a - b.open /\ FlipBar(a, b).high = a - b.low
         /\ FlipBar(a, b).low = a - b.high /\ FlipBar(a, b).close = a - b.close
         /\ FlipBar(a, FlipBar(a, b)) = b
<1>1. b.open \in Int /\ b.high \in Int /\ b.low \in Int /\ b.close \in Int
  BY DEF Bars
<1> DEFINE k == FlipBar(a, b)
<1>3. /\ k.open = a - b.open /\ k.high = a - b.low
      /\ k.low = a - b.high /\ k.close = a - b.close /\ k \in Bars
  BY <1>1 DEF FlipBar, Bar, Bars
<1> HIDE DEF k
<1>4. FlipBar(a, k) = [open |-> a - k.open, high |-> a - k.low, low |-> a - k.high,
                       close |-> a - k.close]
  BY DEF FlipBar, Bar
<1>5. FlipBar(a, k) = b
  BY <1>1, <1>3, <1>4 DEF Bars
<1> QED
  BY <1>1, <1>3, <1>5 DEF k

\* Bars reflected, one by one.
LEMMA FlipBarsAre ==
  ASSUME NEW a \in Int, NEW bars \in Seq(Bars)
  PROVE  /\ FlipBars(a, bars) \in Seq(Bars) /\ Len(FlipBars(a, bars)) = Len(bars)
         /\ Len(bars) \in Nat /\ DOMAIN bars = 1..Len(bars)
         /\ DOMAIN FlipBars(a, bars) = 1..Len(bars)
         /\ \A i \in 1..Len(bars) : /\ bars[i] \in Bars
                                    /\ FlipBars(a, bars)[i] = FlipBar(a, bars[i])
         /\ FlipBars(a, FlipBars(a, bars)) = bars
<1>1. /\ Len(bars) \in Nat /\ DOMAIN bars = 1..Len(bars)
      /\ \A i \in 1..Len(bars) : bars[i] \in Bars
  OBVIOUS
<1> DEFINE g == FlipBars(a, bars)
<1>2. \A i \in 1..Len(bars) : FlipBar(a, bars[i]) \in Bars /\ FlipBar(a, FlipBar(a, bars[i])) = bars[i]
  BY <1>1, FlipBarIs
<1>3. /\ DOMAIN g = 1..Len(bars) /\ \A i \in 1..Len(bars) : g[i] = FlipBar(a, bars[i])
      /\ g \in [1..Len(bars) -> Bars]
  BY <1>1, <1>2 DEF FlipBars
<1>4. g \in Seq(Bars)
  BY <1>1, <1>3, SeqDef
<1> HIDE DEF g
<1>5. Len(g) = Len(bars)
  BY <1>1, <1>3, <1>4
<1>6. FlipBars(a, g) = bars
  BY <1>3, <1>2, <1>1 DEF FlipBars
<1> QED
  BY <1>1, <1>3, <1>4, <1>5, <1>6 DEF g

\* The prices of reflected bars.
LEMMA FlippedPrices ==
  ASSUME NEW a \in Int, NEW bars \in Seq(Bars), NEW i \in 1..Len(bars)
  PROVE  LET k == FlipBars(a, bars) IN
         /\ bars[i].open \in Int /\ bars[i].high \in Int
         /\ bars[i].low \in Int /\ bars[i].close \in Int
         /\ k[i].open = a - bars[i].open /\ k[i].high = a - bars[i].low
         /\ k[i].low = a - bars[i].high /\ k[i].close = a - bars[i].close
<1> DEFINE b == bars[i]
<1>1. b \in Bars /\ FlipBars(a, bars)[i] = FlipBar(a, b)
  BY FlipBarsAre
<1> HIDE DEF b
<1>2. /\ b.open \in Int /\ b.high \in Int /\ b.low \in Int /\ b.close \in Int
      /\ FlipBar(a, b).open = a - b.open /\ FlipBar(a, b).high = a - b.low
      /\ FlipBar(a, b).low = a - b.high /\ FlipBar(a, b).close = a - b.close
  BY <1>1, FlipBarIs
<1> QED
  BY <1>1, <1>2 DEF b

\* Reflected, the swing highs are the swing lows.
LEMMA SwingHighsFlip ==
  ASSUME NEW a \in Int, NEW bars \in Seq(Bars), NEW width \in Nat
  PROVE  SwingHighs(FlipBars(a, bars), width) = SwingLows(bars, width)
<1> DEFINE k == FlipBars(a, bars)
           n == Len(bars)
<1>1. Len(k) = n /\ n \in Nat
  BY FlipBarsAre
<1>2. \A i \in 1..n : /\ bars[i].low \in Int /\ k[i].high = a - bars[i].low
  BY FlippedPrices
<1> HIDE DEF k, n
<1>3. ASSUME NEW i \in (width + 1)..(n - width), NEW j \in 1..width
      PROVE  /\ (k[i].high > k[i - j].high) <=> (bars[i].low < bars[i - j].low)
             /\ (k[i].high >= k[i + j].high) <=> (bars[i].low <= bars[i + j].low)
  <2>1. i \in 1..n /\ i - j \in 1..n /\ i + j \in 1..n
    BY <1>1
  <2> DEFINE x == bars[i].low  y == bars[i - j].low  z == bars[i + j].low
  <2>2. x \in Int /\ y \in Int /\ z \in Int
    BY <1>2, <2>1
  <2> HIDE DEF x, y, z
  <2>4. (a - x > a - y <=> x < y) /\ (a - x >= a - z <=> x <= z)
    BY <2>2
  <2> QED
    BY <1>2, <2>1, <2>4 DEF x, y, z
<1>5. SwingLows(bars, width) = {i \in (width + 1)..(n - width) :
        \A j \in 1..width : bars[i].low < bars[i - j].low /\ bars[i].low <= bars[i + j].low}
  BY DEF SwingLows, n
<1>6. SwingHighs(k, width) = SwingLows(bars, width)
  BY <1>3, <1>1, <1>5 DEF SwingHighs
<1> QED
  BY <1>6 DEF k

\* Swing highs and swing lows change places.
LEMMA SwingsFlip ==
  ASSUME NEW a \in Int, NEW bars \in Seq(Bars), NEW width \in Nat
  PROVE  /\ SwingHighs(FlipBars(a, bars), width) = SwingLows(bars, width)
         /\ SwingLows(FlipBars(a, bars), width) = SwingHighs(bars, width)
<1>1. FlipBars(a, bars) \in Seq(Bars) /\ FlipBars(a, FlipBars(a, bars)) = bars
  BY FlipBarsAre
<1> QED
  BY <1>1, SwingHighsFlip

\* The last swing on one side is reflected in the last one on the other.
LEMMA LastSwingHighFlips ==
  ASSUME NEW a \in Int, NEW bars \in Seq(Bars), NEW width \in Nat, NEW lookback \in Nat
  PROVE  /\ LastSwingLow(bars, lookback, width) \in Optional(Int)
         /\ LastSwingHigh(FlipBars(a, bars), lookback, width)
              = FlipAll(a, LastSwingLow(bars, lookback, width))
<1> DEFINE k == FlipBars(a, bars)
           n == Len(bars)
           S == {i \in SwingLows(bars, width) : i > n - lookback}
<1>1. Len(k) = n /\ n \in Nat
  BY FlipBarsAre
<1>2. SwingHighs(k, width) = SwingLows(bars, width)
  BY SwingsFlip
<1>3. S \subseteq 1..n
  BY <1>1 DEF SwingLows
<1>4. /\ LastSwingLow(bars, lookback, width) = IF S = {} THEN None ELSE <<bars[Max(S)].low>>
      /\ LastSwingHigh(k, lookback, width) = IF S = {} THEN None ELSE <<k[Max(S)].high>>
  BY <1>1, <1>2 DEF LastSwingLow, LastSwingHigh
<1> HIDE DEF S
<1>5. CASE S = {}
  <2>1. FlipAll(a, None) = None
    BY FlipOne
  <2>2. None \in Optional(Int)
    BY DEF Optional, None
  <2> QED
    BY <1>4, <1>5, <2>1, <2>2
<1>6. CASE S # {}
  <2>1. Max(S) \in 1..n
    BY <1>1, <1>3, <1>6, Greatest
  <2> DEFINE x == bars[Max(S)].low
  <2>2. x \in Int /\ k[Max(S)].high = a - x
    BY <2>1, FlippedPrices
  <2> HIDE DEF x, k
  <2>4. <<x>> \in Optional(Int) /\ FlipAll(a, <<x>>) = <<a - x>>
    BY <2>2, FlipOne DEF Optional
  <2> QED
    BY <1>4, <1>6, <2>2, <2>4 DEF k, x
<1> QED
  BY <1>5, <1>6

\* So do the last ones.
LEMMA LastSwingsFlip ==
  ASSUME NEW a \in Int, NEW bars \in Seq(Bars), NEW width \in Nat, NEW lookback \in Nat
  PROVE  LET k == FlipBars(a, bars) IN
         /\ LastSwingLow(bars, lookback, width) \in Optional(Int)
         /\ LastSwingHigh(bars, lookback, width) \in Optional(Int)
         /\ LastSwingHigh(k, lookback, width) = FlipAll(a, LastSwingLow(bars, lookback, width))
         /\ LastSwingLow(k, lookback, width) = FlipAll(a, LastSwingHigh(bars, lookback, width))
<1> DEFINE k == FlipBars(a, bars)
           high == LastSwingHigh(bars, lookback, width)
<1>1. k \in Seq(Bars) /\ FlipBars(a, k) = bars
  BY FlipBarsAre
<1> HIDE DEF k
<1>3. high \in Optional(Int) /\ FlipAll(a, high) = LastSwingLow(k, lookback, width)
  BY <1>1, LastSwingHighFlips, FlipOptional
<1> QED
  BY <1>3, LastSwingHighFlips DEF k

(***************************************************************************)
(* Rejection bars.                                                         *)
(***************************************************************************)
\* The greatest and the least of two.
LEMMA OfPair ==
  ASSUME NEW x \in Int, NEW y \in Int
  PROVE  /\ Max({x, y}) = IF x >= y THEN x ELSE y
         /\ Min({x, y}) = IF x <= y THEN x ELSE y
BY DEF Max, Min

\* A rejection is of one side, the one it closes toward.
LEMMA RejectionsDiffer ==
  ASSUME NEW cur \in Bars, NEW prev \in Bars, NEW least \in Int
  PROVE  ~ (BullishRejection(cur, prev, least) /\ BearishRejection(cur, prev, least))
BY DEF BullishRejection, BearishRejection, BullishPin, BearishPin, BullishEngulfing,
       BearishEngulfing, Body, Dist, Bars

\* Reflected, a bullish rejection is a bearish one.
LEMMA RejectionFlips ==
  ASSUME NEW a \in Int, NEW cur \in Bars, NEW prev \in Bars, NEW least \in Int
  PROVE  BullishRejection(FlipBar(a, cur), FlipBar(a, prev), least)
           <=> BearishRejection(cur, prev, least)
<1> DEFINE c == FlipBar(a, cur)  p == FlipBar(a, prev)
<1>1. /\ cur.open \in Int /\ cur.high \in Int /\ cur.low \in Int /\ cur.close \in Int
      /\ c.open = a - cur.open /\ c.high = a - cur.low
      /\ c.low = a - cur.high /\ c.close = a - cur.close
  BY FlipBarIs
<1>2. /\ prev.open \in Int /\ prev.close \in Int
      /\ p.open = a - prev.open /\ p.close = a - prev.close
  BY FlipBarIs
<1> HIDE DEF c, p
<1>3. c.open \in Int /\ c.close \in Int
  BY <1>1
<1>4. BullishEngulfing(p, c) <=> BearishEngulfing(prev, cur)
  BY <1>1, <1>2 DEF BullishEngulfing, BearishEngulfing
<1>5. Body(c) = Body(cur)
  BY <1>1 DEF Body, Dist
<1> DEFINE x == cur.open  y == cur.close
<1>0. x \in Int /\ y \in Int /\ c.open = a - x /\ c.close = a - y
  BY <1>1
<1>6. LowerWick(c) = UpperWick(cur)
  <2> HIDE DEF x, y
  <2>0. a - x \in Int /\ a - y \in Int
    BY <1>0
  <2>1. Min({a - x, a - y}) = IF a - x <= a - y THEN a - x ELSE a - y
    BY <2>0, OfPair
  <2>2. Max({x, y}) = IF x >= y THEN x ELSE y
    BY <1>0, OfPair
  <2>3. Max({x, y}) \in Int /\ Min({c.open, c.close}) = a - Max({x, y})
    BY <1>0, <2>1, <2>2
  <2> QED
    BY <1>1, <2>3 DEF LowerWick, UpperWick, x, y
<1>7. UpperWick(c) = LowerWick(cur)
  <2> HIDE DEF x, y
  <2>0. a - x \in Int /\ a - y \in Int
    BY <1>0
  <2>2. Min({x, y}) = IF x <= y THEN x ELSE y
    BY <1>0, OfPair
  <2>3. Min({x, y}) \in Int /\ Max({c.open, c.close}) = a - Min({x, y})
    BY <1>0, <2>0, OfPair, <2>2
  <2> QED
    BY <1>1, <2>3 DEF LowerWick, UpperWick, x, y
<1>8. c.close >= c.open <=> cur.close <= cur.open
  BY <1>1
<1>9. BullishPin(c) <=> BearishPin(cur)
  BY <1>5, <1>6, <1>7, <1>8 DEF BullishPin, BearishPin
<1>10. c.high - c.low = cur.high - cur.low
  BY <1>1
<1> QED
  BY <1>4, <1>9, <1>10 DEF c, p, BullishRejection, BearishRejection

\* A bullish rejection is a bearish one, reflected.
LEMMA RejectionsFlip ==
  ASSUME NEW a \in Int, NEW cur \in Bars, NEW prev \in Bars, NEW least \in Int
  PROVE  LET c == FlipBar(a, cur)  p == FlipBar(a, prev) IN
         /\ BullishRejection(c, p, least) <=> BearishRejection(cur, prev, least)
         /\ BearishRejection(c, p, least) <=> BullishRejection(cur, prev, least)
<1>1. /\ FlipBar(a, cur) \in Bars /\ FlipBar(a, FlipBar(a, cur)) = cur
      /\ FlipBar(a, prev) \in Bars /\ FlipBar(a, FlipBar(a, prev)) = prev
  BY FlipBarIs
<1> QED
  BY <1>1, RejectionFlips

(***************************************************************************)
(* A context and its reflection, as the two halves read them.              *)
(***************************************************************************)
CrossReads ==
  [was21 : Int, was55 : Int, now21 : Int, now55 : Int, close : Int,
   volume : Optional(Nat), atr : Nat]
ExtremeReads == [prior : Int, recent : Int, rsi : Optional(Int)]

Readable(c) ==
  /\ c.index \in BOOLEAN /\ c.atr \in Nat /\ c.atr15 \in Nat
  /\ c.cur \in Bars /\ c.prev \in Bars /\ c.look \in Seq(Bars) /\ c.c15 \in Seq(Bars)
  /\ c.pdh \in Int /\ c.pdl \in Int /\ c.pdc \in Int
  /\ c.orh \in Optional(Int) /\ c.orl \in Optional(Int) /\ c.vwap \in Optional(Int)
  /\ c.callWall \in Optional(Int) /\ c.putWall \in Optional(Int)
  /\ c.maxPain \in Optional(Int) /\ c.back \in Optional(Int)
  /\ c.rsi \in Int /\ c.ema21 \in Int /\ c.ema55 \in Int
  /\ c.hourly21 \in Int /\ c.hourly55 \in Int
  /\ c.bands \in Bands /\ c.highs \in ExtremeReads /\ c.lows \in ExtremeReads
  /\ c.pcr \in {"NONE", "BEARISH", "BULLISH"} /\ c.r60 \in Regimes /\ c.daily \in Regimes
  /\ c.indexBias \in Sides \cup {Neutral} /\ c.direction \in Sides \cup {Neutral}

SameReads(c, k) ==
  /\ k.index = c.index /\ k.atr = c.atr /\ k.atr15 = c.atr15 /\ k.ready = c.ready
  /\ k.volume = c.volume /\ k.n5 = c.n5 /\ k.n60 = c.n60 /\ k.orLocked = c.orLocked
  /\ k.oiChange = c.oiChange /\ k.oi = c.oi /\ k.vix = c.vix /\ k.squeezed = c.squeezed
  /\ k.time = c.time /\ k.expiry = c.expiry /\ k.edge = c.edge

TurnedReads(c, k) ==
  /\ k.pcr = FlipCrowd(c.pcr) /\ k.r60 = FlipTrend(c.r60) /\ k.daily = FlipTrend(c.daily)
  /\ k.indexBias = FlipSide(c.indexBias) /\ k.direction = FlipSide(c.direction)
  /\ k.rsi = 100 - c.rsi

TurnedExtremes(a, e, f) ==
  /\ f.prior = a - e.prior /\ f.recent = a - e.recent /\ f.rsi = FlipAll(100, e.rsi)

TurnedCross(a, x, y) ==
  /\ y.was21 = a - x.was21 /\ y.was55 = a - x.was55
  /\ y.now21 = a - x.now21 /\ y.now55 = a - x.now55
  /\ y.close = a - x.close /\ y.volume = x.volume /\ y.atr = x.atr

TurnedPrices(a, c, k) ==
  /\ k.cur = FlipBar(a, c.cur) /\ k.prev = FlipBar(a, c.prev)
  /\ k.look = FlipBars(a, c.look) /\ k.c15 = FlipBars(a, c.c15)
  /\ k.pdh = a - c.pdl /\ k.pdl = a - c.pdh /\ k.pdc = a - c.pdc
  /\ k.orh = FlipAll(a, c.orl) /\ k.orl = FlipAll(a, c.orh) /\ k.vwap = FlipAll(a, c.vwap)
  /\ k.callWall = FlipAll(a, c.putWall) /\ k.putWall = FlipAll(a, c.callWall)
  /\ k.maxPain = FlipAll(a, c.maxPain) /\ k.back = FlipAll(a, c.back)
  /\ k.ema21 = a - c.ema21 /\ k.ema55 = a - c.ema55
  /\ k.hourly21 = a - c.hourly21 /\ k.hourly55 = a - c.hourly55
  /\ k.bands.upper = a - c.bands.lower /\ k.bands.mid = a - c.bands.mid
  /\ k.bands.lower = a - c.bands.upper
  /\ TurnedExtremes(a, c.lows, k.highs) /\ TurnedExtremes(a, c.highs, k.lows)
  /\ \/ c.cross = None /\ k.cross = None
     \/ \E x, y \in CrossReads : c.cross = <<x>> /\ k.cross = <<y>> /\ TurnedCross(a, x, y)

Mirrored(a, c, k) ==
  /\ a \in Int /\ Readable(c) /\ Readable(k)
  /\ SameReads(c, k) /\ TurnedReads(c, k) /\ TurnedPrices(a, c, k)

\* The labels of a market, turned twice.
LEMMA LabelsTurn ==
  /\ \A s \in Sides : FlipSide(s) \in Sides /\ FlipSide(s) # s /\ FlipSide(FlipSide(s)) = s
  /\ \A s \in Sides \cup {Neutral} :
       FlipSide(s) \in Sides \cup {Neutral} /\ FlipSide(FlipSide(s)) = s
  /\ \A r \in Regimes : FlipTrend(r) \in Regimes /\ FlipTrend(FlipTrend(r)) = r
  /\ \A c \in {"NONE", "BEARISH", "BULLISH"} :
       FlipCrowd(c) \in {"NONE", "BEARISH", "BULLISH"} /\ FlipCrowd(FlipCrowd(c)) = c
BY DEF FlipSide, FlipTrend, FlipCrowd, Sides, Long, Short, Neutral, Regimes

\* The extremes of a divergence, turned twice.
LEMMA TurnedBack ==
  ASSUME NEW a \in Int, NEW e \in ExtremeReads, NEW f, TurnedExtremes(a, e, f)
  PROVE  TurnedExtremes(a, f, e)
<1>1. e.prior \in Int /\ e.recent \in Int /\ e.rsi \in Optional(Int)
  BY DEF ExtremeReads
<1>2. FlipAll(100, FlipAll(100, e.rsi)) = e.rsi
  BY <1>1, FlipOptional
<1> QED
  BY <1>1, <1>2 DEF TurnedExtremes

\* A reflection is its own inverse.
LEMMA MirrorTurns ==
  ASSUME NEW a, NEW c, NEW k, Mirrored(a, c, k)
  PROVE  Mirrored(a, k, c)
<1>1. a \in Int /\ Readable(c) /\ Readable(k)
  BY DEF Mirrored
<1>2. SameReads(k, c)
  BY DEF Mirrored, SameReads
<1>3. TurnedReads(k, c)
  <2>1. TurnedReads(c, k)
    BY DEF Mirrored
  <2>2. /\ c.pcr \in {"NONE", "BEARISH", "BULLISH"} /\ c.r60 \in Regimes /\ c.daily \in Regimes
        /\ c.indexBias \in Sides \cup {Neutral} /\ c.direction \in Sides \cup {Neutral}
        /\ c.rsi \in Int
    BY <1>1 DEF Readable
  <2>3. c.rsi = 100 - k.rsi
    BY <2>1, <2>2 DEF TurnedReads
  <2>5. c.indexBias = FlipSide(k.indexBias) /\ c.direction = FlipSide(k.direction)
    BY <2>1, <2>2, LabelsTurn DEF TurnedReads
  <2> QED
    BY <2>3, <2>1, <2>2, LabelsTurn, <2>5 DEF TurnedReads
<1>4. TurnedPrices(a, k, c)
  <2>1. TurnedPrices(a, c, k)
    BY DEF Mirrored
  <2>2. c.cur = FlipBar(a, k.cur) /\ c.prev = FlipBar(a, k.prev)
    <3>1. c.cur \in Bars /\ c.prev \in Bars
      BY <1>1 DEF Readable
    <3> QED
      BY <1>1, <2>1, <3>1, FlipBarIs DEF TurnedPrices
  <2>3. c.look = FlipBars(a, k.look) /\ c.c15 = FlipBars(a, k.c15)
    <3>1. c.look \in Seq(Bars) /\ c.c15 \in Seq(Bars)
      BY <1>1 DEF Readable
    <3> QED
      BY <1>1, <2>1, <3>1, FlipBarsAre DEF TurnedPrices
  <2>4. c.pdh = a - k.pdl /\ c.pdl = a - k.pdh /\ c.pdc = a - k.pdc
    <3>1. c.pdh \in Int /\ c.pdl \in Int /\ c.pdc \in Int
      BY <1>1 DEF Readable
    <3> QED
      BY <1>1, <2>1, <3>1 DEF TurnedPrices
  <2>5. /\ c.orh = FlipAll(a, k.orl) /\ c.orl = FlipAll(a, k.orh) /\ c.vwap = FlipAll(a, k.vwap)
        /\ c.callWall = FlipAll(a, k.putWall) /\ c.putWall = FlipAll(a, k.callWall)
        /\ c.maxPain = FlipAll(a, k.maxPain) /\ c.back = FlipAll(a, k.back)
    <3>1. /\ c.orh \in Optional(Int) /\ c.orl \in Optional(Int) /\ c.vwap \in Optional(Int)
          /\ c.callWall \in Optional(Int) /\ c.putWall \in Optional(Int)
          /\ c.maxPain \in Optional(Int) /\ c.back \in Optional(Int)
      BY <1>1 DEF Readable
    <3>2. \A s \in Optional(Int) : FlipAll(a, FlipAll(a, s)) = s
      BY <1>1, FlipOptional
    <3> QED
      BY <2>1, <3>1, <3>2 DEF TurnedPrices
  <2>6. /\ c.ema21 = a - k.ema21 /\ c.ema55 = a - k.ema55
        /\ c.hourly21 = a - k.hourly21 /\ c.hourly55 = a - k.hourly55
    <3>1. /\ c.ema21 \in Int /\ c.ema55 \in Int
          /\ c.hourly21 \in Int /\ c.hourly55 \in Int
      BY <1>1 DEF Readable
    <3> QED
      BY <1>1, <2>1, <3>1 DEF TurnedPrices
  <2>7. /\ c.bands.upper = a - k.bands.lower /\ c.bands.mid = a - k.bands.mid
        /\ c.bands.lower = a - k.bands.upper
    <3>1. c.bands.upper \in Int /\ c.bands.mid \in Int /\ c.bands.lower \in Int
      BY <1>1 DEF Readable, Bands
    <3> QED
      BY <1>1, <2>1, <3>1 DEF TurnedPrices
  <2>9. \/ k.cross = None /\ c.cross = None
        \/ \E x, y \in CrossReads : k.cross = <<x>> /\ c.cross = <<y>> /\ TurnedCross(a, x, y)
    <3>1. CASE c.cross = None /\ k.cross = None
      BY <3>1
    <3>2. CASE \E x, y \in CrossReads : c.cross = <<x>> /\ k.cross = <<y>> /\ TurnedCross(a, x, y)
      <4>1. PICK x \in CrossReads, y \in CrossReads :
              c.cross = <<x>> /\ k.cross = <<y>> /\ TurnedCross(a, x, y)
        BY <3>2
      <4>2. TurnedCross(a, y, x)
        BY <1>1, <4>1 DEF TurnedCross, CrossReads
      <4> QED
        BY <4>1, <4>2
    <3> QED
      BY <2>1, <3>1, <3>2 DEF TurnedPrices
  <2> QED
    BY <2>2, <2>3, <2>4, <2>5, <2>6, <2>7, <1>1, <2>1, TurnedBack, <2>9 DEF TurnedPrices, Readable
<1> QED
  BY <1>1, <1>2, <1>3, <1>4 DEF Mirrored

\* What a scan builds can be read.
LEMMA ContextReadable == ASSUME NEW ctx \in Contexts PROVE Readable(ctx)
<1>1. Candles \subseteq Bars
  BY DEF Candles, Bars
<1>2. Optional(Nat) \subseteq Optional(Int)
  BY DEF Optional
<1>3. Extremes \subseteq ExtremeReads
  BY <1>2 DEF Extremes, ExtremeReads
<1>4. Seq(Candles) \subseteq Seq(Bars)
  BY <1>1
<1>6. /\ ctx.orh \in Optional(Nat) /\ ctx.orl \in Optional(Nat) /\ ctx.vwap \in Optional(Nat)
      /\ ctx.callWall \in Optional(Nat) /\ ctx.putWall \in Optional(Nat)
      /\ ctx.maxPain \in Optional(Nat) /\ ctx.back \in Optional(Nat)
  BY DEF Contexts
<1>7. ctx.highs \in Extremes /\ ctx.lows \in Extremes /\ ctx.bands \in Bands
  BY DEF Contexts
<1>8. /\ ctx.index \in BOOLEAN /\ ctx.atr \in Nat /\ ctx.atr15 \in Nat
      /\ ctx.pdh \in Int /\ ctx.pdl \in Int /\ ctx.pdc \in Int
      /\ ctx.rsi \in Int /\ ctx.ema21 \in Int /\ ctx.ema55 \in Int
      /\ ctx.hourly21 \in Int /\ ctx.hourly55 \in Int
  BY DEF Contexts
<1>9. /\ ctx.pcr \in {"NONE", "BEARISH", "BULLISH"}
      /\ ctx.r60 \in Regimes /\ ctx.daily \in Regimes
      /\ ctx.indexBias \in Sides \cup {Neutral} /\ ctx.direction \in Sides \cup {Neutral}
  BY DEF Contexts
<1> QED
  BY <1>1, <1>2, <1>3, <1>4, <1>6, <1>7, <1>8, <1>9 DEF Readable, Contexts

\* So can its reflection.
LEMMA ReflectionMirrors ==
  ASSUME NEW ctx \in Contexts, NEW a \in Int
  PROVE  Mirrored(a, ctx, FlipContext(a, ctx))
<1> DEFINE k == FlipContext(a, ctx)
<1>1. Readable(ctx)
  BY ContextReadable
<1>2. SameReads(ctx, k)
  BY DEF SameReads, FlipContext, Contexts
<1>3. TurnedReads(ctx, k)
  BY DEF TurnedReads, FlipContext, Contexts
<1>4. /\ k.cur = FlipBar(a, ctx.cur) /\ k.prev = FlipBar(a, ctx.prev)
      /\ k.look = FlipBars(a, ctx.look) /\ k.c15 = FlipBars(a, ctx.c15)
      /\ k.pdh = a - ctx.pdl /\ k.pdl = a - ctx.pdh /\ k.pdc = a - ctx.pdc
      /\ k.orh = FlipAll(a, ctx.orl) /\ k.orl = FlipAll(a, ctx.orh) /\ k.vwap = FlipAll(a, ctx.vwap)
      /\ k.callWall = FlipAll(a, ctx.putWall) /\ k.putWall = FlipAll(a, ctx.callWall)
      /\ k.maxPain = FlipAll(a, ctx.maxPain) /\ k.back = FlipAll(a, ctx.back)
      /\ k.ema21 = a - ctx.ema21 /\ k.ema55 = a - ctx.ema55
      /\ k.hourly21 = a - ctx.hourly21 /\ k.hourly55 = a - ctx.hourly55
  BY DEF FlipContext, Contexts
<1>5. /\ k.bands = [upper |-> a - ctx.bands.lower, mid |-> a - ctx.bands.mid,
                    lower |-> a - ctx.bands.upper]
      /\ k.highs = FlipExtremes(a, ctx.lows) /\ k.lows = FlipExtremes(a, ctx.highs)
      /\ k.cross = [i \in DOMAIN ctx.cross |-> FlipCross(a, ctx.cross[i])]
  BY DEF FlipContext, Contexts
<1>6. ctx.cross \in Optional(Crosses)
  BY DEF Contexts
<1> HIDE DEF k
<1>7. \/ ctx.cross = None /\ k.cross = None
      \/ \E x, y \in CrossReads : ctx.cross = <<x>> /\ k.cross = <<y>> /\ TurnedCross(a, x, y)
  <2>1. ctx.cross \in Seq(Crosses) /\ Len(ctx.cross) <= 1
    BY <1>6 DEF Optional
  <2>2. CASE Len(ctx.cross) = 0
    BY <2>1, <2>2, <1>5 DEF None
  <2>3. CASE Len(ctx.cross) = 1
    <3> DEFINE x == ctx.cross[1]  y == FlipCross(a, x)
    <3>1. x \in Crosses /\ DOMAIN ctx.cross = 1..1
      BY <2>1, <2>3
    <3> HIDE DEF x
    <3>2. /\ x.was21 \in Int /\ x.was55 \in Int /\ x.now21 \in Int /\ x.now55 \in Int
          /\ x.close \in Int /\ x.volume \in Optional(Nat) /\ x.atr \in Nat /\ x \in CrossReads
      BY <3>1 DEF Crosses, CrossReads
    <3>3. y \in CrossReads /\ TurnedCross(a, x, y)
      BY <3>2 DEF FlipCross, CrossReads, TurnedCross
    <3> HIDE DEF y
    <3> DEFINE one == <<x>>  two == <<y>>
    <3>4. /\ one \in Seq(Crosses) /\ Len(one) = 1 /\ one[1] = x
      BY <3>1
    <3>5. two \in Seq(CrossReads) /\ Len(two) = 1 /\ two[1] = y /\ DOMAIN two = 1..1
      BY <3>3
    <3> HIDE DEF one, two
    <3>6. ctx.cross = one
      BY <2>1, <2>3, <3>4 DEF x
    <3>7. k.cross = [i \in 1..1 |-> y]
      BY <1>5, <3>1 DEF x, y
    <3>8. two = [i \in 1..1 |-> y]
      BY <3>5
    <3> QED
      BY <3>2, <3>3, <3>6, <3>7, <3>8 DEF one, two
  <2>4. \A n \in Nat : n <= 1 => n = 0 \/ n = 1
    OBVIOUS
  <2> QED
    BY <2>1, <2>2, <2>3, <2>4, LenProperties
<1>9. TurnedPrices(a, ctx, k)
  BY <1>4, <1>7, <1>5 DEF TurnedPrices, TurnedExtremes, FlipExtremes
<1>10. Readable(k)
  <2>2. k.cur \in Bars /\ k.prev \in Bars /\ k.look \in Seq(Bars) /\ k.c15 \in Seq(Bars)
    <3>1. /\ ctx.cur \in Bars /\ ctx.prev \in Bars
          /\ ctx.look \in Seq(Bars) /\ ctx.c15 \in Seq(Bars)
      BY <1>1 DEF Readable
    <3> QED
      BY <1>4, <3>1, FlipBarIs, FlipBarsAre
  <2>3. /\ k.pdh \in Int /\ k.pdl \in Int /\ k.pdc \in Int
        /\ k.ema21 \in Int /\ k.ema55 \in Int /\ k.hourly21 \in Int /\ k.hourly55 \in Int
    <3>1. /\ ctx.pdh \in Int /\ ctx.pdl \in Int /\ ctx.pdc \in Int
          /\ ctx.ema21 \in Int /\ ctx.ema55 \in Int /\ ctx.hourly21 \in Int
          /\ ctx.hourly55 \in Int
      BY <1>1 DEF Readable
    <3> QED
      BY <1>4, <3>1
  <2>4. /\ k.orh \in Optional(Int) /\ k.orl \in Optional(Int) /\ k.vwap \in Optional(Int)
        /\ k.callWall \in Optional(Int) /\ k.putWall \in Optional(Int)
        /\ k.maxPain \in Optional(Int) /\ k.back \in Optional(Int)
    <3> QED
      BY <1>1, <1>4, FlipOptional DEF Readable
  <2>5. k.bands \in Bands
    <3>1. ctx.bands \in Bands
      BY <1>1 DEF Readable
    <3> QED
      BY <1>5, <3>1 DEF Bands
  <2>6. k.highs \in ExtremeReads /\ k.lows \in ExtremeReads
    <3>1. ctx.highs \in ExtremeReads /\ ctx.lows \in ExtremeReads
      BY <1>1 DEF Readable
    <3>2. \A s \in Optional(Int) : FlipAll(100, s) \in Optional(Int)
      BY FlipOptional
    <3> QED
      BY <1>5, <3>1, <3>2 DEF ExtremeReads, FlipExtremes
  <2>7. /\ k.pcr \in {"NONE", "BEARISH", "BULLISH"} /\ k.r60 \in Regimes /\ k.daily \in Regimes
        /\ k.indexBias \in Sides \cup {Neutral} /\ k.direction \in Sides \cup {Neutral}
        /\ k.rsi \in Int
    <3>1. TurnedReads(ctx, k)
      BY <1>3 DEF k
    <3>2. /\ ctx.pcr \in {"NONE", "BEARISH", "BULLISH"}
          /\ ctx.r60 \in Regimes /\ ctx.daily \in Regimes
          /\ ctx.indexBias \in Sides \cup {Neutral} /\ ctx.direction \in Sides \cup {Neutral}
          /\ ctx.rsi \in Int
      BY <1>1 DEF Readable
    <3>3. k.rsi \in Int
      BY <3>1, <3>2 DEF TurnedReads
    <3>5. k.indexBias \in Sides \cup {Neutral} /\ k.direction \in Sides \cup {Neutral}
      BY <3>1, <3>2, LabelsTurn DEF TurnedReads
    <3> QED
      BY <3>3, <3>1, <3>2, LabelsTurn, <3>5 DEF TurnedReads
  <2> QED
    BY <1>1, <1>2, <2>2, <2>3, <2>4, <2>5, <2>6, <2>7 DEF Readable, SameReads, k
<1> QED
  BY <1>1, <1>2, <1>3, <1>9, <1>10 DEF Mirrored, k

(***************************************************************************)
(* The geometry of reflected candidates.                                   *)
(***************************************************************************)
\* The swings of two mirrored contexts.
LEMMA MirroredSwings ==
  ASSUME NEW a, NEW c, NEW k, Mirrored(a, c, k), NEW n \in Nat
  PROVE  /\ SwingLow(c, n) \in Optional(Int) /\ SwingHigh(c, n) \in Optional(Int)
         /\ SwingHigh(k, n) = FlipAll(a, SwingLow(c, n))
         /\ SwingLow(k, n) = FlipAll(a, SwingHigh(c, n))
<1>1. a \in Int /\ c.c15 \in Seq(Bars) /\ k.c15 = FlipBars(a, c.c15)
  BY DEF Mirrored, Readable, TurnedPrices
<1>2. 1 \in Nat
  OBVIOUS
<1> QED
  BY <1>1, <1>2, LastSwingsFlip DEF SwingHigh, SwingLow

\* Their ranges and their grids of round numbers.
LEMMA MirroredAtr ==
  ASSUME NEW a, NEW c, NEW k, Mirrored(a, c, k), NEW percent \in Nat
  PROVE  /\ OfAtr(c, percent) \in Nat /\ OfAtr(k, percent) = OfAtr(c, percent)
         /\ RoundStep(k) = RoundStep(c) /\ RoundStep(c) \in {50, 100}
<1>1. c.atr \in Nat /\ k.atr = c.atr /\ k.index = c.index
  BY DEF Mirrored, Readable, SameReads
<1> DEFINE x == c.atr * percent
<1>2. x \in Nat
  BY <1>1
<1> HIDE DEF x
<1>3. x \div 100 \in Nat
  BY <1>2
<1> QED
  BY <1>1, <1>3 DEF OfAtr, RoundStep, x

\* The prices of the last bar.
LEMMA MirroredBar ==
  ASSUME NEW a, NEW c, NEW k, Mirrored(a, c, k)
  PROVE  /\ a \in Int /\ c.cur \in Bars /\ c.prev \in Bars
         /\ k.cur = FlipBar(a, c.cur) /\ k.prev = FlipBar(a, c.prev)
         /\ c.cur.open \in Int /\ c.cur.high \in Int /\ c.cur.low \in Int /\ c.cur.close \in Int
         /\ k.cur.open = a - c.cur.open /\ k.cur.high = a - c.cur.low
         /\ k.cur.low = a - c.cur.high /\ k.cur.close = a - c.cur.close
         /\ MinRange(c) \in Nat /\ MinRange(k) = MinRange(c)
<1>1. /\ a \in Int /\ c.cur \in Bars /\ c.prev \in Bars
      /\ k.cur = FlipBar(a, c.cur) /\ k.prev = FlipBar(a, c.prev)
  BY DEF Mirrored, Readable, TurnedPrices
<1>2. MinTriggerRange \in Nat
  BY DEF MinTriggerRange
<1>3. MinRange(c) \in Nat /\ MinRange(k) = MinRange(c)
  BY <1>2, MirroredAtr DEF MinRange
<1> QED
  BY <1>1, <1>3, FlipBarIs

\* A reflection keeps distances.
LEMMA FlipDist ==
  ASSUME NEW a \in Int, NEW p \in Int, NEW q \in Int
  PROVE  Dist(a - p, a - q) = Dist(p, q)
BY DEF Dist

\* So a target pays what its reflection pays.
LEMMA PaysFlips ==
  ASSUME NEW a \in Int, NEW entry \in Int, NEW sl \in Int, NEW tp1 \in Int, NEW rr
  PROVE  Pays(a - entry, a - sl, a - tp1, rr) <=> Pays(entry, sl, tp1, rr)
<1>1. Dist(a - tp1, a - entry) = Dist(tp1, entry) /\ Dist(a - entry, a - sl) = Dist(entry, sl)
  BY FlipDist
<1> QED
  BY <1>1 DEF Pays

\* A stop is as good as its reflection in the entry.
LEMMA FitFlips ==
  ASSUME NEW a \in Int, NEW entry \in Int, NEW sl \in Int, a = 2 * entry, NEW cfg
  PROVE  StopFits(a - entry, a - sl, cfg) <=> StopFits(entry, sl, cfg)
<1>1. a - entry = entry
  OBVIOUS
<1>2. Dist(entry, a - sl) = Dist(entry, sl)
  <2>1. Dist(a - entry, a - sl) = Dist(entry, sl)
    BY FlipDist
  <2> QED
    BY <1>1, <2>1
<1>3. a - sl # entry <=> sl # entry
  OBVIOUS
<1> QED
  BY <1>1, <1>2, <1>3 DEF StopFits

\* A multiple of the stop is reflected with it.
LEMMA MultipleFlips ==
  ASSUME NEW a \in Int, NEW d \in Sides, NEW entry \in Int, NEW sl \in Int, NEW rr \in Nat
  PROVE  /\ Multiple(d, entry, sl, rr) \in Int
         /\ Multiple(FlipSide(d), a - entry, a - sl, rr) = a - Multiple(d, entry, sl, rr)
<1> DEFINE x == Dist(entry, sl) * rr  y == x \div 100
<1>1. Dist(a - entry, a - sl) = Dist(entry, sl)
  BY FlipDist
<1>2. Dist(entry, sl) \in Nat
  BY DistIs
<1>3. x \in Nat
  BY <1>2
<1> HIDE DEF x
<1>4. y \in Int
  BY <1>3
<1>5. /\ Multiple(d, entry, sl, rr) = entry + Sign(d) * y
      /\ Multiple(FlipSide(d), a - entry, a - sl, rr) = (a - entry) + Sign(FlipSide(d)) * y
  BY <1>1 DEF Multiple, x
<1> HIDE DEF y
<1>6. (Sign(d) = 1 /\ Sign(FlipSide(d)) = -1) \/ (Sign(d) = -1 /\ Sign(FlipSide(d)) = 1)
  BY DEF Sign, FlipSide, Sides, Long, Short
<1> QED
  BY <1>4, <1>5, <1>6

\* What the key levels are.
LEMMA KeyValues ==
  ASSUME NEW x, Readable(x)
  PROVE  /\ KeyLevels(x) \in Seq(Int)
         /\ Values(KeyLevels(x)) =
              {x.pdh, x.pdl, x.pdc} \cup Values(x.vwap) \cup Values(x.callWall)
                \cup Values(x.putWall) \cup Values(x.maxPain)
                \cup IF x.orLocked THEN Values(x.orh) \cup Values(x.orl) ELSE {}
<1> DEFINE Or(y) == IF y.orLocked THEN y.orh \o y.orl ELSE None
           Days(y) == <<y.pdh, y.pdl, y.pdc>>
<1>1. /\ x.vwap \in Optional(Int) /\ x.callWall \in Optional(Int)
      /\ x.putWall \in Optional(Int) /\ x.maxPain \in Optional(Int)
      /\ x.orh \in Optional(Int) /\ x.orl \in Optional(Int)
      /\ x.pdh \in Int /\ x.pdl \in Int /\ x.pdc \in Int
  BY DEF Readable
<1>2. /\ x.vwap \in Seq(Int) /\ x.callWall \in Seq(Int)
      /\ x.putWall \in Seq(Int) /\ x.maxPain \in Seq(Int)
      /\ x.orh \in Seq(Int) /\ x.orl \in Seq(Int)
  BY <1>1, OptionalInt
<1>3. Days(x) \in Seq(Int) /\ Values(Days(x)) = {x.pdh, x.pdl, x.pdc}
  BY <1>1 DEF Values
<1>4. /\ Or(x) \in Seq(Int)
      /\ Values(Or(x)) = IF x.orLocked THEN Values(x.orh) \cup Values(x.orl) ELSE {}
  <2>2. None \in Seq(Int) /\ Values(None) = {}
    BY DEF None, Values
  <2> QED
    BY <1>2, JoinedValues, <2>2
<1>6. /\ OiLevels(x) \in Seq(Int)
      /\ Values(OiLevels(x))
           = (Values(x.callWall) \cup Values(x.putWall)) \cup Values(x.maxPain)
  <2> DEFINE w == x.callWall \o x.putWall
  <2>2. w \in Seq(Int) /\ Values(w) = Values(x.callWall) \cup Values(x.putWall)
    BY <1>2, JoinedValues
  <2> HIDE DEF w
  <2>4. OiLevels(x) = w \o x.maxPain
    BY DEF w, OiLevels
  <2> QED
    BY <2>2, <1>2, JoinedValues, <2>4
<1> HIDE DEF Or, Days
<1>7. /\ Days(x) \o x.vwap \in Seq(Int)
      /\ Values(Days(x) \o x.vwap) = Values(Days(x)) \cup Values(x.vwap)
  BY <1>2, <1>3, JoinedValues
<1>8. /\ (Days(x) \o x.vwap) \o OiLevels(x) \in Seq(Int)
      /\ Values((Days(x) \o x.vwap) \o OiLevels(x))
           = Values(Days(x) \o x.vwap) \cup Values(OiLevels(x))
  BY <1>6, <1>7, JoinedValues
<1>9. /\ ((Days(x) \o x.vwap) \o OiLevels(x)) \o Or(x) \in Seq(Int)
      /\ Values(((Days(x) \o x.vwap) \o OiLevels(x)) \o Or(x))
           = Values((Days(x) \o x.vwap) \o OiLevels(x)) \cup Values(Or(x))
  BY <1>4, <1>8, JoinedValues
<1>10. KeyLevels(x) = ((Days(x) \o x.vwap) \o OiLevels(x)) \o Or(x)
  BY DEF KeyLevels, Days, Or
<1> QED
  BY <1>3, <1>4, <1>6, <1>7, <1>8, <1>9, <1>10

\* The levels of the reflection are the reflected levels.
LEMMA MirroredLevels ==
  ASSUME NEW a, NEW c, NEW k, Mirrored(a, c, k)
  PROVE  /\ KeyLevels(c) \in Seq(Int) /\ KeyLevels(k) \in Seq(Int)
         /\ Values(KeyLevels(k)) = Reflect(a, Values(KeyLevels(c)))
<1>1. a \in Int /\ Readable(c) /\ Readable(k)
  BY DEF Mirrored
<1>3. /\ Values(k.vwap) = Reflect(a, Values(c.vwap))
      /\ Values(k.maxPain) = Reflect(a, Values(c.maxPain))
      /\ Values(k.callWall) = Reflect(a, Values(c.putWall))
      /\ Values(k.putWall) = Reflect(a, Values(c.callWall))
      /\ Values(k.orh) = Reflect(a, Values(c.orl))
      /\ Values(k.orl) = Reflect(a, Values(c.orh))
  <2>2. \A s \in Optional(Int) : Values(FlipAll(a, s)) = Reflect(a, Values(s))
    BY <1>1, OptionalInt, FlippedValues
  <2>3. /\ k.vwap = FlipAll(a, c.vwap) /\ k.maxPain = FlipAll(a, c.maxPain)
        /\ k.callWall = FlipAll(a, c.putWall) /\ k.putWall = FlipAll(a, c.callWall)
        /\ k.orh = FlipAll(a, c.orl) /\ k.orl = FlipAll(a, c.orh)
    BY DEF Mirrored, TurnedPrices
  <2> QED
    BY <1>1, <2>2, <2>3 DEF Readable
<1>4. /\ k.pdh = a - c.pdl /\ k.pdl = a - c.pdh /\ k.pdc = a - c.pdc
      /\ k.orLocked = c.orLocked
  BY DEF Mirrored, TurnedPrices, SameReads
<1> DEFINE V(x) == Values(x.vwap) \cup Values(x.callWall)
                     \cup Values(x.putWall) \cup Values(x.maxPain)
                     \cup IF x.orLocked THEN Values(x.orh) \cup Values(x.orl) ELSE {}
<1>5. V(k) = {a - v : v \in V(c)}
  BY <1>3, <1>4 DEF Reflect
<1>6. /\ Values(KeyLevels(k)) = {k.pdh, k.pdl, k.pdc} \cup V(k)
      /\ Values(KeyLevels(c)) = {c.pdh, c.pdl, c.pdc} \cup V(c)
  BY <1>1, KeyValues
<1>7. {k.pdh, k.pdl, k.pdc} = {a - v : v \in {c.pdh, c.pdl, c.pdc}}
  BY <1>4
<1> HIDE DEF V
<1>8. Values(KeyLevels(k)) = Reflect(a, Values(KeyLevels(c)))
  BY <1>5, <1>6, <1>7 DEF Reflect
<1> QED
  BY <1>1, <1>8, KeyValues

\* The levels of a list in a band beyond a price.
Beyond(list, d, entry, least, most) ==
  {v \in Values(list) : /\ v > 0 /\ least <= 100 * Sign(d) * (v - entry)
                        /\ 100 * Sign(d) * (v - entry) <= most}

\* The least level of a band, on the side of a candidate.
LEMMA BeyondIs ==
  ASSUME NEW list \in Seq(Int), NEW d, NEW entry \in Int, NEW least \in Int,
         NEW most \in Int, NEW p \in Int
  PROVE  LET mapped == LevelsBeyond(list, d, entry, least, most)
             band == Beyond(list, d, entry, least, most) IN
         /\ mapped = {} <=> band = {}
         /\ band # {} => \E v \in band :
              /\ FirstMin(list, mapped, LAMBDA x : Dist(x, p)) = <<v>>
              /\ \A w \in band : Dist(v, p) <= Dist(w, p)
<1> DEFINE mapped == LevelsBeyond(list, d, entry, least, most)
           band == Beyond(list, d, entry, least, most)
<1>1. mapped \subseteq DOMAIN list
  BY DEF LevelsBeyond
<1>2. \A i \in mapped : list[i] \in band
  BY DEF LevelsBeyond, Beyond, Values
<1>3. \A v \in band : \E i \in mapped : v = list[i]
  BY DEF LevelsBeyond, Beyond, Values
<1> HIDE DEF mapped, band
<1>5. mapped = {} <=> band = {}
  BY <1>2, <1>3
<1>6. ASSUME band # {}
      PROVE  \E v \in band : /\ FirstMin(list, mapped, LAMBDA x : Dist(x, p)) = <<v>>
                             /\ \A w \in band : Dist(v, p) <= Dist(w, p)
  <2>1. PICK i \in mapped : /\ FirstMin(list, mapped, LAMBDA x : Dist(x, p)) = <<list[i]>>
                            /\ \A j \in mapped : Dist(list[i], p) <= Dist(list[j], p)
    BY <1>1, FirstIsBest, <1>5, <1>6
  <2>2. list[i] \in band
    BY <1>2, <2>1
  <2> QED
    BY <2>1, <2>2, <1>3
<1> QED
  BY <1>5, <1>6 DEF mapped, band

\* The other side of a side.
LEMMA SidesFlip ==
  ASSUME NEW d \in Sides
  PROVE  /\ FlipSide(d) \in Sides /\ FlipSide(FlipSide(d)) = d
         /\ (Sign(d) = 1 /\ Sign(FlipSide(d)) = -1) \/ (Sign(d) = -1 /\ Sign(FlipSide(d)) = 1)
BY DEF Sign, FlipSide, Sides, Long, Short

\* The levels beyond a price, reflected.
LEMMA BeyondFlips ==
  ASSUME NEW a \in Int, NEW d \in Sides, NEW entry \in Int, NEW least \in Int,
         NEW most \in Int, NEW list \in Seq(Int), NEW image \in Seq(Int),
         Values(image) = Reflect(a, Values(list)),
         \A v \in Values(list) : 0 < v /\ v < a,
         NEW e \in Int, e = a - entry, NEW side, side = FlipSide(d)
  PROVE  Beyond(image, side, e, least, most)
           = Reflect(a, Beyond(list, d, entry, least, most))
<1> DEFINE In(v, s, at) == /\ v > 0 /\ least <= 100 * s * (v - at) /\ 100 * s * (v - at) <= most
<1>1. Values(list) \subseteq Int
  BY DEF Values
<1>2. ASSUME NEW v \in Values(list)
      PROVE  In(a - v, Sign(side), e) <=> In(v, Sign(d), entry)
  <2>1. v \in Int /\ 0 < v /\ 0 < a - v
    BY <1>1
  <2>2. CASE Sign(d) = 1 /\ Sign(side) = -1
    BY <2>1, <2>2
  <2>3. CASE Sign(d) = -1 /\ Sign(side) = 1
    BY <2>1, <2>3
  <2> QED
    BY <2>2, <2>3, SidesFlip
<1>3. /\ Beyond(list, d, entry, least, most) = {v \in Values(list) : In(v, Sign(d), entry)}
      /\ Beyond(image, side, e, least, most)
           = {v \in Values(image) : In(v, Sign(side), e)}
  BY DEF Beyond
<1> HIDE DEF In
<1> QED
  BY <1>2, <1>3 DEF Reflect

\* What the second target is.
LEMMA SecondIs ==
  ASSUME NEW c, KeyLevels(c) \in Seq(Int), NEW d \in Sides, NEW entry \in Int,
         NEW tp1 \in Int, entry > 0, NEW dist, dist = Dist(tp1, entry)
  PROVE  LET anchor == entry + Sign(d) * ((dist * TP2Mult) \div 100)
             band == Beyond(KeyLevels(c), d, entry, TP2MinMult * dist, TP2MaxMult * dist)
             second == DeriveTp2(c, d, entry, tp1) IN
         /\ dist \in Nat /\ anchor = entry + Sign(d) * (2 * dist) /\ anchor \in Int
         /\ TP2MinMult * dist \in Int /\ TP2MaxMult * dist \in Int
         /\ dist = 0 => second = None
         /\ dist # 0 /\ band = {} => second = <<anchor>>
         /\ dist # 0 /\ band # {} =>
              \E v \in band : second = <<v>> /\ \A w \in band : Dist(v, anchor) <= Dist(w, anchor)
<1> DEFINE anchor == entry + Sign(d) * ((dist * TP2Mult) \div 100)
           least == TP2MinMult * dist
           most == TP2MaxMult * dist
           mapped == LevelsBeyond(KeyLevels(c), d, entry, least, most)
           band == Beyond(KeyLevels(c), d, entry, least, most)
           nearest == FirstMin(KeyLevels(c), mapped, LAMBDA p : Dist(p, anchor))
<1>1. dist \in Nat
  BY DistIs
<1>2. Sign(d) \in {1, -1}
  BY SignIs
<1>3. /\ anchor = entry + Sign(d) * (2 * dist) /\ anchor \in Int
      /\ least \in Int /\ most \in Int
  <2>1. (dist * TP2Mult) \div 100 = 2 * dist
    BY <1>1 DEF TP2Mult
  <2>2. anchor = entry + Sign(d) * (2 * dist)
    BY <2>1
  <2>3. anchor \in Int
    BY <1>1, <1>2, <2>2
  <2>4. least \in Int /\ most \in Int
    BY <1>1 DEF TP2MinMult, TP2MaxMult
  <2> QED
    BY <2>2, <2>3, <2>4
<1>4. DeriveTp2(c, d, entry, tp1)
        = IF entry <= 0 \/ dist = 0 THEN None
          ELSE IF mapped = {} THEN <<anchor>>
          ELSE nearest
  BY DEF DeriveTp2
<1> HIDE DEF anchor, least, most
<1>5. /\ mapped = {} <=> band = {}
      /\ band # {} => \E v \in band :
           /\ nearest = <<v>>
           /\ \A w \in band : Dist(v, anchor) <= Dist(w, anchor)
  BY <1>3, BeyondIs
<1> HIDE DEF mapped, band, nearest
<1>7. dist = 0 => DeriveTp2(c, d, entry, tp1) = None
  BY <1>4
<1>8. dist # 0 /\ band = {} => DeriveTp2(c, d, entry, tp1) = <<anchor>>
  BY <1>4, <1>5
<1> QED
  BY <1>1, <1>3, <1>4, <1>5, <1>7, <1>8 DEF anchor, least, most, band

\* Quoted levels lie within the axis.
LEMMA QuotedLevels ==
  ASSUME NEW a, NEW c, Quoted(a, c)
  PROVE  \A v \in Values(KeyLevels(c)) : 0 < v /\ v < a
BY DEF Quoted, Values

\* The second target of the reflection is the reflected one, or a level as
\* far from the anchor as that.
LEMMA SecondFlips ==
  ASSUME NEW a, NEW c, NEW k, Mirrored(a, c, k), Quoted(a, c), NEW d \in Sides,
         NEW entry \in Int, NEW tp1 \in Int, entry > 0, a - entry > 0
  PROVE  LET second == DeriveTp2(c, d, entry, tp1)
             image == DeriveTp2(k, FlipSide(d), a - entry, a - tp1)
             anchor == entry + Sign(d) * ((Dist(tp1, entry) * TP2Mult) \div 100) IN
         \/ image = FlipAll(a, second)
         \/ /\ second # None /\ image # None
            /\ {second[1], a - image[1]} \subseteq Values(KeyLevels(c))
            /\ Dist(second[1], anchor) = Dist(a - image[1], anchor)
<1> DEFINE dist == Dist(tp1, entry)
           anchor == entry + Sign(d) * ((dist * TP2Mult) \div 100)
           least == TP2MinMult * dist
           most == TP2MaxMult * dist
           e == a - entry
           side == FlipSide(d)
           t == a - tp1
           anchor2 == e + Sign(side) * ((dist * TP2Mult) \div 100)
           band == Beyond(KeyLevels(c), d, entry, least, most)
           band2 == Beyond(KeyLevels(k), side, e, least, most)
           second == DeriveTp2(c, d, entry, tp1)
           image == DeriveTp2(k, side, e, t)
           Result == \/ image = FlipAll(a, second)
                     \/ /\ second # None /\ image # None
                        /\ {second[1], a - image[1]} \subseteq Values(KeyLevels(c))
                        /\ Dist(second[1], anchor) = Dist(a - image[1], anchor)
<1>1. /\ a \in Int /\ KeyLevels(c) \in Seq(Int) /\ KeyLevels(k) \in Seq(Int)
      /\ Values(KeyLevels(k)) = Reflect(a, Values(KeyLevels(c)))
      /\ \A v \in Values(KeyLevels(c)) : 0 < v /\ v < a
      /\ Values(KeyLevels(c)) \subseteq Int
  <2>1. a \in Int
    BY DEF Mirrored
  <2>2. KeyLevels(c) \in Seq(Int)
    BY MirroredLevels
  <2>3. Values(KeyLevels(c)) \subseteq Int
    BY <2>2 DEF Values
  <2> QED
    BY <2>1, <2>3, MirroredLevels, QuotedLevels
<1>2. e \in Int /\ e > 0 /\ t \in Int /\ side \in Sides
  BY <1>1, SidesFlip
<1>3. dist = Dist(t, e) /\ e = a - entry /\ side = FlipSide(d)
  BY <1>1, FlipDist
<1>4. /\ dist \in Nat /\ anchor = entry + Sign(d) * (2 * dist) /\ anchor \in Int
      /\ least \in Int /\ most \in Int
      /\ dist = 0 => second = None
      /\ dist # 0 /\ band = {} => second = <<anchor>>
      /\ dist # 0 /\ band # {} =>
           \E v \in band : second = <<v>> /\ \A w \in band : Dist(v, anchor) <= Dist(w, anchor)
  BY <1>1, SecondIs
<1> HIDE DEF e, t, side
<1>5. /\ anchor2 = e + Sign(side) * (2 * dist) /\ anchor2 \in Int
      /\ dist = 0 => image = None
      /\ dist # 0 /\ band2 = {} => image = <<anchor2>>
      /\ dist # 0 /\ band2 # {} =>
           \E v \in band2 : /\ image = <<v>>
                            /\ \A w \in band2 : Dist(v, anchor2) <= Dist(w, anchor2)
  <2> HIDE DEF dist
  <2>1. KeyLevels(k) \in Seq(Int) /\ side \in Sides /\ e \in Int /\ t \in Int /\ e > 0
    BY <1>1, <1>2
  <2>2. dist = Dist(t, e)
    BY <1>3
  <2> QED
    BY <2>1, <2>2, SecondIs
<1>6. band2 = Reflect(a, band)
  BY <1>2, <1>3, <1>4, <1>1, BeyondFlips
<1>7. band \subseteq Values(KeyLevels(c))
  BY DEF Beyond
<1>8. anchor2 = a - anchor
  <2> HIDE DEF anchor, anchor2, dist
  <2>2. a \in Int /\ e = a - entry /\ dist \in Nat /\ anchor = entry + Sign(d) * (2 * dist)
        /\ anchor2 = e + Sign(side) * (2 * dist)
    BY <1>1, <1>3, <1>4, <1>5
  <2> QED
    BY <1>3, SidesFlip, <2>2
<1> HIDE DEF dist, anchor, least, most, band, band2, anchor2, second, image
<1>9. ASSUME dist = 0 PROVE Result
  BY <1>1, <1>4, <1>5, <1>9, FlipOne
<1>10. ASSUME dist # 0 /\ band = {} PROVE Result
  BY <1>6, <1>10, <1>4, <1>5, <1>8, <1>1, FlipOne DEF Reflect
<1>11. ASSUME dist # 0 /\ band # {} PROVE Result
  <2>1. PICK v \in band : second = <<v>> /\ \A w \in band : Dist(v, anchor) <= Dist(w, anchor)
    BY <1>4, <1>11
  <2>2. band2 # {}
    BY <1>6, <1>11 DEF Reflect
  <2>3. PICK u \in band2 : image = <<u>> /\ \A w \in band2 : Dist(u, anchor2) <= Dist(w, anchor2)
    BY <1>5, <1>11, <2>2
  <2>4. PICK x \in band : u = a - x
    BY <1>6 DEF Reflect
  <2>5. v \in Int /\ x \in Int /\ x = a - u
    BY <1>1, <1>7, <2>4
  <2>6. Dist(a - x, anchor2) = Dist(x, anchor) /\ Dist(a - v, anchor2) = Dist(v, anchor)
    <3>1. Dist(a - x, a - anchor) = Dist(x, anchor)
      BY <1>1, <1>4, <2>5 DEF Dist
    <3>2. Dist(a - v, a - anchor) = Dist(v, anchor)
      BY <1>1, <1>4, <2>5 DEF Dist
    <3> QED
      BY <1>8, <3>1, <3>2
  <2>7. Dist(v, anchor) <= Dist(x, anchor)
    BY <2>1
  <2>8. Dist(x, anchor) <= Dist(v, anchor)
    BY <1>6, <2>3, <2>4, <2>6 DEF Reflect
  <2>10. Dist(v, anchor) = Dist(x, anchor)
    BY <2>7, <2>8, <1>4, <2>5, DistIs
  <2>12. second # None /\ image # None /\ second[1] = v /\ a - image[1] = x
    BY <2>1, <2>3, <2>5 DEF None
  <2> QED
    BY <2>10, <1>7, <2>12
<1>12. Result
  BY <1>4, <1>9, <1>10, <1>11
<1> QED
  BY <1>12 DEF anchor, dist, second, image, e, t, side

Twins(a, c, found, image) ==
  IF found = None THEN image = None
  ELSE image # None /\ SameSignal(a, c, found[1], image[1])

GridSetups == {"ORB", "VSB", "BDS"}

\* A candidate drawn up in the reflection from reflected prices is the
\* reflected candidate.
LEMMA SignalFlips ==
  ASSUME NEW a, NEW c, NEW k, Mirrored(a, c, k), Quoted(a, c),
         NEW d \in Sides, NEW side, side = FlipSide(d),
         NEW entry \in Int, NEW sl \in Int, NEW tp1 \in Int,
         NEW e \in Int, e = a - entry, NEW s \in Int, s = a - sl, NEW t \in Int,
         entry > 0, e > 0, NEW setup, NEW name, name = FlipSetup(setup),
         NEW type, NEW htf, NEW volume,
         \/ t = a - tp1
         \/ setup \in GridSetups /\ (tp1 % RoundStep(c) = 0 \/ t % RoundStep(c) = 0)
  PROVE  Twins(a, c, Signal(c, setup, d, entry, sl, tp1, type, htf, volume),
                     Signal(k, name, side, e, s, t, type, htf, volume))
<1> DEFINE second == DeriveTp2(c, d, entry, tp1)
           third == DeriveTp2(k, side, e, t)
           sig == [setup |-> setup, dir |-> d, entry |-> entry, sl |-> sl, tp1 |-> tp1,
                   tp2 |-> second, type |-> type, htf |-> htf, volume |-> volume]
           image == [setup |-> name, dir |-> side, entry |-> e, sl |-> s, tp1 |-> t,
                     tp2 |-> third, type |-> type, htf |-> htf, volume |-> volume]
           flipped == FlipSignal(a, sig)
<1>1. /\ Signal(c, setup, d, entry, sl, tp1, type, htf, volume) = <<sig>>
      /\ Signal(k, name, side, e, s, t, type, htf, volume) = <<image>>
  BY DEF Signal
<1>2. a \in Int
  BY DEF Mirrored
<1>3. flipped = [setup |-> name, dir |-> side, entry |-> e, sl |-> s, tp1 |-> a - tp1,
                 tp2 |-> FlipAll(a, second), type |-> type, htf |-> htf, volume |-> volume]
  BY DEF FlipSignal
<1>5. /\ OnGrid(<<sig>>, c) <=> setup \in GridSetups /\ tp1 % RoundStep(c) = 0
      /\ OnGrid(<<image>>, c) <=> name \in GridSetups /\ t % RoundStep(c) = 0
  BY DEF OnGrid, GridSetups, None
<1>6. name \in GridSetups <=> setup \in GridSetups
  BY DEF FlipSetup, GridSetups
<1>7. ASSUME t = a - tp1
      PROVE  /\ \A f \in DOMAIN sig \ {"tp2"} : image[f] = flipped[f]
             /\ SameSecond(a, c, sig, image)
  <2>3. a - entry > 0
    OBVIOUS
  <2> DEFINE anchor == entry + Sign(d) * ((Dist(tp1, entry) * TP2Mult) \div 100)
  <2>4. \/ third = FlipAll(a, second)
        \/ /\ second # None /\ third # None
           /\ {second[1], a - third[1]} \subseteq Values(KeyLevels(c))
           /\ Dist(second[1], anchor) = Dist(a - third[1], anchor)
    BY <1>7, <2>3, SecondFlips
  <2>6. SameSecond(a, c, sig, image)
    BY <2>4 DEF SameSecond, Values
  <2> QED
    BY <1>3, <1>7, <2>6
<1>8. SameSignal(a, c, sig, image)
  BY <1>3, <1>5, <1>6, <1>7 DEF SameSignal
<1> HIDE DEF sig, image
<1>9. /\ <<sig>> # None /\ <<image>> # None
      /\ <<sig>>[1] = sig /\ <<image>>[1] = image
  BY DEF None
<1> QED
  BY <1>1, <1>8, <1>9 DEF Twins

\* Two halves that find nothing.
LEMMA NoneFound == ASSUME NEW a, NEW c PROVE Twins(a, c, None, None)
BY DEF Twins

\* A number of the grid is a multiple of its step.
LEMMA GridIs ==
  ASSUME NEW c, NEW entry \in Int, NEW step, step = RoundStep(c), step \in {50, 100}
  PROVE  /\ RoundTo(entry, step) \in Int /\ RoundTo(entry, step) % step = 0
         /\ RoundGrid(c, entry) \in Seq(Int)
         /\ \A v \in Values(RoundGrid(c, entry)) : v % step = 0
<1> DEFINE base == RoundTo(entry, step)
<1>1. \E q \in Int : base = step * q
  <2>1. CASE step = 50
    <3> DEFINE q == IF 2 * (entry % 50) < 50 \/ (2 * (entry % 50) = 50 /\ (entry \div 50) % 2 = 0)
                    THEN entry \div 50 ELSE entry \div 50 + 1
    <3>1. q \in Int /\ base = 50 * q
      BY <2>1 DEF RoundTo
    <3> HIDE DEF q
    <3> QED
      BY <2>1, <3>1
  <2>2. CASE step = 100
    <3> DEFINE q == IF 2 * (entry % 100) < 100 \/ (2 * (entry % 100) = 100 /\ (entry \div 100) % 2 = 0)
                    THEN entry \div 100 ELSE entry \div 100 + 1
    <3>1. q \in Int /\ base = 100 * q
      BY <2>2 DEF RoundTo
    <3> HIDE DEF q
    <3> QED
      BY <2>2, <3>1
  <2> QED
    BY <2>1, <2>2
<1>2. PICK q \in Int : base = step * q
  BY <1>1
<1> HIDE DEF base
<1>3. ASSUME NEW j \in Int
      PROVE  base + j * step \in Int /\ (base + j * step) % step = 0
  BY <1>2
<1>4. base \in Int /\ base % step = 0
  BY <1>2
<1>5. RoundGrid(c, entry) = [j \in 1..5 |-> base + (j - 2) * step]
  BY DEF RoundGrid, base
<1>6. \A j \in 1..5 : base + (j - 2) * step \in Int /\ (base + (j - 2) * step) % step = 0
  <2> TAKE j \in 1..5
  <2>1. j - 2 \in Int
    OBVIOUS
  <2> QED
    BY <1>3, <2>1
<1>7. RoundGrid(c, entry) \in Seq(Int)
  BY <1>5, <1>6, Indexed
<1>8. \A v \in Values(RoundGrid(c, entry)) : v % step = 0
  BY <1>5, <1>6 DEF Values
<1> QED
  BY <1>4, <1>7, <1>8 DEF base

\* What the structural target is: the multiple of the stop, or the level or
\* round number nearest the entry in the band.
LEMMA StructuralIs ==
  ASSUME NEW c, KeyLevels(c) \in Seq(Int), NEW d \in Sides, NEW entry \in Int,
         NEW sl \in Int, entry > 0, sl # entry, NEW dist, dist = Dist(entry, sl)
  PROVE  LET all == KeyLevels(c) \o RoundGrid(c, entry)
             band == Beyond(all, d, entry, TP1MinRR * dist, 200 * dist)
             tp1 == StructuralTp1(c, d, entry, sl, 200) IN
         /\ dist \in Nat \ {0} /\ tp1 \in Int
         /\ \A v \in Values(all) : v \in Values(KeyLevels(c)) \/ v % RoundStep(c) = 0
         /\ Values(KeyLevels(c)) \subseteq Values(all) /\ Values(all) \subseteq Int
         /\ band = {} => tp1 = Multiple(d, entry, sl, 200)
         /\ band # {} => tp1 \in band /\ \A w \in band : Dist(tp1, entry) <= Dist(w, entry)
<1> DEFINE grid == RoundGrid(c, entry)
           all == KeyLevels(c) \o grid
           least == TP1MinRR * dist
           most == 200 * dist
           mapped == LevelsBeyond(all, d, entry, least, most)
           band == Beyond(all, d, entry, least, most)
           nearest == FirstMin(all, mapped, LAMBDA p : Dist(p, entry))
           tp1 == StructuralTp1(c, d, entry, sl, 200)
           step == RoundStep(c)
<1>1. dist \in Nat \ {0}
  BY DistIs
<1>2. step \in {50, 100}
  BY DEF RoundStep
<1>3. grid \in Seq(Int) /\ \A v \in Values(grid) : v % step = 0
  BY <1>2, GridIs
<1> HIDE DEF grid
<1>4. all \in Seq(Int) /\ Values(all) = Values(KeyLevels(c)) \cup Values(grid)
  BY <1>3, JoinedValues
<1>5. Values(all) \subseteq Int
  BY <1>4 DEF Values
<1>6. least \in Int /\ most \in Int
  BY <1>1 DEF TP1MinRR
<1>7. tp1 = IF entry <= 0 \/ dist = 0 \/ mapped = {} THEN Multiple(d, entry, sl, 200)
            ELSE nearest[1]
  BY DEF StructuralTp1, grid
<1> HIDE DEF least, most, all, tp1
<1>8. /\ mapped = {} <=> band = {}
      /\ band # {} => \E v \in band : /\ nearest = <<v>>
                                      /\ \A w \in band : Dist(v, entry) <= Dist(w, entry)
  BY <1>4, <1>6, BeyondIs
<1>9. band \subseteq Values(all)
  BY DEF Beyond
<1> HIDE DEF mapped, nearest, band
<1>10. band = {} => tp1 = Multiple(d, entry, sl, 200)
  BY <1>7, <1>8
<1>11. band # {} => tp1 \in band /\ \A w \in band : Dist(tp1, entry) <= Dist(w, entry)
  BY <1>1, <1>7, <1>8
<1>12. Multiple(d, entry, sl, 200) \in Int
  BY MultiplePays
<1>13. tp1 \in Int
  BY <1>5, <1>9, <1>10, <1>11, <1>12
<1> QED
  BY <1>1, <1>3, <1>4, <1>5, <1>10, <1>11, <1>13 DEF all, band, least, most, tp1, grid

\* On one side of a price the distance says which level it is.
LEMMA SameDistance ==
  ASSUME NEW list, NEW d \in Sides, NEW entry \in Int, NEW least \in Nat, NEW most,
         NEW v \in Beyond(list, d, entry, least, most),
         NEW w \in Beyond(list, d, entry, least, most), v \in Int, w \in Int,
         Dist(v, entry) = Dist(w, entry)
  PROVE  v = w
<1>1. 0 <= 100 * Sign(d) * (v - entry) /\ 0 <= 100 * Sign(d) * (w - entry)
  BY SignIs DEF Beyond
<1>2. CASE Sign(d) = 1
  BY <1>1, <1>2 DEF Dist
<1>3. CASE Sign(d) = -1
  BY <1>1, <1>3 DEF Dist
<1> QED
  BY <1>2, <1>3, SignIs

\* The structural target of the reflection is the reflected one, unless one
\* of the two is a round number.
LEMMA StructuralFlips ==
  ASSUME NEW a, NEW c, NEW k, Mirrored(a, c, k), Quoted(a, c),
         NEW d \in Sides, NEW side, side = FlipSide(d),
         NEW entry \in Int, NEW sl \in Int, NEW e \in Int, e = a - entry,
         NEW s \in Int, s = a - sl, entry > 0, e > 0, sl # entry
  PROVE  LET tp1 == StructuralTp1(c, d, entry, sl, 200)
             t == StructuralTp1(k, side, e, s, 200)
             step == RoundStep(c) IN
         tp1 \in Int /\ t \in Int /\ (t = a - tp1 \/ tp1 % step = 0 \/ t % step = 0)
<1> DEFINE dist == Dist(entry, sl)
           least == TP1MinRR * dist
           most == 200 * dist
           K == KeyLevels(c)
           L == KeyLevels(k)
           all == K \o RoundGrid(c, entry)
           all2 == L \o RoundGrid(k, e)
           band == Beyond(all, d, entry, least, most)
           band2 == Beyond(all2, side, e, least, most)
           tp1 == StructuralTp1(c, d, entry, sl, 200)
           t == StructuralTp1(k, side, e, s, 200)
           step == RoundStep(c)
<1>1. a \in Int /\ K \in Seq(Int) /\ L \in Seq(Int)
  BY MirroredLevels DEF Mirrored
<1>2. Values(L) = Reflect(a, Values(K))
  BY MirroredLevels
<1>3. \A v \in Values(K) : 0 < v /\ v < a
  BY QuotedLevels
<1>4. side \in Sides /\ s # e
  BY <1>1, SidesFlip
<1>5. dist = Dist(e, s)
  BY <1>1 DEF Dist
<1>6. RoundStep(k) = step
  BY MirroredAtr
<1>7. /\ dist \in Nat \ {0} /\ tp1 \in Int
      /\ \A v \in Values(all) : v \in Values(K) \/ v % step = 0
      /\ Values(K) \subseteq Values(all) /\ Values(all) \subseteq Int
      /\ band = {} => tp1 = Multiple(d, entry, sl, 200)
      /\ band # {} => tp1 \in band /\ \A w \in band : Dist(tp1, entry) <= Dist(w, entry)
  BY <1>1, StructuralIs, SMTT(30)
<1>8. /\ t \in Int
      /\ \A v \in Values(all2) : v \in Values(L) \/ v % step = 0
      /\ Values(L) \subseteq Values(all2) /\ Values(all2) \subseteq Int
      /\ band2 = {} => t = Multiple(side, e, s, 200)
      /\ band2 # {} => t \in band2 /\ \A w \in band2 : Dist(t, e) <= Dist(w, e)
  <2>1. KeyLevels(k) \in Seq(Int)
    BY <1>1
  <2>2. /\ t \in Int
        /\ \A v \in Values(all2) : v \in Values(L) \/ v % RoundStep(k) = 0
        /\ Values(L) \subseteq Values(all2) /\ Values(all2) \subseteq Int
        /\ band2 = {} => t = Multiple(side, e, s, 200)
        /\ band2 # {} => t \in band2 /\ \A w \in band2 : Dist(t, e) <= Dist(w, e)
    <3> HIDE DEF dist
    <3> QED
      BY <1>4, <1>5, <2>1, StructuralIs
  <2> HIDE DEF dist, least, most, band2, all2, L, t
  <2> QED
    BY <1>6, <2>2
<1>9. least \in Nat /\ most \in Int
  BY <1>7 DEF TP1MinRR
<1>10. Beyond(L, side, e, least, most) = Reflect(a, Beyond(K, d, entry, least, most))
  BY <1>9, <1>1, <1>2, <1>3, BeyondFlips
<1>11. /\ Beyond(K, d, entry, least, most) \subseteq band
       /\ Beyond(L, side, e, least, most) \subseteq band2
       /\ band \cap Values(K) \subseteq Beyond(K, d, entry, least, most)
       /\ band2 \cap Values(L) \subseteq Beyond(L, side, e, least, most)
       /\ band \subseteq Values(all) /\ band2 \subseteq Values(all2)
  BY <1>7, <1>8 DEF Beyond
<1>12. Multiple(side, e, s, 200) = a - Multiple(d, entry, sl, 200)
  BY <1>1, MultipleFlips
<1> HIDE DEF dist, least, most, K, L, all, all2, tp1, t, step
<1> SUFFICES ASSUME tp1 % step # 0, t % step # 0 PROVE t = a - tp1
  BY <1>7, <1>8 DEF tp1, t, step
\* A level of one band is reflected in a level of the other.
<1>13. \A v \in band \cap Values(K) : a - v \in band2
  BY <1>10, <1>11 DEF Reflect
<1>14. \A w \in band2 \cap Values(L) : a - w \in band
  <2> SUFFICES ASSUME NEW w \in band2 \cap Values(L) PROVE a - w \in band
    OBVIOUS
  <2>1. PICK v \in Beyond(K, d, entry, least, most) : w = a - v
    BY <1>10, <1>11 DEF Reflect
  <2>2. v \in band /\ v \in Int
    BY <1>7, <1>11, <2>1
  <2>3. a - w = v
    BY <1>1, <2>1, <2>2
  <2> QED
    BY <2>2, <2>3
<1>15. band # {} => tp1 \in band \cap Values(K)
  BY <1>7, <1>11
<1>16. band2 # {} => t \in band2 \cap Values(L)
  BY <1>8, <1>11
<1>17. CASE band = {}
  BY <1>14, <1>16, <1>17, <1>7, <1>8, <1>12
<1>18. CASE band # {}
  <2>1. tp1 \in band /\ a - tp1 \in band2
    BY <1>13, <1>15, <1>18
  <2>2. t \in band2 /\ a - t \in band
    BY <1>14, <1>16, <2>1
  <2>3. Dist(t, e) <= Dist(a - tp1, e) /\ Dist(tp1, entry) <= Dist(a - t, entry)
    BY <1>7, <1>8, <2>1, <2>2
  <2>4. Dist(t, e) = Dist(a - t, entry) /\ Dist(a - tp1, e) = Dist(tp1, entry)
    BY <1>1, <1>7, <1>8 DEF Dist
  <2>5. Dist(t, e) \in Nat /\ Dist(tp1, entry) \in Nat
    BY <1>7, <1>8, DistIs
  <2>6. Dist(a - t, entry) = Dist(tp1, entry)
    BY <2>3, <2>4, <2>5
  <2> DEFINE x == a - t
  <2>7. x \in band /\ x \in Int /\ Dist(x, entry) = Dist(tp1, entry)
    BY <1>1, <1>8, <2>2, <2>6
  <2> HIDE DEF x
  <2>8. x = tp1
    BY <1>7, <1>9, <2>1, <2>7, SameDistance
  <2> QED
    BY <1>1, <1>7, <1>8, <2>8 DEF x
<1> QED
  BY <1>17, <1>18

\* The levels of the reflection are quoted when the levels are.
LEMMA QuotedTurns ==
  ASSUME NEW a, NEW c, NEW k, Mirrored(a, c, k), Quoted(a, c)
  PROVE  Quoted(a, k)
<1>1. a \in Int /\ KeyLevels(c) \in Seq(Int)
  BY MirroredLevels DEF Mirrored
<1>3. \A v \in Values(KeyLevels(c)) : 0 < v /\ v < a
  BY QuotedLevels
<1>4. Values(KeyLevels(c)) \subseteq Int
  BY <1>1 DEF Values
<1>5. \A v \in Values(KeyLevels(k)) : 0 < v /\ v < a
  BY <1>1, MirroredLevels, <1>3, <1>4 DEF Reflect
<1> QED
  BY <1>5 DEF Quoted, Values

\* The hour agrees with a side in the reflection when it agrees with the
\* other side.
LEMMA HourTurns ==
  ASSUME NEW a, NEW c, NEW k, Mirrored(a, c, k), NEW d \in Sides, NEW side, side = FlipSide(d)
  PROVE  /\ (TrendMatches(k, side) <=> TrendMatches(c, d))
         /\ (ReversalAligned(k, side) <=> ReversalAligned(c, d))
         /\ (NotAgainst(k, side) <=> NotAgainst(c, d))
<1>1. c.r60 \in Regimes /\ k.r60 = FlipTrend(c.r60)
  BY DEF Mirrored, Readable, TurnedReads
<1>2. c.r60 \in {"UP", "DOWN", "RANGING", "QUIET"}
  BY <1>1 DEF Regimes
<1>3. (d = Long /\ side = Short) \/ (d = Short /\ side = Long)
  BY DEF Sides, FlipSide, Long, Short
<1>4. Long # Short
  BY DEF Long, Short
<1>5. TrendMatches(k, side) <=> TrendMatches(c, d)
  BY <1>1, <1>2, <1>3, <1>4 DEF TrendMatches, FlipTrend
<1>6. ReversalAligned(k, side) <=> ReversalAligned(c, d)
  BY <1>1, <1>2, <1>3, <1>4 DEF ReversalAligned, FlipTrend
<1>7. NotAgainst(k, side) <=> NotAgainst(c, d)
  BY <1>1, <1>2, <1>3, <1>4 DEF NotAgainst, FlipTrend
<1> QED
  BY <1>5, <1>6, <1>7

\* Whether the hour agrees is true or false.
LEMMA LabelsTell ==
  ASSUME NEW c, NEW d
  PROVE  TrendMatches(c, d) \in BOOLEAN /\ ReversalAligned(c, d) \in BOOLEAN /\ NotAgainst(c, d) \in BOOLEAN
BY DEF TrendMatches, ReversalAligned, NotAgainst

\* A price is on the axis; the last price is.
OnAxis(a, p) == a = 2 * p
AtClose(a, c) == OnAxis(a, c.cur.close)

\* What most evaluators end with.
Drawn(c, setup, d, entry, sl, tp1, cfg, rr, htf) ==
  IF StopFits(entry, sl, cfg) /\ Pays(entry, sl, tp1, rr)
  THEN Signal(c, setup, d, entry, sl, tp1, "MARKET", htf, 0) ELSE None

\* A candidate whose stop fits its band of shares of the entry, the axis, and
\* whose target pays, is drawn up in the reflection when it is drawn up, and
\* they are each other's reflections.
LEMMA DrawnFlips ==
  ASSUME NEW a, NEW c, NEW k, Mirrored(a, c, k), Quoted(a, c),
         NEW d \in Sides, NEW side, side = FlipSide(d),
         NEW entry \in Int, NEW sl \in Int, NEW tp1 \in Int, a = 2 * entry,
         NEW e, e = a - entry, NEW s, s = a - sl, NEW t, t = a - tp1,
         NEW setup, setup = FlipSetup(setup), NEW htf \in BOOLEAN, NEW htf2 \in BOOLEAN,
         htf2 <=> htf, NEW cfg, NEW rr
  PROVE  Twins(a, c, Drawn(c, setup, d, entry, sl, tp1, cfg, rr, htf),
                     Drawn(k, setup, side, e, s, t, cfg, rr, htf2))
<1>1. a \in Int
  OBVIOUS
<1>2. StopFits(e, s, cfg) <=> StopFits(entry, sl, cfg)
  BY <1>1, FitFlips
<1>3. Pays(e, s, t, rr) <=> Pays(entry, sl, tp1, rr)
  BY <1>1, PaysFlips
<1>4. StopFits(entry, sl, cfg) => entry > 0 /\ e > 0
  BY DEF StopFits
<1>5. e \in Int /\ s \in Int /\ t \in Int /\ htf2 = htf
  BY <1>1
<1>6. CASE StopFits(entry, sl, cfg) /\ Pays(entry, sl, tp1, rr)
  BY <1>4, <1>6, <1>5, SignalFlips, <1>2, <1>3 DEF Drawn
<1>7. CASE ~ (StopFits(entry, sl, cfg) /\ Pays(entry, sl, tp1, rr))
  BY <1>2, <1>3, <1>7, NoneFound DEF Drawn
<1> QED
  BY <1>6, <1>7

\* What the evaluators with a fixed target end with.
Fixed(c, setup, d, entry, sl, tp1, cfg, htf, volume) ==
  IF StopFits(entry, sl, cfg)
  THEN Signal(c, setup, d, entry, sl, tp1, "MARKET", htf, volume) ELSE None

\* The same for a target that is not weighed against the stop.
LEMMA FixedFlips ==
  ASSUME NEW a, NEW c, NEW k, Mirrored(a, c, k), Quoted(a, c),
         NEW d \in Sides, NEW side, side = FlipSide(d),
         NEW entry \in Int, NEW sl \in Int, NEW tp1 \in Int, a = 2 * entry,
         NEW e, e = a - entry, NEW s, s = a - sl, NEW t, t = a - tp1,
         NEW setup, setup = FlipSetup(setup), NEW htf \in BOOLEAN, NEW htf2 \in BOOLEAN,
         htf2 <=> htf, NEW cfg, NEW volume
  PROVE  Twins(a, c, Fixed(c, setup, d, entry, sl, tp1, cfg, htf, volume),
                     Fixed(k, setup, side, e, s, t, cfg, htf2, volume))
<1>1. a \in Int
  OBVIOUS
<1>2. StopFits(e, s, cfg) <=> StopFits(entry, sl, cfg)
  BY <1>1, FitFlips
<1>4. StopFits(entry, sl, cfg) => entry > 0 /\ e > 0
  BY DEF StopFits
<1>5. e \in Int /\ s \in Int /\ t \in Int /\ htf2 = htf
  BY <1>1
<1>6. CASE StopFits(entry, sl, cfg)
  BY <1>4, <1>6, <1>5, SignalFlips, <1>2 DEF Fixed
<1>7. CASE ~StopFits(entry, sl, cfg)
  BY <1>2, <1>7, NoneFound DEF Fixed
<1> QED
  BY <1>6, <1>7

\* The nearest level ahead of a price, in the lists for either side.
Ahead(d, p, up, down) == IF d = Long THEN NearestAbove(p, up) ELSE NearestBelow(p, down)

\* The nearest level ahead of a price.
LEMMA AheadFlips ==
  ASSUME NEW a \in Int, NEW d \in Sides, NEW side, side = FlipSide(d),
         NEW p \in Int, NEW q, q = a - p,
         NEW up \in Seq(Int), NEW down \in Seq(Int), NEW up2 \in Seq(Int), NEW down2 \in Seq(Int),
         Values(up2) = Reflect(a, Values(down)), Values(down2) = Reflect(a, Values(up))
  PROVE  /\ Ahead(d, p, up, down) \in Optional(Int)
         /\ Ahead(side, q, up2, down2) = FlipAll(a, Ahead(d, p, up, down))
<1>2. NearestAbove(a - p, up2) = FlipAll(a, NearestBelow(p, down))
  BY NearestFlips
<1>3. NearestBelow(a - p, down2) = FlipAll(a, NearestAbove(p, up))
  BY NearestFlips
<1>4. (d = Long /\ side = Short) \/ (d = Short /\ side = Long)
  BY DEF Sides, FlipSide, Long, Short
<1>5. Long # Short
  BY DEF Long, Short
<1> QED
  BY NearestIs, <1>2, <1>3, <1>4, <1>5 DEF Ahead

\* A target if there is one, and if it pays, else twice the stop.
TargetOr(target, d, entry, sl) ==
  IF target # None THEN target[1] ELSE Multiple(d, entry, sl, 200)
PayingOr(target, d, entry, sl, rr) ==
  IF target # None /\ Pays(entry, sl, target[1], rr) THEN target[1]
  ELSE Multiple(d, entry, sl, 200)

\* A target or the multiple that stands for it.
LEMMA TargetFlips ==
  ASSUME NEW a \in Int, NEW d \in Sides, NEW side, side = FlipSide(d),
         NEW entry \in Int, NEW sl \in Int, NEW e, e = a - entry, NEW s, s = a - sl,
         NEW target \in Optional(Int), NEW image, image = FlipAll(a, target)
  PROVE  /\ TargetOr(target, d, entry, sl) \in Int
         /\ TargetOr(image, side, e, s) = a - TargetOr(target, d, entry, sl)
<1>1. /\ Multiple(d, entry, sl, 200) \in Int
      /\ Multiple(FlipSide(d), a - entry, a - sl, 200) = a - Multiple(d, entry, sl, 200)
  BY MultipleFlips
<1>4. CASE target = None /\ image = None
  BY <1>1, <1>4 DEF TargetOr
<1>5. ASSUME NEW q \in Int, target = <<q>>, image = <<a - q>>
      PROVE  /\ TargetOr(target, d, entry, sl) \in Int
             /\ TargetOr(image, side, e, s) = a - TargetOr(target, d, entry, sl)
  <2>1. target # None /\ image # None /\ target[1] = q /\ image[1] = a - q
    BY <1>5 DEF None
  <2> QED
    BY <2>1 DEF TargetOr
<1> QED
  BY FlipOptional, <1>4, <1>5

\* A target that pays or the multiple that stands for it.
LEMMA PayingTargetFlips ==
  ASSUME NEW a \in Int, NEW d \in Sides, NEW side, side = FlipSide(d),
         NEW entry \in Int, NEW sl \in Int, NEW e, e = a - entry, NEW s, s = a - sl,
         NEW target \in Optional(Int), NEW image, image = FlipAll(a, target), NEW rr
  PROVE  /\ PayingOr(target, d, entry, sl, rr) \in Int
         /\ PayingOr(image, side, e, s, rr) = a - PayingOr(target, d, entry, sl, rr)
<1>1. /\ Multiple(d, entry, sl, 200) \in Int
      /\ Multiple(FlipSide(d), a - entry, a - sl, 200) = a - Multiple(d, entry, sl, 200)
  BY MultipleFlips
<1>2. Multiple(side, e, s, 200) = a - Multiple(d, entry, sl, 200)
  BY <1>1
<1>4. CASE target = None /\ image = None
  BY <1>1, <1>2, <1>4 DEF PayingOr
<1>5. ASSUME NEW q \in Int, target = <<q>>, image = <<a - q>>
      PROVE  /\ PayingOr(target, d, entry, sl, rr) \in Int
             /\ PayingOr(image, side, e, s, rr) = a - PayingOr(target, d, entry, sl, rr)
  BY <1>5, PaysFlips, <1>1, <1>2 DEF None, PayingOr
<1> QED
  BY FlipOptional, <1>4, <1>5

\* The target of a sweep reversal.
LEMMA LsrTargetFlips ==
  ASSUME NEW a \in Int, NEW d \in Sides, NEW side, side = FlipSide(d),
         NEW entry \in Int, NEW sl \in Int, NEW e, e = a - entry, NEW s, s = a - sl,
         NEW swing \in Optional(Int), NEW image, image = FlipAll(a, swing)
  PROVE  /\ LsrTarget(d, entry, sl, swing) \in Int
         /\ LsrTarget(side, e, s, image) = a - LsrTarget(d, entry, sl, swing)
<1> DEFINE target == Ahead(d, entry, swing, swing)
           target2 == Ahead(side, e, image, image)
<1>1. swing \in Seq(Int) /\ image \in Seq(Int)
  BY OptionalInt, FlipOptional
<1>2. Values(image) = Reflect(a, Values(swing))
  BY <1>1, FlippedValues
<1>3. target \in Optional(Int) /\ target2 = FlipAll(a, target)
  BY <1>1, <1>2, AheadFlips
<1> DEFINE rr == LSR.minRR
<1>4. /\ LsrTarget(d, entry, sl, swing) = PayingOr(target, d, entry, sl, rr)
      /\ LsrTarget(side, e, s, image) = PayingOr(target2, side, e, s, rr)
  BY DEF LsrTarget, Ahead, PayingOr
<1> HIDE DEF target, target2, rr
<1>5. /\ PayingOr(target, d, entry, sl, rr) \in Int
      /\ PayingOr(target2, side, e, s, rr) = a - PayingOr(target, d, entry, sl, rr)
  BY <1>3, PayingTargetFlips
<1> QED
  BY <1>4, <1>5

\* The further of two stops.
Further(d, low, low2, high, high2) ==
  IF d = Long THEN Min({low, low2}) ELSE Max({high, high2})

\* The further one of two lines.
LEMMA FurtherFlips ==
  ASSUME NEW a \in Int, NEW d \in Sides, NEW side, side = FlipSide(d),
         NEW x \in Int, NEW y \in Int, NEW hx \in Int, NEW hy \in Int,
         NEW u, u = a - x, NEW v, v = a - y, NEW hu, hu = a - hx, NEW hv, hv = a - hy
  PROVE  /\ Further(d, x, y, hx, hy) \in Int
         /\ Further(side, hu, hv, u, v) = a - Further(d, x, y, hx, hy)
<1>2. Long # Short
  BY DEF Long, Short
<1>3. Min({x, y}) \in Int /\ Max({u, v}) = a - Min({x, y})
  <2>1. u \in Int /\ v \in Int
    OBVIOUS
  <2>2. Min({x, y}) = IF x <= y THEN x ELSE y
    BY OfPair
  <2>3. Max({u, v}) = IF u >= v THEN u ELSE v
    BY <2>1, OfPair
  <2> QED
    BY <2>2, <2>3
<1>4. Max({hx, hy}) \in Int /\ Min({hu, hv}) = a - Max({hx, hy})
  <2>1. hu \in Int /\ hv \in Int
    OBVIOUS
  <2>2. Max({hx, hy}) = IF hx >= hy THEN hx ELSE hy
    BY OfPair
  <2>3. Min({hu, hv}) = IF hu <= hv THEN hu ELSE hv
    BY <2>1, OfPair
  <2> QED
    BY <2>2, <2>3
<1> QED
  BY <1>2, <1>3, <1>4 DEF Further, Sides, FlipSide, Long, Short

\* The sweep.
LEMMA LsrBuildFlips ==
  ASSUME NEW a, NEW c, NEW k, Mirrored(a, c, k), Quoted(a, c), AtClose(a, c),
         NEW d \in Sides, NEW side, side = FlipSide(d), NEW swing \in Optional(Int)
  PROVE  Twins(a, c, LsrBuild(c, d, swing), LsrBuild(k, side, FlipAll(a, swing)))
<1> DEFINE entry == c.cur.close
           e == k.cur.close
           pad == OfAtr(c, LSR.pad)
           x == c.cur.low - pad  y == c.cur.low - Tick
           hx == c.cur.high + pad  hy == c.cur.high + Tick
           u == k.cur.high + pad  v == k.cur.high + Tick
           hu == k.cur.low - pad  hv == k.cur.low - Tick
           sl == Further(d, x, y, hx, hy)
           s == Further(side, hu, hv, u, v)
           tp1 == LsrTarget(d, entry, sl, swing)
           t == LsrTarget(side, e, s, FlipAll(a, swing))
           htf == ReversalAligned(c, d)
           htf2 == ReversalAligned(k, side)
<1>1. /\ a \in Int /\ entry \in Int /\ e = a - entry
      /\ c.cur.high \in Int /\ c.cur.low \in Int
      /\ k.cur.high = a - c.cur.low /\ k.cur.low = a - c.cur.high
  BY MirroredBar
<1>2. LSR.pad \in Nat
  BY DEF LSR
<1>3. pad \in Nat /\ OfAtr(k, LSR.pad) = pad
  BY <1>2, MirroredAtr
<1>4. /\ x \in Int /\ y \in Int /\ u = a - x /\ v = a - y
      /\ hx \in Int /\ hy \in Int /\ hu = a - hx /\ hv = a - hy
  BY <1>1, <1>3 DEF Tick
<1>5. sl \in Int /\ s = a - sl
  BY <1>1, <1>4, FurtherFlips
<1>6. tp1 \in Int /\ t = a - tp1
  BY <1>1, <1>5, LsrTargetFlips
<1>7. htf \in BOOLEAN /\ htf2 \in BOOLEAN /\ (htf2 <=> htf)
  BY HourTurns, LabelsTell
<1>8. "LSR" = FlipSetup("LSR")
  BY DEF FlipSetup
<1>9. /\ LsrBuild(c, d, swing) = Drawn(c, "LSR", d, entry, sl, tp1, LSR, LSR.minRR, htf)
      /\ LsrBuild(k, side, FlipAll(a, swing))
           = Drawn(k, "LSR", side, e, s, t, LSR, LSR.minRR, htf2)
  BY <1>3 DEF LsrBuild, Further, Drawn
<1>10. a = 2 * entry
  BY DEF AtClose, OnAxis
<1> HIDE DEF entry, e, pad, sl, s, tp1, t, htf, htf2
<1> QED
  BY <1>1, <1>5, <1>6, <1>7, <1>8, <1>9, <1>10, DrawnFlips

\* What lists of at most a few prices hold.
LEMMA ListsHold ==
  /\ None \in Seq(Int) /\ Values(None) = {}
  /\ \A p \in Int : <<p>> \in Seq(Int) /\ Values(<<p>>) = {p}
  /\ \A p, q \in Int : <<p, q>> \in Seq(Int) /\ Values(<<p, q>>) = {p, q}
  /\ \A p, q, r \in Int : <<p, q, r>> \in Seq(Int) /\ Values(<<p, q, r>>) = {p, q, r}
  /\ \A s \in Optional(Int) : s \in Seq(Int) /\ Values(s) \subseteq Int
<1>1. None \in Seq(Int) /\ Values(None) = {}
  BY DEF None, Values
<1>2. ASSUME NEW p \in Int PROVE <<p>> \in Seq(Int) /\ Values(<<p>>) = {p}
  BY DEF Values
<1>3. ASSUME NEW p \in Int, NEW q \in Int
      PROVE  <<p, q>> \in Seq(Int) /\ Values(<<p, q>>) = {p, q}
  <2> DEFINE l == <<p, q>>
  <2>1. l \in Seq(Int) /\ DOMAIN l = {1, 2}
    OBVIOUS
  <2>2. Values(l) = {l[1], l[2]}
    BY <2>1 DEF Values
  <2> QED
    BY <2>1, <2>2
<1>4. ASSUME NEW p \in Int, NEW q \in Int, NEW r \in Int
      PROVE  <<p, q, r>> \in Seq(Int) /\ Values(<<p, q, r>>) = {p, q, r}
  <2> DEFINE l == <<p, q, r>>
  <2>1. l \in Seq(Int) /\ DOMAIN l = {1, 2, 3}
    OBVIOUS
  <2>2. Values(l) = {l[1], l[2], l[3]}
    BY <2>1 DEF Values
  <2> QED
    BY <2>1, <2>2
<1>5. ASSUME NEW s \in Optional(Int) PROVE s \in Seq(Int) /\ Values(s) \subseteq Int
  BY OptionalInt DEF Values
<1> QED
  BY <1>1, <1>2, <1>3, <1>4, <1>5

\* The reflection of a set is made of the reflections of its parts.
LEMMA PartsReflect ==
  ASSUME NEW a \in Int
  PROVE  /\ Reflect(a, {}) = {}
         /\ \A p \in Int : Reflect(a, {p}) = {a - p}
         /\ \A p, q \in Int : Reflect(a, {p, q}) = {a - p, a - q}
         /\ \A S, T : Reflect(a, S \cup T) = Reflect(a, S) \cup Reflect(a, T)
BY DEF Reflect

\* The opening range of the reflection, when it is locked.
LockedRange(c) == IF c.orLocked THEN c.orh \o c.orl ELSE None

\* The day and the opening range of two mirrored contexts.
LEMMA MirroredRange ==
  ASSUME NEW a, NEW c, NEW k, Mirrored(a, c, k)
  PROVE  /\ k.pdh = a - c.pdl /\ k.pdl = a - c.pdh /\ k.pdc = a - c.pdc
         /\ c.pdh \in Int /\ c.pdl \in Int /\ c.pdc \in Int
         /\ c.orh \in Optional(Int) /\ c.orl \in Optional(Int) /\ c.vwap \in Optional(Int)
         /\ k.orh \in Optional(Int) /\ k.orl \in Optional(Int) /\ k.vwap \in Optional(Int)
         /\ k.orh = FlipAll(a, c.orl) /\ k.orl = FlipAll(a, c.orh) /\ k.vwap = FlipAll(a, c.vwap)
         /\ Values(k.orh) = Reflect(a, Values(c.orl))
         /\ Values(k.orl) = Reflect(a, Values(c.orh))
         /\ Values(k.vwap) = Reflect(a, Values(c.vwap))
         /\ k.orLocked = c.orLocked /\ a \in Int
<1>1. /\ a \in Int /\ k.orLocked = c.orLocked
      /\ c.pdh \in Int /\ c.pdl \in Int /\ c.pdc \in Int
      /\ c.orh \in Optional(Int) /\ c.orl \in Optional(Int) /\ c.vwap \in Optional(Int)
      /\ k.orh \in Optional(Int) /\ k.orl \in Optional(Int) /\ k.vwap \in Optional(Int)
  BY DEF Mirrored, Readable, SameReads
<1>3. \A s \in Optional(Int) : Values(FlipAll(a, s)) = Reflect(a, Values(s))
  BY <1>1, OptionalInt, FlippedValues
<1> QED
  BY <1>1, <1>3 DEF Mirrored, TurnedPrices

\* The levels a sweep is looked for at.
SweepLevels(c) == <<c.pdh, c.pdl, c.pdc>> \o c.vwap \o LockedRange(c)

\* The levels a sweep may take.
LEMMA SweepLevelsFlip ==
  ASSUME NEW a, NEW c, NEW k, Mirrored(a, c, k), Quoted(a, c)
  PROVE  /\ SweepLevels(c) \in Seq(Int) /\ SweepLevels(k) \in Seq(Int)
         /\ Values(SweepLevels(k)) = Reflect(a, Values(SweepLevels(c)))
         /\ Values(SweepLevels(c)) \subseteq Values(KeyLevels(c))
<1>1. ASSUME NEW x, NEW y, Mirrored(a, y, x)
      PROVE  /\ SweepLevels(x) \in Seq(Int)
             /\ Values(SweepLevels(x)) =
                  ({x.pdh, x.pdl, x.pdc} \cup Values(x.vwap))
                    \cup (IF x.orLocked THEN Values(x.orh) \cup Values(x.orl) ELSE {})
  <2> DEFINE days == <<x.pdh, x.pdl, x.pdc>>
             range == LockedRange(x)
  <2>1. /\ x.pdh \in Int /\ x.pdl \in Int /\ x.pdc \in Int
        /\ x.orh \in Optional(Int) /\ x.orl \in Optional(Int) /\ x.vwap \in Optional(Int)
    BY <1>1 DEF Mirrored, Readable
  <2>2. days \in Seq(Int) /\ Values(days) = {x.pdh, x.pdl, x.pdc}
    BY <2>1, ListsHold
  <2>3. x.orh \in Seq(Int) /\ x.orl \in Seq(Int) /\ x.vwap \in Seq(Int)
    BY <2>1, ListsHold
  <2>5. /\ range \in Seq(Int)
        /\ Values(range) = (IF x.orLocked THEN Values(x.orh) \cup Values(x.orl) ELSE {})
    BY <2>3, JoinedValues, ListsHold DEF LockedRange
  <2>6. SweepLevels(x) = (days \o x.vwap) \o range
    BY DEF SweepLevels
  <2> HIDE DEF days, range
  <2> DEFINE front == days \o x.vwap
  <2>8. front \in Seq(Int) /\ Values(front) = Values(days) \cup Values(x.vwap)
    BY <2>2, <2>3, JoinedValues
  <2> HIDE DEF front
  <2>10. SweepLevels(x) = front \o range
    BY <2>6 DEF front
  <2> QED
    BY <2>2, <2>5, <2>8, JoinedValues, <2>10
<1>2. Mirrored(a, k, c)
  BY MirrorTurns
<1>3. /\ SweepLevels(c) \in Seq(Int) /\ SweepLevels(k) \in Seq(Int)
      /\ Values(SweepLevels(c)) =
                  ({c.pdh, c.pdl, c.pdc} \cup Values(c.vwap))
                    \cup (IF c.orLocked THEN Values(c.orh) \cup Values(c.orl) ELSE {})
      /\ Values(SweepLevels(k)) =
                  ({k.pdh, k.pdl, k.pdc} \cup Values(k.vwap))
                    \cup (IF k.orLocked THEN Values(k.orh) \cup Values(k.orl) ELSE {})
  BY <1>1, <1>2
<1>4. /\ {k.pdh, k.pdl, k.pdc} = Reflect(a, {c.pdh, c.pdl, c.pdc})
      /\ Values(k.vwap) = Reflect(a, Values(c.vwap))
      /\ Values(k.orh) = Reflect(a, Values(c.orl)) /\ Values(k.orl) = Reflect(a, Values(c.orh))
      /\ k.orLocked = c.orLocked /\ a \in Int
  <2>2. {k.pdh, k.pdl, k.pdc} = Reflect(a, {c.pdh, c.pdl, c.pdc})
    BY MirroredRange DEF Reflect
  <2> QED
    BY <2>2, MirroredRange
<1>5. Values(SweepLevels(k)) = Reflect(a, Values(SweepLevels(c)))
  <2> DEFINE D == {c.pdh, c.pdl, c.pdc}  E == {k.pdh, k.pdl, k.pdc}
             V == Values(c.vwap)  H == Values(c.orh)  L == Values(c.orl)
  <2>1. /\ E = Reflect(a, D) /\ Values(k.vwap) = Reflect(a, V)
        /\ Values(k.orh) = Reflect(a, L) /\ Values(k.orl) = Reflect(a, H)
    BY <1>4
  <2>2. /\ Values(SweepLevels(c)) = (D \cup V) \cup (IF c.orLocked THEN H \cup L ELSE {})
        /\ Values(SweepLevels(k)) = (E \cup Values(k.vwap))
             \cup (IF k.orLocked THEN Values(k.orh) \cup Values(k.orl) ELSE {})
    BY <1>3
  <2>3. k.orLocked = c.orLocked /\ a \in Int
    BY <1>4
  <2> HIDE DEF D, E, V, H, L
  <2>4. /\ Reflect(a, D \cup V) = Reflect(a, D) \cup Reflect(a, V)
        /\ Reflect(a, H \cup L) = Reflect(a, H) \cup Reflect(a, L)
        /\ Reflect(a, (D \cup V) \cup (H \cup L)) = Reflect(a, D \cup V) \cup Reflect(a, H \cup L)
    BY <2>3, PartsReflect
  <2>5. CASE c.orLocked
    BY <2>1, <2>2, <2>3, <2>4, <2>5
  <2>6. CASE ~c.orLocked
    BY <2>1, <2>2, <2>3, <2>4, <2>6
  <2> QED
    BY <2>5, <2>6
<1> QED
  BY <1>3, <1>5, KeyValues DEF Mirrored

\* Whether a key level is near.
LEMMA NearKeyFlips ==
  ASSUME NEW a, NEW c, NEW k, Mirrored(a, c, k), Quoted(a, c), NEW p \in Int,
         NEW q, q = a - p
  PROVE  NearKeyLevel(k, q) <=> NearKeyLevel(c, p)
<1> DEFINE tol == OfAtr(c, LSR.near)
           S == Values(SweepLevels(c))
           T == Values(SweepLevels(k))
<1>1. a \in Int /\ LSR.near \in Nat
  BY DEF Mirrored, LSR
<1>2. tol \in Nat /\ OfAtr(k, LSR.near) = tol
  BY <1>1, MirroredAtr
<1>3. T = Reflect(a, S) /\ S \subseteq Int
  BY SweepLevelsFlip DEF Values
<1>4. \A v \in S : 0 < v /\ v < a
  BY SweepLevelsFlip, QuotedLevels
<1>5. NearKeyLevel(c, p) <=> (tol > 0 /\ \E v \in S : v > 0 /\ Dist(p, v) <= tol)
  BY DEF NearKeyLevel, SweepLevels, LockedRange, Values
<1>6. NearKeyLevel(k, q) <=> (tol > 0 /\ \E v \in T : v > 0 /\ Dist(q, v) <= tol)
  BY <1>2 DEF NearKeyLevel, SweepLevels, LockedRange, Values
<1> HIDE DEF tol, S, T
<1>7. \A v \in S : a - v \in T /\ v \in Int
  BY <1>3 DEF Reflect
<1>8. \A w \in T : \E v \in S : w = a - v
  BY <1>3 DEF Reflect
<1>9. \A v \in S : a - v > 0 /\ v > 0 /\ Dist(q, a - v) = Dist(p, v)
  BY <1>1, <1>3, <1>4 DEF Dist
<1>10. ASSUME NEW v \in S, v > 0, Dist(p, v) <= tol
       PROVE  \E w \in T : w > 0 /\ Dist(q, w) <= tol
  BY <1>7, <1>9, <1>10
<1>11. ASSUME NEW w \in T, w > 0, Dist(q, w) <= tol
       PROVE  \E v \in S : v > 0 /\ Dist(p, v) <= tol
  BY <1>8, <1>9, <1>11
<1> QED
  BY <1>5, <1>6, <1>10, <1>11

\* A swing is swept and reclaimed by the bar.
SweptLow(c) == LET low == SwingLow(c, LSR.lookback) IN
  low # None /\ c.cur.low < low[1] /\ c.cur.close > low[1]
SweptHigh(c) == LET high == SwingHigh(c, LSR.lookback) IN
  high # None /\ c.cur.high > high[1] /\ c.cur.close < high[1]
SweepReady(c) ==
  /\ c.n5 >= 2 /\ Len(c.c15) >= 3 /\ c.ready
  /\ c.cur.high - c.cur.low >= MinRange(c) /\ c.volume >= LSR.volume

\* The bars of two mirrored contexts.
LEMMA BarsKept ==
  ASSUME NEW a, NEW c, NEW k, Mirrored(a, c, k)
  PROVE  /\ c.c15 \in Seq(Bars) /\ c.look \in Seq(Bars) /\ Len(k.c15) = Len(c.c15)
         /\ k.c15 = FlipBars(a, c.c15) /\ k.look = FlipBars(a, c.look)
         /\ Len(c.c15) \in Nat
<1>1. /\ a \in Int /\ c.c15 \in Seq(Bars) /\ c.look \in Seq(Bars)
      /\ k.c15 = FlipBars(a, c.c15) /\ k.look = FlipBars(a, c.look)
  BY DEF Mirrored, Readable, TurnedPrices
<1> QED
  BY <1>1, FlipBarsAre

\* A swept low is a swept high, reflected.
LEMMA SweptTurns ==
  ASSUME NEW a, NEW c, NEW k, Mirrored(a, c, k)
  PROVE  (SweptLow(k) <=> SweptHigh(c)) /\ (SweepReady(k) <=> SweepReady(c))
<1>1. /\ a \in Int /\ c.cur.high \in Int /\ c.cur.low \in Int /\ c.cur.close \in Int
      /\ k.cur.high = a - c.cur.low
      /\ k.cur.low = a - c.cur.high /\ k.cur.close = a - c.cur.close
      /\ MinRange(c) \in Nat /\ MinRange(k) = MinRange(c)
  BY MirroredBar
<1>2. LSR.lookback \in Nat
  BY DEF LSR
<1> DEFINE high == SwingHigh(c, LSR.lookback)  low2 == SwingLow(k, LSR.lookback)
<1>3. high \in Optional(Int) /\ low2 = FlipAll(a, high)
  BY <1>2, MirroredSwings
<1>4. /\ SweptLow(k) <=> (low2 # None /\ k.cur.low < low2[1] /\ k.cur.close > low2[1])
      /\ SweptHigh(c) <=> (high # None /\ c.cur.high > high[1] /\ c.cur.close < high[1])
  BY DEF SweptLow, SweptHigh
<1> HIDE DEF high, low2
<1>6. ASSUME NEW q \in Int, high = <<q>>, low2 = <<a - q>>
      PROVE  SweptLow(k) <=> SweptHigh(c)
  BY <1>6, <1>1, <1>4 DEF None
<1>7. SweptLow(k) <=> SweptHigh(c)
  BY <1>4, <1>1, <1>3, FlipOptional, <1>6
<1>8. SweepReady(k) <=> SweepReady(c)
  <2>2. Len(k.c15) = Len(c.c15)
    BY BarsKept
  <2>3. k.cur.high - k.cur.low = c.cur.high - c.cur.low
    BY <1>1
  <2> QED
    BY <1>1, <2>2, <2>3 DEF SweepReady, Mirrored, SameReads
<1> QED
  BY <1>7, <1>8

\* A sweep reversal is reflected in a sweep reversal.
LEMMA LsrFlips ==
  ASSUME NEW a, NEW c, NEW k, Mirrored(a, c, k), Quoted(a, c), AtClose(a, c),
         ~BothSides("LSR", c)
  PROVE  Twins(a, c, LiquiditySweepReversal(c), LiquiditySweepReversal(k))
<1> DEFINE low == SwingLow(c, LSR.lookback)  high == SwingHigh(c, LSR.lookback)
           low2 == SwingLow(k, LSR.lookback)  high2 == SwingHigh(k, LSR.lookback)
           Find(x) == IF SweepReady(x) /\ SweptLow(x)
             THEN IF NearKeyLevel(x, SwingLow(x, LSR.lookback)[1])
                  THEN LsrBuild(x, Long, SwingHigh(x, LSR.lookback)) ELSE None
             ELSE IF SweepReady(x) /\ SweptHigh(x) /\ NearKeyLevel(x, SwingHigh(x, LSR.lookback)[1])
             THEN LsrBuild(x, Short, SwingLow(x, LSR.lookback)) ELSE None
<1>1. \A x : LiquiditySweepReversal(x) = Find(x)
  BY DEF LiquiditySweepReversal, SweepReady, SweptLow, SweptHigh
<1>2. LSR.lookback \in Nat /\ a \in Int
  BY DEF LSR, Mirrored
<1>3. /\ low \in Optional(Int) /\ high \in Optional(Int)
      /\ low2 = FlipAll(a, high) /\ high2 = FlipAll(a, low)
  BY <1>2, MirroredSwings
<1>4. Mirrored(a, k, c)
  BY MirrorTurns
<1>6. ~ (SweptLow(c) /\ SweptHigh(c))
  BY DEF BothSides, SweptLow, SweptHigh
<1>7. SweptHigh(c) => (NearKeyLevel(k, low2[1]) <=> NearKeyLevel(c, high[1]))
  <2> SUFFICES ASSUME SweptHigh(c) PROVE NearKeyLevel(k, low2[1]) <=> NearKeyLevel(c, high[1])
    OBVIOUS
  <2>1. high # None
    BY DEF SweptHigh
  <2> HIDE DEF high, low2
  <2>2. PICK q \in Int : high = <<q>> /\ low2 = <<a - q>>
    BY <1>2, <1>3, <2>1, FlipOptional
  <2>3. high[1] = q /\ low2[1] = a - q
    BY <2>2
  <2> QED
    BY <2>3, NearKeyFlips
<1>8. SweptLow(c) => (NearKeyLevel(k, high2[1]) <=> NearKeyLevel(c, low[1]))
  <2> SUFFICES ASSUME SweptLow(c) PROVE NearKeyLevel(k, high2[1]) <=> NearKeyLevel(c, low[1])
    OBVIOUS
  <2>1. low # None
    BY DEF SweptLow
  <2> HIDE DEF low, high2
  <2>2. PICK q \in Int : low = <<q>> /\ high2 = <<a - q>>
    BY <1>2, <1>3, <2>1, FlipOptional
  <2>3. low[1] = q /\ high2[1] = a - q
    BY <2>2
  <2> QED
    BY <2>3, NearKeyFlips
<1>9. /\ Long \in Sides /\ Short \in Sides /\ FlipSide(Long) = Short /\ FlipSide(Short) = Long
  BY DEF Sides, FlipSide, Long, Short
<1>10. Twins(a, c, LsrBuild(c, Long, high), LsrBuild(k, Short, low2))
  BY <1>3, <1>9, LsrBuildFlips
<1>11. Twins(a, c, LsrBuild(c, Short, low), LsrBuild(k, Long, high2))
  BY <1>3, <1>9, LsrBuildFlips
<1>12. /\ Find(c) = IF SweepReady(c) /\ SweptLow(c)
             THEN IF NearKeyLevel(c, low[1]) THEN LsrBuild(c, Long, high) ELSE None
             ELSE IF SweepReady(c) /\ SweptHigh(c) /\ NearKeyLevel(c, high[1])
             THEN LsrBuild(c, Short, low) ELSE None
       /\ Find(k) = IF SweepReady(k) /\ SweptLow(k)
             THEN IF NearKeyLevel(k, low2[1]) THEN LsrBuild(k, Long, high2) ELSE None
             ELSE IF SweepReady(k) /\ SweptHigh(k) /\ NearKeyLevel(k, high2[1])
             THEN LsrBuild(k, Short, low2) ELSE None
  OBVIOUS
<1> HIDE DEF low, high, low2, high2, Find
<1>13. Twins(a, c, Find(c), Find(k))
  BY <1>4, SweptTurns, <1>6, <1>7, <1>8, <1>10, <1>11, <1>12, NoneFound
<1> QED
  BY <1>1, <1>13

\* The swing ahead of the price.
SwingAhead(c, d, p) == Ahead(d, p, SwingHigh(c, 20), SwingLow(c, 20))

\* The swing ahead of a price.
LEMMA SwingAheadFlips ==
  ASSUME NEW a, NEW c, NEW k, Mirrored(a, c, k), NEW d \in Sides, NEW side, side = FlipSide(d),
         NEW p \in Int, NEW q, q = a - p
  PROVE  /\ SwingAhead(c, d, p) \in Optional(Int)
         /\ SwingAhead(k, side, q) = FlipAll(a, SwingAhead(c, d, p))
<1> DEFINE up == SwingHigh(c, 20)  down == SwingLow(c, 20)
           up2 == SwingHigh(k, 20)  down2 == SwingLow(k, 20)
<1>1. a \in Int /\ 20 \in Nat
  BY DEF Mirrored
<1>2. /\ up \in Optional(Int) /\ down \in Optional(Int)
      /\ up2 = FlipAll(a, down) /\ down2 = FlipAll(a, up)
  BY <1>1, MirroredSwings
<1>3. SwingAhead(c, d, p) = Ahead(d, p, up, down) /\ SwingAhead(k, side, q) = Ahead(side, q, up2, down2)
  BY DEF SwingAhead
<1> HIDE DEF up, down, up2, down2
<1>4. up \in Seq(Int) /\ down \in Seq(Int) /\ up2 \in Seq(Int) /\ down2 \in Seq(Int)
  BY <1>1, <1>2, OptionalInt, FlipOptional
<1>5. Values(up2) = Reflect(a, Values(down)) /\ Values(down2) = Reflect(a, Values(up))
  BY <1>1, <1>2, <1>4, FlippedValues
<1> QED
  BY <1>1, <1>3, <1>4, <1>5, AheadFlips

\* The stop of a pullback.
LEMMA TpeStopFlips ==
  ASSUME NEW a, NEW c, NEW k, Mirrored(a, c, k), AtClose(a, c),
         NEW d \in Sides, NEW side, side = FlipSide(d)
  PROVE  TpeStop(c, d) \in Int /\ TpeStop(k, side) = a - TpeStop(c, d)
<1> DEFINE entry == c.cur.close  e == k.cur.close
           pad == OfAtr(c, TPE.pad)
           least == IF c.index THEN TPE.points ELSE (entry * TPE.minSl) \div 10000
           x == c.cur.low - pad  y == entry - least  hx == c.cur.high + pad  hy == entry + least
           u == k.cur.high + pad  v == e + least  hu == k.cur.low - pad  hv == e - least
<1>1. /\ a \in Int /\ entry \in Int /\ e = a - entry
      /\ c.cur.high \in Int /\ c.cur.low \in Int
      /\ k.cur.high = a - c.cur.low /\ k.cur.low = a - c.cur.high
  BY MirroredBar
<1>2. TPE.pad \in Nat /\ TPE.minSl \in Int /\ TPE.points \in Int
  BY DEF TPE
<1>3. pad \in Nat /\ OfAtr(k, TPE.pad) = pad
  BY <1>2, MirroredAtr
<1>4. e = entry /\ k.index = c.index
  BY <1>1 DEF AtClose, OnAxis, Mirrored, SameReads
<1>5. least \in Int
  BY <1>1, <1>2
<1>6. /\ x \in Int /\ y \in Int /\ u = a - x /\ v = a - y
      /\ hx \in Int /\ hy \in Int /\ hu = a - hx /\ hv = a - hy
  BY <1>1, <1>3, <1>5
<1>7. /\ TpeStop(c, d) = Further(d, x, y, hx, hy)
      /\ TpeStop(k, side) = Further(side, hu, hv, u, v)
  BY <1>3, <1>4 DEF TpeStop, Further
<1> HIDE DEF x, y, u, v, hx, hy, hu, hv
<1> QED
  BY <1>1, <1>6, <1>7, FurtherFlips

\* The pullback.
LEMMA TpeBuildFlips ==
  ASSUME NEW a, NEW c, NEW k, Mirrored(a, c, k), Quoted(a, c), AtClose(a, c),
         NEW d \in Sides, NEW side, side = FlipSide(d)
  PROVE  Twins(a, c, TpeBuild(c, d), TpeBuild(k, side))
<1> DEFINE entry == c.cur.close  e == k.cur.close
           sl == TpeStop(c, d)  s == TpeStop(k, side)
           rr == TPE.minRR
           swing == SwingAhead(c, d, entry)  swing2 == SwingAhead(k, side, e)
           tp1 == PayingOr(swing, d, entry, sl, rr)
           t == PayingOr(swing2, side, e, s, rr)
           htf == TRUE
<1>1. a \in Int /\ entry \in Int /\ e = a - entry
  BY MirroredBar
<1>2. sl \in Int /\ s = a - sl
  BY TpeStopFlips
<1>3. swing \in Optional(Int) /\ swing2 = FlipAll(a, swing)
  BY <1>1, SwingAheadFlips
<1>4. /\ TpeBuild(c, d) = Drawn(c, "TPE", d, entry, sl, tp1, TPE, rr, htf)
      /\ TpeBuild(k, side) = Drawn(k, "TPE", side, e, s, t, TPE, rr, htf)
  BY DEF TPE, TpeBuild, Drawn, PayingOr, SwingAhead, Ahead
<1>5. a = 2 * entry /\ "TPE" = FlipSetup("TPE")
  BY DEF FlipSetup, AtClose, OnAxis
<1> HIDE DEF entry, e, sl, s, rr, swing, swing2
<1>6. tp1 \in Int /\ t = a - tp1
  BY <1>1, <1>2, <1>3, PayingTargetFlips
<1>7. htf \in BOOLEAN
  OBVIOUS
<1> HIDE DEF tp1, t, htf
<1> QED
  BY <1>1, <1>2, <1>4, <1>5, <1>6, <1>7, DrawnFlips

\* The average the price is nearer to.
NearerAverage(c) ==
  IF Dist(c.cur.close, c.ema21) <= Dist(c.cur.close, c.ema55) THEN c.ema21 ELSE c.ema55

\* What a pullback asks of the averages and the oscillator.
PulledBack(c, d) ==
  LET last == c.cur.close  ref == NearerAverage(c) IN
  /\ c.r60 \in {"UP", "DOWN"} /\ c.n5 >= 56 /\ c.n60 >= 56
  /\ IF d = Long THEN c.hourly21 > c.hourly55 ELSE c.hourly21 < c.hourly55
  /\ TPE.rsiMin <= c.rsi /\ c.rsi <= TPE.rsiMax
  /\ Dist(last, ref) <= OfAtr(c, TPE.pullback)
  /\ IF d = Long THEN c.cur.low < ref /\ last > ref ELSE c.cur.high > ref /\ last < ref

\* Whether the price has pulled back.
LEMMA PulledBackFlips ==
  ASSUME NEW a, NEW c, NEW k, Mirrored(a, c, k), NEW d \in Sides, NEW side, side = FlipSide(d),
         InPullback(c.rsi) <=> InPullback(100 - c.rsi)
  PROVE  PulledBack(k, side) <=> PulledBack(c, d)
<1> DEFINE ref == NearerAverage(c)  ref2 == NearerAverage(k)
<1>1. /\ a \in Int /\ c.cur.close \in Int /\ k.cur.close = a - c.cur.close
      /\ c.cur.high \in Int /\ c.cur.low \in Int
      /\ k.cur.high = a - c.cur.low /\ k.cur.low = a - c.cur.high
  BY MirroredBar
<1>2. /\ c.ema21 \in Int /\ c.ema55 \in Int /\ k.ema21 = a - c.ema21 /\ k.ema55 = a - c.ema55
      /\ c.hourly21 \in Int /\ c.hourly55 \in Int
      /\ k.hourly21 = a - c.hourly21 /\ k.hourly55 = a - c.hourly55
      /\ k.rsi = 100 - c.rsi /\ k.n5 = c.n5 /\ k.n60 = c.n60
      /\ c.r60 \in Regimes /\ k.r60 = FlipTrend(c.r60)
  BY DEF Mirrored, Readable, TurnedPrices, TurnedReads, SameReads
<1>3. ref \in Int /\ ref2 = a - ref
  BY <1>1, <1>2 DEF NearerAverage, Dist
<1>4. Dist(k.cur.close, ref2) = Dist(c.cur.close, ref)
  BY <1>1, <1>3 DEF Dist
<1>5. TPE.pullback \in Nat
  BY DEF TPE
<1>6. OfAtr(k, TPE.pullback) = OfAtr(c, TPE.pullback)
  BY <1>5, MirroredAtr
<1>8. (TPE.rsiMin <= k.rsi /\ k.rsi <= TPE.rsiMax) <=> (TPE.rsiMin <= c.rsi /\ c.rsi <= TPE.rsiMax)
  BY <1>2 DEF InPullback
<1>9. (d = Long /\ side = Short) \/ (d = Short /\ side = Long)
  BY DEF Sides, FlipSide, Long, Short
<1>10. Long # Short
  BY DEF Long, Short
<1>11. (IF side = Long THEN k.hourly21 > k.hourly55 ELSE k.hourly21 < k.hourly55)
        <=> (IF d = Long THEN c.hourly21 > c.hourly55 ELSE c.hourly21 < c.hourly55)
  BY <1>1, <1>2, <1>9, <1>10
<1> HIDE DEF ref, ref2
<1>12. (IF side = Long THEN k.cur.low < ref2 /\ k.cur.close > ref2
                       ELSE k.cur.high > ref2 /\ k.cur.close < ref2)
        <=> (IF d = Long THEN c.cur.low < ref /\ c.cur.close > ref
                         ELSE c.cur.high > ref /\ c.cur.close < ref)
  BY <1>1, <1>3, <1>9, <1>10
<1>13. k.n5 = c.n5 /\ k.n60 = c.n60
  BY <1>2
<1> QED
  BY <1>4, <1>6, <1>2, <1>8, <1>11, <1>12, <1>13 DEF PulledBack, ref, ref2, FlipTrend, Regimes

\* A pullback is reflected in a pullback.
LEMMA TpeFlips ==
  ASSUME NEW a, NEW c, NEW k, Mirrored(a, c, k), Quoted(a, c), AtClose(a, c),
         ~Lopsided("TPE", c)
  PROVE  Twins(a, c, TrendPullbackEma(c), TrendPullbackEma(k))
<1> DEFINE d == IF c.r60 = "UP" THEN Long ELSE Short
           side == IF k.r60 = "UP" THEN Long ELSE Short
           Find(x, y) == IF PulledBack(x, y) THEN TpeBuild(x, y) ELSE None
<1>1. /\ TrendPullbackEma(c) = Find(c, d) /\ TrendPullbackEma(k) = Find(k, side)
  BY DEF TrendPullbackEma, PulledBack, NearerAverage
<1>2. InPullback(c.rsi) <=> InPullback(100 - c.rsi)
  BY DEF Lopsided, InPullback
<1>3. c.r60 \in Regimes /\ k.r60 = FlipTrend(c.r60)
  BY DEF Mirrored, Readable, TurnedReads
<1>4. d \in Sides
  BY DEF Sides
<1>5. CASE c.r60 \in {"UP", "DOWN"}
  BY <1>3, <1>5, <1>2, <1>4, PulledBackFlips, TpeBuildFlips, <1>1, NoneFound DEF FlipTrend,
     FlipSide, Long, Short
<1>6. CASE c.r60 \notin {"UP", "DOWN"}
  BY <1>3, <1>6, <1>1, NoneFound DEF FlipTrend, Regimes, PulledBack
<1> QED
  BY <1>5, <1>6

\* A stop a pad beyond a level.
Padded(d, level, pad) == IF d = Long THEN level - pad ELSE level + pad

\* A padded level.
LEMMA PaddedFlips ==
  ASSUME NEW a \in Int, NEW d \in Sides, NEW side, side = FlipSide(d), NEW level \in Int,
         NEW image, image = a - level, NEW pad \in Nat
  PROVE  Padded(d, level, pad) \in Int /\ Padded(side, image, pad) = a - Padded(d, level, pad)
<1>2. Long # Short
  BY DEF Long, Short
<1> QED
  BY <1>2 DEF Padded, Sides, FlipSide, Long, Short

\* There are two sides.
LEMMA NotLong == ASSUME NEW d \in Sides PROVE d = Short <=> d # Long
BY DEF Sides, Long, Short

\* The extreme of the day or of the opening range ahead of a price.
RangeAhead(c, d, p) == Ahead(d, p, <<c.pdh>> \o c.orh, <<c.pdl>> \o c.orl)

\* Its reflection.
LEMMA RangeAheadFlips ==
  ASSUME NEW a, NEW c, NEW k, Mirrored(a, c, k), NEW d \in Sides, NEW side, side = FlipSide(d),
         NEW p \in Int, NEW q, q = a - p
  PROVE  /\ RangeAhead(c, d, p) \in Optional(Int)
         /\ RangeAhead(k, side, q) = FlipAll(a, RangeAhead(c, d, p))
<1> DEFINE up == <<c.pdh>> \o c.orh  down == <<c.pdl>> \o c.orl
           up2 == <<k.pdh>> \o k.orh  down2 == <<k.pdl>> \o k.orl
<1>1. /\ k.pdh = a - c.pdl /\ k.pdl = a - c.pdh /\ c.pdh \in Int /\ c.pdl \in Int
      /\ c.orh \in Optional(Int) /\ c.orl \in Optional(Int) /\ a \in Int
      /\ k.orh = FlipAll(a, c.orl) /\ k.orl = FlipAll(a, c.orh)
  BY MirroredRange
<1>2. /\ <<c.pdh>> \in Seq(Int) /\ <<c.pdl>> \in Seq(Int)
      /\ c.orh \in Seq(Int) /\ c.orl \in Seq(Int)
  BY <1>1, ListsHold
<1>4. up \in Seq(Int) /\ down \in Seq(Int)
  BY <1>2
<1>5. up2 = FlipAll(a, down) /\ down2 = FlipAll(a, up)
  <2>1. FlipAll(a, down) = FlipAll(a, <<c.pdl>>) \o FlipAll(a, c.orl)
    BY <1>1, <1>2, FlipAllJoins
  <2>2. FlipAll(a, up) = FlipAll(a, <<c.pdh>>) \o FlipAll(a, c.orh)
    BY <1>1, <1>2, FlipAllJoins
  <2> QED
    BY <1>1, FlipOne, <2>1, <2>2
<1> HIDE DEF up, down, up2, down2
<1>6. up2 \in Seq(Int) /\ down2 \in Seq(Int)
  BY <1>1, <1>4, <1>5, FlipAllIs
<1>8. RangeAhead(c, d, p) = Ahead(d, p, up, down) /\ RangeAhead(k, side, q) = Ahead(side, q, up2, down2)
  BY DEF RangeAhead, up, down, up2, down2
<1>9. a \in Int
  BY <1>1
<1> QED
  BY <1>4, <1>6, <1>1, <1>5, FlippedValues, <1>8, <1>9, AheadFlips

\* The divergence.
LEMMA DivBuildFlips ==
  ASSUME NEW a, NEW c, NEW k, Mirrored(a, c, k), Quoted(a, c), AtClose(a, c),
         NEW d \in Sides, NEW side, side = FlipSide(d), NEW extreme \in Int,
         NEW image, image = a - extreme
  PROVE  Twins(a, c, DivBuild(c, d, extreme), DivBuild(k, side, image))
<1> DEFINE entry == c.cur.close  e == k.cur.close
           pad == OfAtr(c, DIV.pad)
           sl == Padded(d, extreme, pad)  s == Padded(side, image, pad)
           target == RangeAhead(c, d, entry)  target2 == RangeAhead(k, side, e)
           tp1 == TargetOr(target, d, entry, sl)
           t == TargetOr(target2, side, e, s)
           htf == NotAgainst(c, d)  htf2 == NotAgainst(k, side)
           rr == DIV.minRR
<1>1. a \in Int /\ entry \in Int /\ e = a - entry
  BY MirroredBar
<1>2. DIV.pad \in Nat
  BY DEF DIV
<1>3. pad \in Nat /\ OfAtr(k, DIV.pad) = pad
  BY <1>2, MirroredAtr
<1>4. sl \in Int /\ s = a - sl
  BY <1>1, <1>3, PaddedFlips
<1>5. target \in Optional(Int) /\ target2 = FlipAll(a, target)
  BY <1>1, RangeAheadFlips
<1>6. htf \in BOOLEAN /\ htf2 \in BOOLEAN /\ (htf2 <=> htf)
  BY HourTurns, LabelsTell
<1>7. side \in Sides
  BY SidesFlip
<1>8. /\ DivBuild(c, d, extreme) = Drawn(c, "DIV", d, entry, sl, tp1, DIV, rr, htf)
      /\ DivBuild(k, side, image) = Drawn(k, "DIV", side, e, s, t, DIV, rr, htf2)
  BY <1>3, <1>7, NotLong DEF DivBuild, Drawn, TargetOr, RangeAhead, Ahead, Padded
<1>9. a = 2 * entry /\ "DIV" = FlipSetup("DIV")
  BY DEF FlipSetup, AtClose, OnAxis
<1> HIDE DEF entry, e, pad, sl, s, target, target2, htf, htf2, rr
<1>10. tp1 \in Int /\ t = a - tp1
  BY <1>1, <1>4, <1>5, TargetFlips
<1> HIDE DEF tp1, t
<1> QED
  BY <1>1, <1>4, <1>6, <1>8, <1>9, <1>10, DrawnFlips

\* A new extreme with a fading oscillator, above and below.
Fading(c) == LET h == c.highs IN
  /\ h.recent > h.prior /\ h.rsi # None
  /\ h.rsi[1] >= DIV.extreme /\ c.rsi <= h.rsi[1] - DIV.margin
  /\ c.rsi > 40
  /\ BearishRejection(c.cur, c.prev, MinRange(c))
Reviving(c) == LET l == c.lows IN
  /\ l.recent < l.prior /\ l.rsi # None
  /\ l.rsi[1] <= 100 - DIV.extreme /\ c.rsi >= l.rsi[1] + DIV.margin
  /\ c.rsi < 60
  /\ BullishRejection(c.cur, c.prev, MinRange(c))

\* The last bars of two mirrored contexts.
LEMMA MirroredRejections ==
  ASSUME NEW a, NEW c, NEW k, Mirrored(a, c, k)
  PROVE  /\ BullishRejection(k.cur, k.prev, MinRange(k))
              <=> BearishRejection(c.cur, c.prev, MinRange(c))
         /\ BearishRejection(k.cur, k.prev, MinRange(k))
              <=> BullishRejection(c.cur, c.prev, MinRange(c))
         /\ ~ (BullishRejection(c.cur, c.prev, MinRange(c))
                /\ BearishRejection(c.cur, c.prev, MinRange(c)))
<1> QED
  BY MirroredBar, RejectionsFlip, RejectionsDiffer

\* A fading high is a reviving low, reflected.
LEMMA FadingTurns ==
  ASSUME NEW a, NEW c, NEW k, Mirrored(a, c, k)
  PROVE  Fading(k) <=> Reviving(c)
<1> DEFINE h == k.highs  l == c.lows
<1>1. /\ l.recent \in Int /\ l.prior \in Int /\ l.rsi \in Optional(Int)
      /\ h.recent = a - l.recent /\ h.prior = a - l.prior /\ h.rsi = FlipAll(100, l.rsi)
      /\ a \in Int /\ c.rsi \in Int /\ k.rsi = 100 - c.rsi
  BY DEF Mirrored, Readable, ExtremeReads, TurnedPrices, TurnedExtremes, TurnedReads
<1>2. DIV.extreme = 60 /\ DIV.margin = 5
  BY DEF DIV
<1>4. 100 \in Int
  OBVIOUS
<1>6. CASE l.rsi = None /\ h.rsi = None
  BY <1>6 DEF Fading, Reviving
<1>7. ASSUME NEW q \in Int, l.rsi = <<q>>, h.rsi = <<100 - q>>
      PROVE  Fading(k) <=> Reviving(c)
  BY <1>7, <1>1, <1>2, MirroredRejections DEF None, Fading, Reviving, h, l
<1> QED
  BY <1>1, <1>4, FlipOptional, <1>6, <1>7

\* A divergence is reflected in a divergence.
LEMMA DivFlips ==
  ASSUME NEW a, NEW c, NEW k, Mirrored(a, c, k), Quoted(a, c), AtClose(a, c)
  PROVE  Twins(a, c, DivergenceContinuation(c), DivergenceContinuation(k))
<1> DEFINE Ready(x) == x.ready /\ x.n5 >= 25
           Find(x) == IF Ready(x) /\ Fading(x) THEN DivBuild(x, Short, x.highs.recent)
                      ELSE IF Ready(x) /\ Reviving(x) THEN DivBuild(x, Long, x.lows.recent)
                      ELSE None
<1>1. DivergenceContinuation(c) = Find(c) /\ DivergenceContinuation(k) = Find(k)
  BY DEF DivergenceContinuation, Fading, Reviving
<1>2. Ready(k) <=> Ready(c)
  BY DEF Mirrored, SameReads
<1>3. Mirrored(a, k, c)
  BY MirrorTurns
<1>5. ~ (Fading(c) /\ Reviving(c))
  BY MirroredRejections DEF Fading, Reviving
<1>6. /\ Long \in Sides /\ Short \in Sides /\ FlipSide(Long) = Short /\ FlipSide(Short) = Long
  BY DEF Sides, FlipSide, Long, Short
<1>7. /\ c.highs.recent \in Int /\ k.lows.recent = a - c.highs.recent
      /\ c.lows.recent \in Int /\ k.highs.recent = a - c.lows.recent
  BY DEF Mirrored, Readable, ExtremeReads, TurnedPrices, TurnedExtremes
<1>8. Twins(a, c, DivBuild(c, Short, c.highs.recent), DivBuild(k, Long, k.lows.recent))
  BY <1>6, <1>7, DivBuildFlips
<1>9. Twins(a, c, DivBuild(c, Long, c.lows.recent), DivBuild(k, Short, k.highs.recent))
  BY <1>6, <1>7, DivBuildFlips
<1> HIDE DEF Ready
<1>10. Twins(a, c, Find(c), Find(k))
  BY <1>2, <1>3, FadingTurns, <1>5, <1>8, <1>9, NoneFound
<1> QED
  BY <1>1, <1>10

\* What a squeeze asks of the clock and of the distance to max pain.
EgsReady(x, entry, pain) ==
  /\ x.expiry /\ 810 <= x.time /\ x.time <= 900 /\ x.maxPain # None /\ entry > 0
  /\ ShareIn(Dist(entry, pain), entry, EGS.minGap, EGS.maxGap)
EgsFind(x, d, entry, sl, pain, htf) ==
  IF EgsReady(x, entry, pain) THEN Fixed(x, "EGS", d, entry, sl, pain, EGS, htf, 0) ELSE None

\* The gamma squeeze, from what it reads.
LEMMA EgsIs ==
  ASSUME NEW x, NEW entry, entry = x.cur.close, NEW pain, pain = x.maxPain[1],
         NEW d, d = (IF pain > entry THEN Long ELSE Short),
         NEW sl, sl = Padded(d, entry, OfAtr(x, EGS.pad)), NEW htf, htf = FALSE
  PROVE  ExpiryGammaSqueeze(x) = EgsFind(x, d, entry, sl, pain, htf)
<1> DEFINE Last == x.cur.close
           Goal == x.maxPain[1]
           Way == IF Goal > Last THEN Long ELSE Short
           Pad == OfAtr(x, EGS.pad)
           Stop == IF Way = Long THEN Last - Pad ELSE Last + Pad
           A == /\ x.expiry /\ 810 <= x.time /\ x.time <= 900
                /\ x.maxPain # None /\ Last > 0
                /\ ShareIn(Dist(Last, Goal), Last, EGS.minGap, EGS.maxGap)
           B == StopFits(Last, Stop, EGS)
           sig == Signal(x, "EGS", Way, Last, Stop, Goal, "MARKET", FALSE, 0)
<1>1. ExpiryGammaSqueeze(x) = IF A /\ B THEN sig ELSE None
  BY DEF ExpiryGammaSqueeze
<1>2. Last = entry /\ Goal = pain
  OBVIOUS
<1>3. Way = d
  BY <1>2
<1> HIDE DEF Way, Last, Goal
<1>4. Stop = sl
  BY <1>2, <1>3 DEF Padded
<1> HIDE DEF Stop
<1>5. (A <=> EgsReady(x, entry, pain)) /\ (B <=> StopFits(entry, sl, EGS))
  BY <1>2, <1>4 DEF EgsReady
<1>6. sig = Signal(x, "EGS", d, entry, sl, pain, "MARKET", htf, 0)
  BY <1>2, <1>3, <1>4
<1> HIDE DEF A, B, sig
<1> QED
  BY <1>1, <1>5, <1>6 DEF EgsFind, Fixed

\* A squeeze toward max pain is reflected in one.
LEMMA EgsFlips ==
  ASSUME NEW a, NEW c, NEW k, Mirrored(a, c, k), Quoted(a, c), AtClose(a, c)
  PROVE  Twins(a, c, ExpiryGammaSqueeze(c), ExpiryGammaSqueeze(k))
<1> DEFINE entry == c.cur.close  e == k.cur.close
           pain == c.maxPain[1]  pain2 == k.maxPain[1]
           d == IF pain > entry THEN Long ELSE Short
           side == IF pain2 > e THEN Long ELSE Short
           pad == OfAtr(c, EGS.pad)  pad2 == OfAtr(k, EGS.pad)
           sl == Padded(d, entry, pad)  s == Padded(side, e, pad2)
           htf == FALSE
<1>1. a \in Int /\ entry \in Int /\ e = a - entry
  BY MirroredBar
<1>2. EGS.pad \in Nat /\ EGS.minGap = 20
  BY DEF EGS
<1>3. pad \in Nat /\ pad2 = pad
  BY <1>2, MirroredAtr
<1>4. e = entry /\ a = 2 * entry /\ k.expiry = c.expiry /\ k.time = c.time
  BY <1>1 DEF AtClose, OnAxis, Mirrored, SameReads
<1>5. /\ ExpiryGammaSqueeze(c) = EgsFind(c, d, entry, sl, pain, htf)
      /\ ExpiryGammaSqueeze(k) = EgsFind(k, side, e, s, pain2, htf)
  BY EgsIs
<1>6. c.maxPain \in Optional(Int) /\ k.maxPain = FlipAll(a, c.maxPain)
  BY DEF Mirrored, Readable, TurnedPrices
<1>7. \/ c.maxPain = None /\ k.maxPain = None
      \/ \E q \in Int : c.maxPain = <<q>> /\ k.maxPain = <<a - q>>
  <2> HIDE DEF entry, e
  <2> QED
    BY <1>1, <1>6, OneFlips
<1>8. CASE c.maxPain = None /\ k.maxPain = None
  BY <1>5, <1>8, NoneFound DEF EgsFind, EgsReady
<1>9. ASSUME NEW q \in Int, c.maxPain = <<q>>, k.maxPain = <<a - q>>
      PROVE  Twins(a, c, ExpiryGammaSqueeze(c), ExpiryGammaSqueeze(k))
  <2>1. c.maxPain # None /\ k.maxPain # None /\ pain = q /\ pain2 = a - q
    BY <1>9 DEF None
  <2>2. Dist(e, pain2) = Dist(entry, pain)
    BY <1>1, <2>1 DEF Dist
  <2>3. EgsReady(k, e, pain2) <=> EgsReady(c, entry, pain)
    BY <1>4, <2>1, <2>2 DEF EgsReady
  <2>4. CASE EgsReady(c, entry, pain)
    <3>1. pain # entry
      BY <1>2, <2>4, <1>1, <2>1 DEF ShareIn, EgsReady, Dist
    <3>2. d \in Sides /\ side = FlipSide(d)
      BY <1>1, <2>1, <3>1 DEF Sides, FlipSide, Long, Short
    <3>3. sl \in Int /\ s = a - sl
      <4> HIDE DEF d, side, entry, e, pad, pad2
      <4> QED
        BY <1>1, <1>3, <3>2, PaddedFlips
    <3>4. "EGS" = FlipSetup("EGS")
      BY DEF FlipSetup
    <3>5. htf \in BOOLEAN
      OBVIOUS
    <3> HIDE DEF d, side, entry, e, pad, pad2, sl, s, htf, pain, pain2
    <3>6. pain \in Int /\ pain2 = a - pain
      BY <2>1
    <3>8. /\ ExpiryGammaSqueeze(c) = Fixed(c, "EGS", d, entry, sl, pain, EGS, htf, 0)
          /\ ExpiryGammaSqueeze(k) = Fixed(k, "EGS", side, e, s, pain2, EGS, htf, 0)
      BY <1>5, <2>3, <2>4 DEF EgsFind
    <3> QED
      BY <1>1, <1>4, <3>2, <3>3, <3>4, <3>5, <3>6, FixedFlips, <3>8
  <2>5. CASE ~EgsReady(c, entry, pain)
    BY <1>5, <2>3, <2>5, NoneFound DEF EgsFind
  <2> QED
    BY <2>4, <2>5
<1> QED
  BY <1>7, <1>8, <1>9

\* The last swing and the extreme of the day ahead of a price.
DayAhead(c, d, p) == Ahead(d, p, SwingHigh(c, 20) \o <<c.pdh>>, SwingLow(c, 20) \o <<c.pdl>>)

\* The extreme of the day ahead of a price.
LEMMA DayAheadFlips ==
  ASSUME NEW a, NEW c, NEW k, Mirrored(a, c, k), NEW d \in Sides, NEW side, side = FlipSide(d),
         NEW p \in Int, NEW q, q = a - p
  PROVE  /\ DayAhead(c, d, p) \in Optional(Int)
         /\ DayAhead(k, side, q) = FlipAll(a, DayAhead(c, d, p))
<1> DEFINE hi == SwingHigh(c, 20)  lo == SwingLow(c, 20)
           hi2 == SwingHigh(k, 20)  lo2 == SwingLow(k, 20)
           up == hi \o <<c.pdh>>  down == lo \o <<c.pdl>>
           up2 == hi2 \o <<k.pdh>>  down2 == lo2 \o <<k.pdl>>
<1>1. /\ k.pdh = a - c.pdl /\ k.pdl = a - c.pdh /\ c.pdh \in Int /\ c.pdl \in Int /\ a \in Int
  BY MirroredRange
<1>2. 20 \in Nat
  OBVIOUS
<1>3. hi \in Optional(Int) /\ lo \in Optional(Int) /\ hi2 = FlipAll(a, lo) /\ lo2 = FlipAll(a, hi)
  BY <1>2, MirroredSwings
<1> HIDE DEF hi, lo, hi2, lo2
<1>4. <<c.pdh>> \in Seq(Int) /\ <<c.pdl>> \in Seq(Int) /\ hi \in Seq(Int) /\ lo \in Seq(Int)
  BY <1>1, <1>3, ListsHold
<1>6. up \in Seq(Int) /\ down \in Seq(Int)
  BY <1>4
<1>7. up2 = FlipAll(a, down) /\ down2 = FlipAll(a, up)
  <2>1. FlipAll(a, down) = FlipAll(a, lo) \o FlipAll(a, <<c.pdl>>)
    BY <1>1, <1>4, FlipAllJoins
  <2>2. FlipAll(a, up) = FlipAll(a, hi) \o FlipAll(a, <<c.pdh>>)
    BY <1>1, <1>4, FlipAllJoins
  <2> QED
    BY <1>3, <1>1, FlipOne, <2>1, <2>2
<1>8. DayAhead(c, d, p) = Ahead(d, p, up, down) /\ DayAhead(k, side, q) = Ahead(side, q, up2, down2)
  BY DEF DayAhead, hi, lo, hi2, lo2
<1>9. a \in Int
  BY <1>1
<1> HIDE DEF up, down, up2, down2
<1>10. up2 \in Seq(Int) /\ down2 \in Seq(Int)
  BY <1>6, <1>7, <1>9, FlipAllIs
<1>11. Values(up2) = Reflect(a, Values(down)) /\ Values(down2) = Reflect(a, Values(up))
  BY <1>6, <1>7, <1>9, FlippedValues
<1> QED
  BY <1>6, <1>8, <1>9, <1>10, <1>11, AheadFlips

\* The averages cross.
CrossUp(x) == x.was21 < x.was55 /\ x.now21 > x.now55
CrossDown(x) == x.was21 > x.was55 /\ x.now21 < x.now55

\* The crossing.
LEMMA MacBuildFlips ==
  ASSUME NEW a, NEW c, NEW k, Mirrored(a, c, k), Quoted(a, c),
         NEW x \in CrossReads, NEW y \in CrossReads, TurnedCross(a, x, y),
         OnAxis(a, x.close), NEW d \in Sides, NEW side, side = FlipSide(d)
  PROVE  Twins(a, c, MacBuild(c, d, x), MacBuild(k, side, y))
<1> DEFINE entry == x.close  e == y.close  now == x.now55  now2 == y.now55
           pad == (x.atr * MAC.pad) \div 100
           sl == Padded(d, now, pad)  s == Padded(side, now2, pad)
           target == DayAhead(c, d, entry)  target2 == DayAhead(k, side, e)
           tp1 == TargetOr(target, d, entry, sl)
           t == TargetOr(target2, side, e, s)
           htf == NotAgainst(c, d)  htf2 == NotAgainst(k, side)
           rr == MAC.minRR
<1>1. /\ a \in Int /\ entry \in Int /\ e = a - entry /\ now \in Int /\ now2 = a - now
      /\ x.atr \in Nat /\ y.atr = x.atr
  BY DEF Mirrored, CrossReads, TurnedCross
<1>2. pad \in Nat
  BY <1>1 DEF MAC
<1>3. sl \in Int /\ s = a - sl
  BY <1>1, <1>2, PaddedFlips
<1>4. target \in Optional(Int) /\ target2 = FlipAll(a, target)
  BY <1>1, DayAheadFlips
<1>5. htf \in BOOLEAN /\ htf2 \in BOOLEAN /\ (htf2 <=> htf)
  BY HourTurns, LabelsTell
<1>6. /\ MacBuild(c, d, x) = Drawn(c, "MAC", d, entry, sl, tp1, MAC, rr, htf)
      /\ MacBuild(k, side, y) = Drawn(k, "MAC", side, e, s, t, MAC, rr, htf2)
  BY <1>1 DEF MacBuild, Drawn, TargetOr, DayAhead, Ahead, Padded
<1>7. "MAC" = FlipSetup("MAC") /\ a = 2 * entry
  BY DEF FlipSetup, OnAxis
<1> HIDE DEF entry, e, now, now2, pad, sl, s, target, target2, htf, htf2, rr
<1>8. tp1 \in Int /\ t = a - tp1
  BY <1>1, <1>3, <1>4, TargetFlips
<1> HIDE DEF tp1, t
<1> QED
  BY <1>1, <1>3, <1>5, <1>6, <1>7, <1>8, DrawnFlips

\* A cross is reflected in a cross.
LEMMA MacFlips ==
  ASSUME NEW a, NEW c, NEW k, Mirrored(a, c, k), Quoted(a, c),
         c.cross # None => OnAxis(a, c.cross[1].close)
  PROVE  Twins(a, c, MaCrossTrendShift(c), MaCrossTrendShift(k))
<1>2. CASE c.cross = None /\ k.cross = None
  BY <1>2, NoneFound DEF MaCrossTrendShift
<1>3. ASSUME NEW x \in CrossReads, NEW y \in CrossReads, c.cross = <<x>>, k.cross = <<y>>,
             TurnedCross(a, x, y)
      PROVE  Twins(a, c, MaCrossTrendShift(c), MaCrossTrendShift(k))
  <2> DEFINE d == IF CrossUp(x) THEN Long ELSE Short
             side == IF CrossUp(y) THEN Long ELSE Short
             Heavy(z) == z.volume # None => z.volume[1] >= MAC.volume
             Find(w, z, way) == IF (CrossUp(z) \/ CrossDown(z)) /\ NotAgainst(w, way) /\ Heavy(z)
                                THEN MacBuild(w, way, z) ELSE None
  <2>1. c.cross # None /\ k.cross # None /\ c.cross[1] = x /\ k.cross[1] = y
    BY <1>3 DEF None
  <2>2. MaCrossTrendShift(c) = Find(c, x, d) /\ MaCrossTrendShift(k) = Find(k, y, side)
    BY <2>1 DEF MaCrossTrendShift, CrossUp, CrossDown
  <2>3. /\ x.was21 \in Int /\ x.was55 \in Int /\ x.now21 \in Int /\ x.now55 \in Int
        /\ y.was21 = a - x.was21 /\ y.was55 = a - x.was55 /\ a \in Int
        /\ y.now21 = a - x.now21 /\ y.now55 = a - x.now55 /\ y.volume = x.volume
    BY <1>3 DEF CrossReads, TurnedCross, Mirrored
  <2>4. /\ CrossUp(y) <=> CrossDown(x)
        /\ CrossDown(y) <=> CrossUp(x)
        /\ ~ (CrossUp(x) /\ CrossDown(x))
    BY <2>3 DEF CrossUp, CrossDown
  <2>5. Heavy(y) <=> Heavy(x)
    BY <2>3
  <2>6. OnAxis(a, x.close)
    BY <2>1
  <2>7. CASE CrossUp(x) \/ CrossDown(x)
    BY <2>4, <2>7, <1>3, <2>6, MacBuildFlips, HourTurns, <2>2, <2>5, NoneFound DEF Sides, FlipSide,
       Long, Short
  <2>8. CASE ~ (CrossUp(x) \/ CrossDown(x))
    BY <2>2, <2>4, <2>8, NoneFound
  <2> QED
    BY <2>7, <2>8
<1> QED
  BY <1>2, <1>3 DEF Mirrored, TurnedPrices

\* The swing ahead, of a history long enough to have one.
LaterSwing(c, d, p) == IF Len(c.c15) < 3 THEN None ELSE SwingAhead(c, d, p)

\* The later swing ahead of a price.
LEMMA LaterSwingFlips ==
  ASSUME NEW a, NEW c, NEW k, Mirrored(a, c, k), NEW d \in Sides, NEW side, side = FlipSide(d),
         NEW p \in Int, NEW q, q = a - p
  PROVE  /\ LaterSwing(c, d, p) \in Optional(Int)
         /\ LaterSwing(k, side, q) = FlipAll(a, LaterSwing(c, d, p))
<1>1. Len(k.c15) = Len(c.c15)
  BY BarsKept
<1>3. None \in Optional(Int) /\ FlipAll(a, None) = None
  <2>1. a \in Int
    BY DEF Mirrored
  <2>2. FlipAll(a, None) = None
    BY <2>1, 0 \in Int, FlipOne
  <2>3. None \in Optional(Int)
    BY DEF Optional, None
  <2> QED
    BY <2>2, <2>3
<1> QED
  BY <1>1, SwingAheadFlips, <1>3 DEF LaterSwing

\* The reclaim.
LEMMA FarBuildFlips ==
  ASSUME NEW a, NEW c, NEW k, Mirrored(a, c, k), Quoted(a, c), AtClose(a, c),
         NEW d \in Sides, NEW side, side = FlipSide(d), NEW sl \in Int, NEW s, s = a - sl
  PROVE  Twins(a, c, FarBuild(c, d, sl), FarBuild(k, side, s))
<1> DEFINE entry == c.cur.close  e == k.cur.close
           target == LaterSwing(c, d, entry)  target2 == LaterSwing(k, side, e)
           tp1 == TargetOr(target, d, entry, sl)
           t == TargetOr(target2, side, e, s)
           htf == TrendMatches(c, d)  htf2 == TrendMatches(k, side)
           rr == FAR.minRR
<1>1. a \in Int /\ entry \in Int /\ e = a - entry
  BY MirroredBar
<1>2. target \in Optional(Int) /\ target2 = FlipAll(a, target)
  BY <1>1, LaterSwingFlips
<1>3. htf \in BOOLEAN /\ htf2 \in BOOLEAN /\ (htf2 <=> htf)
  BY HourTurns, LabelsTell
<1>4. /\ FarBuild(c, d, sl) = Drawn(c, "FAR", d, entry, sl, tp1, FAR, rr, htf)
      /\ FarBuild(k, side, s) = Drawn(k, "FAR", side, e, s, t, FAR, rr, htf2)
  BY DEF FarBuild, Drawn, TargetOr, LaterSwing, SwingAhead, Ahead
<1>5. a = 2 * entry /\ "FAR" = FlipSetup("FAR")
  BY DEF FlipSetup, AtClose, OnAxis
<1> HIDE DEF entry, e, target, target2, htf, htf2, rr
<1>6. tp1 \in Int /\ t = a - tp1
  BY <1>1, <1>2, TargetFlips
<1> HIDE DEF tp1, t
<1> QED
  BY <1>1, <1>3, <1>4, <1>5, <1>6, DrawnFlips

\* The recent bars, and their extremes.
LookBars(c) == {c.look[i] : i \in DOMAIN c.look}
LookLows(c) == {b.low : b \in LookBars(c)}
LookHighs(c) == {b.high : b \in LookBars(c)}

\* The bars a reclaim looks back on.
LEMMA LookTurns ==
  ASSUME NEW a, NEW c, NEW k, Mirrored(a, c, k)
  PROVE  /\ LookBars(c) \subseteq Bars /\ LookBars(k) = {FlipBar(a, b) : b \in LookBars(c)}
         /\ LookHighs(k) = Reflect(a, LookLows(c)) /\ LookLows(k) = Reflect(a, LookHighs(c))
<1> DEFINE bars == c.look
<1>1. bars \in Seq(Bars) /\ k.look = FlipBars(a, bars) /\ a \in Int
  BY BarsKept DEF Mirrored
<1> HIDE DEF bars
<1>3. LookBars(c) \subseteq Bars /\ LookBars(k) = {FlipBar(a, b) : b \in LookBars(c)}
  BY <1>1, FlipBarsAre DEF LookBars, bars
<1>4. \A b \in LookBars(c) : FlipBar(a, b).high = a - b.low /\ FlipBar(a, b).low = a - b.high
  BY <1>1, <1>3, FlipBarIs
<1>5. LookHighs(k) = Reflect(a, LookLows(c))
  BY <1>3, <1>4 DEF LookHighs, LookLows, Reflect
<1>6. LookLows(k) = Reflect(a, LookHighs(c))
  BY <1>3, <1>4 DEF LookHighs, LookLows, Reflect
<1> QED
  BY <1>3, <1>5, <1>6

\* The extremes of recent bars are those of their reflection.
LEMMA LookExtremes ==
  ASSUME NEW a, NEW c, NEW k, Mirrored(a, c, k), LookBars(c) # {}
  PROVE  /\ Min(LookLows(c)) \in Int /\ Max(LookHighs(k)) = a - Min(LookLows(c))
         /\ Max(LookHighs(c)) \in Int /\ Min(LookLows(k)) = a - Max(LookHighs(c))
<1> DEFINE bars == c.look  n == Len(bars)
           low == [i \in 1..n |-> bars[i].low]  high == [i \in 1..n |-> bars[i].high]
           L == LookLows(c)  H == LookHighs(c)
<1>1. bars \in Seq(Bars) /\ a \in Int
  BY BarsKept DEF Mirrored
<1>2. n \in Nat /\ DOMAIN bars = 1..n /\ \A i \in 1..n : bars[i] \in Bars
  BY <1>1
<1>3. n > 0
  BY <1>2 DEF LookBars
<1>4. \A i \in 1..n : bars[i].low \in Int /\ bars[i].high \in Int
  BY <1>2 DEF Bars
<1>5. low \in [1..n -> Int] /\ high \in [1..n -> Int]
  BY <1>4
<1>6. /\ \A i \in 1..n : low[i] \in L
      /\ \A v \in L : \E i \in 1..n : v = low[i]
  BY <1>2 DEF LookLows, LookBars
<1>7. /\ \A i \in 1..n : high[i] \in H
      /\ \A v \in H : \E i \in 1..n : v = high[i]
  BY <1>2 DEF LookHighs, LookBars
<1>8. L \subseteq Int /\ H \subseteq Int
  BY <1>4, <1>6, <1>7
<1> DEFINE L2 == LookLows(k)  H2 == LookHighs(k)
<1>9. L2 = Reflect(a, H) /\ H2 = Reflect(a, L)
  BY LookTurns
<1> HIDE DEF bars, n, low, high, L, H, L2, H2
<1>10. Min(L) \in L /\ \A v \in L : Min(L) <= v
  BY <1>2, <1>3, <1>5, <1>6, ListedExtremes
<1>11. Max(H) \in H /\ \A v \in H : v <= Max(H)
  BY <1>2, <1>3, <1>5, <1>7, ListedExtremes
<1>12. Max(H2) = a - Min(L)
  BY <1>1, <1>8, <1>9, <1>10, ExtremesFlip
<1>13. Min(L2) = a - Max(H)
  BY <1>8, <1>11, <1>1, <1>9, ExtremesFlip
<1>14. Min(L) \in Int /\ Max(H) \in Int
  BY <1>8, <1>10, <1>11
<1> QED
  BY <1>12, <1>13, <1>14 DEF L, H, L2, H2

\* The edges a failed auction broke falsely, and closed beyond again.
Tops(c) == (IF c.orLocked THEN c.orh ELSE None) \o <<c.pdh>>
Bottoms(c) == (IF c.orLocked THEN c.orl ELSE None) \o <<c.pdl>>
Above(c, v) == /\ v > 0 /\ c.cur.close > v
               /\ \E b \in LookBars(c) : b.high > v /\ b.close < v
Below(c, v) == /\ v > 0 /\ c.cur.close < v
               /\ \E b \in LookBars(c) : b.low < v /\ b.close > v
AboveRange(c) == \E i \in DOMAIN Tops(c) : Above(c, Tops(c)[i])
BelowRange(c) == \E i \in DOMAIN Bottoms(c) : Below(c, Bottoms(c)[i])

\* The edges of the range it fails at.
LEMMA EdgesTurn ==
  ASSUME NEW a, NEW c, NEW k, Mirrored(a, c, k)
  PROVE  /\ Values(Tops(c)) = (IF c.orLocked THEN Values(c.orh) ELSE {}) \cup {c.pdh}
         /\ Values(Bottoms(c)) = (IF c.orLocked THEN Values(c.orl) ELSE {}) \cup {c.pdl}
         /\ Values(Tops(k)) = Reflect(a, Values(Bottoms(c)))
         /\ Values(Tops(c)) \cup Values(Bottoms(c)) \subseteq Values(KeyLevels(c))
<1>1. ASSUME NEW x, NEW y, Mirrored(a, y, x)
      PROVE  /\ Values(Tops(x)) = (IF x.orLocked THEN Values(x.orh) ELSE {}) \cup {x.pdh}
             /\ Values(Bottoms(x)) = (IF x.orLocked THEN Values(x.orl) ELSE {}) \cup {x.pdl}
  <2>2. /\ x.orh \in Seq(Int) /\ x.orl \in Seq(Int) /\ None \in Seq(Int) /\ Values(None) = {}
        /\ <<x.pdh>> \in Seq(Int) /\ Values(<<x.pdh>>) = {x.pdh}
        /\ <<x.pdl>> \in Seq(Int) /\ Values(<<x.pdl>>) = {x.pdl}
    BY <1>1, ListsHold DEF Mirrored, Readable
  <2> DEFINE up == <<x.pdh>>  down == <<x.pdl>>
  <2>a. /\ up \in Seq(Int) /\ Values(up) = {x.pdh} /\ down \in Seq(Int) /\ Values(down) = {x.pdl}
    BY <2>2
  <2>b. /\ x.orh \in Seq(Int) /\ x.orl \in Seq(Int) /\ None \in Seq(Int) /\ Values(None) = {}
    BY <2>2
  <2>c. /\ Tops(x) = (IF x.orLocked THEN x.orh \o up ELSE None \o up)
        /\ Bottoms(x) = (IF x.orLocked THEN x.orl \o down ELSE None \o down)
    BY DEF Tops, Bottoms
  <2> HIDE DEF up, down
  <2>3. /\ Values(x.orh \o up) = Values(x.orh) \cup Values(up)
        /\ Values(None \o up) = Values(None) \cup Values(up)
    BY <2>a, <2>b, JoinedValues
  <2>4. /\ Values(x.orl \o down) = Values(x.orl) \cup Values(down)
        /\ Values(None \o down) = Values(None) \cup Values(down)
    BY <2>a, <2>b, JoinedValues
  <2> QED
    BY <2>a, <2>b, <2>c, <2>3, <2>4
<1>2. Mirrored(a, k, c)
  BY MirrorTurns
<1>3. /\ Values(Tops(c)) = (IF c.orLocked THEN Values(c.orh) ELSE {}) \cup {c.pdh}
      /\ Values(Bottoms(c)) = (IF c.orLocked THEN Values(c.orl) ELSE {}) \cup {c.pdl}
      /\ Values(Tops(k)) = (IF k.orLocked THEN Values(k.orh) ELSE {}) \cup {k.pdh}
  BY <1>1, <1>2
<1>4. /\ k.pdh = a - c.pdl /\ c.pdl \in Int /\ Values(k.orh) = Reflect(a, Values(c.orl))
      /\ k.orLocked = c.orLocked /\ a \in Int
  BY MirroredRange
<1>5. Values(Tops(k)) = Reflect(a, Values(Bottoms(c)))
  <2> DEFINE V == Values(c.orl)
  <2>1. /\ Reflect(a, {c.pdl}) = {k.pdh} /\ Reflect(a, {}) = {}
        /\ Reflect(a, V \cup {c.pdl}) = Reflect(a, V) \cup Reflect(a, {c.pdl})
        /\ Reflect(a, {} \cup {c.pdl}) = Reflect(a, {}) \cup Reflect(a, {c.pdl})
    BY <1>4, PartsReflect
  <2> HIDE DEF V
  <2>2. CASE c.orLocked
    BY <1>3, <1>4, <2>1, <2>2 DEF V
  <2>3. CASE ~c.orLocked
    BY <1>3, <1>4, <2>1, <2>3
  <2> QED
    BY <2>2, <2>3
<1> QED
  BY <1>3, <1>5, KeyValues DEF Mirrored

\* A false break of an edge, above, is reflected in one below.
LEMMA AboveTurns ==
  ASSUME NEW a, NEW c, NEW k, Mirrored(a, c, k), NEW v \in Int, 0 < v, v < a, NEW w, w = a - v
  PROVE  Above(k, w) <=> Below(c, v)
<1>1. /\ a \in Int /\ c.cur.close \in Int /\ k.cur.close = a - c.cur.close
  BY MirroredBar
<1>3. LookBars(c) \subseteq Bars /\ LookBars(k) = {FlipBar(a, b) : b \in LookBars(c)}
  BY LookTurns
<1>4. ASSUME NEW b \in LookBars(c)
      PROVE  (FlipBar(a, b).high > w /\ FlipBar(a, b).close < w) <=> (b.low < v /\ b.close > v)
  BY <1>3, <1>1, FlipBarIs
<1>5. (\E b \in LookBars(k) : b.high > w /\ b.close < w)
        <=> (\E b \in LookBars(c) : b.low < v /\ b.close > v)
  BY <1>3, <1>4
<1> QED
  BY <1>1, <1>5 DEF Above, Below

\* A failure above is one below, reflected.
LEMMA AboveRangeTurns ==
  ASSUME NEW a, NEW c, NEW k, Mirrored(a, c, k), Quoted(a, c)
  PROVE  AboveRange(k) <=> BelowRange(c)
<1> DEFINE T == Values(Tops(k))  B == Values(Bottoms(c))
<1>1. (AboveRange(k) <=> \E v \in T : Above(k, v)) /\ (BelowRange(c) <=> \E v \in B : Below(c, v))
  BY DEF AboveRange, BelowRange, Values
<1>2. T = {a - v : v \in B}
  BY EdgesTurn DEF Reflect
<1>3. \A v \in B : 0 < v /\ v < a
  BY EdgesTurn, QuotedLevels
<1>4. B \subseteq Int
  <2>2. \A list \in Seq(Int) : Values(list) \subseteq Int
    BY DEF Values
  <2> QED
    BY EdgesTurn, MirroredLevels, <2>2
<1> HIDE DEF T, B
<1>5. \A v \in B : Above(k, a - v) <=> Below(c, v)
  BY <1>3, <1>4, AboveTurns
<1> QED
  BY <1>1, <1>2, <1>5

\* A failed auction is reflected in one, unless it failed on both sides.
LEMMA FarFlips ==
  ASSUME NEW a, NEW c, NEW k, Mirrored(a, c, k), Quoted(a, c), AtClose(a, c), ~BothSides("FAR", c)
  PROVE  Twins(a, c, FailedAuctionReclaim(c), FailedAuctionReclaim(k))
<1> DEFINE Ready(x) == x.n5 >= 4 /\ x.volume >= FAR.volume
           Find(x) == IF Ready(x) /\ AboveRange(x) THEN FarBuild(x, Long, Min(LookLows(x)))
                      ELSE IF Ready(x) /\ BelowRange(x) THEN FarBuild(x, Short, Max(LookHighs(x)))
                      ELSE None
<1>1. FailedAuctionReclaim(c) = Find(c) /\ FailedAuctionReclaim(k) = Find(k)
  BY DEF FailedAuctionReclaim, AboveRange, BelowRange, Above, Below, LookBars, LookLows, LookHighs,
         Tops, Bottoms
<1>2. Ready(k) <=> Ready(c)
  BY DEF Mirrored, SameReads
<1>3. Mirrored(a, k, c) /\ Quoted(a, k)
  BY MirrorTurns, QuotedTurns
<1>5. ~ (AboveRange(c) /\ BelowRange(c))
  <2> SUFFICES ASSUME AboveRange(c), BelowRange(c) PROVE FALSE
    OBVIOUS
  <2> DEFINE last == c.cur.close
  <2>1. PICK v \in Values(Tops(c)) : last > v
    BY DEF AboveRange, Above, Values
  <2>2. PICK w \in Values(Bottoms(c)) : last < w
    BY DEF BelowRange, Below, Values
  <2>3. /\ last \in Int /\ c.orh \in Optional(Int) /\ c.orl \in Optional(Int)
        /\ c.pdh \in Int /\ c.pdl \in Int
    BY MirroredBar, MirroredRange
  <2>4. v = c.pdh \/ (c.orLocked /\ v \in Values(c.orh))
    BY <2>1, EdgesTurn
  <2>5. w = c.pdl \/ (c.orLocked /\ w \in Values(c.orl))
    BY <2>2, EdgesTurn
  <2>6. \A s \in Optional(Int) : \A u \in Values(s) : s # None /\ u = s[1] /\ u \in Int
    BY DEF Optional, Values, None
  <2>7. v \in Int /\ w \in Int /\ v < last
    BY <2>1, <2>3, <2>4, <2>5, <2>6
  <2>9. w = c.pdl \/ (c.orLocked /\ c.orl # None /\ w = c.orl[1])
    BY <2>3, <2>5, <2>6
  <2>10. c.orh # None /\ c.orLocked /\ v = c.orh[1] /\ w = c.orl[1] => c.orh[1] < last /\ last < c.orl[1]
    BY <2>2, <2>7
  <2>11. v = c.pdh /\ c.orl # None /\ w = c.orl[1] => c.orl[1] > last /\ last > c.pdh
    BY <2>2, <2>3, <2>7
  <2>12. v = c.pdh /\ w = c.pdl => c.pdh < last /\ last < c.pdl
    BY <2>2, <2>3, <2>7
  <2>13. v = c.orh[1] /\ w = c.pdl => c.orh[1] < last /\ last < c.pdl
    BY <2>2, <2>3, <2>7
  <2> HIDE DEF last
  <2> QED
    BY <2>3, <2>4, <2>6, <2>9, <2>10, <2>11, <2>12, <2>13 DEF BothSides, last
<1>6. AboveRange(c) \/ BelowRange(c) => LookBars(c) # {}
  BY DEF AboveRange, BelowRange, Above, Below
<1>8. ASSUME LookBars(c) # {}
      PROVE  /\ Twins(a, c, FarBuild(c, Long, Min(LookLows(c))), FarBuild(k, Short, Max(LookHighs(k))))
             /\ Twins(a, c, FarBuild(c, Short, Max(LookHighs(c))), FarBuild(k, Long, Min(LookLows(k))))
  BY <1>8, LookExtremes, FarBuildFlips DEF Sides, FlipSide, Long, Short
<1> HIDE DEF Ready
<1>9. Twins(a, c, Find(c), Find(k))
  BY <1>2, <1>3, AboveRangeTurns, <1>5, <1>6, <1>8, NoneFound
<1> QED
  BY <1>1, <1>9

\* The nearer of two targets, and the further one.
NearerOf(d, x, y) == IF d = Long THEN Min({x, y}) ELSE Max({x, y})
FurtherOf(d, x, y) == IF d = Long THEN Max({x, y}) ELSE Min({x, y})

\* The nearer and the further one of two prices.
LEMMA NearerFlips ==
  ASSUME NEW a \in Int, NEW d \in Sides, NEW side, side = FlipSide(d),
         NEW x \in Int, NEW y \in Int, NEW u, u = a - x, NEW v, v = a - y
  PROVE  /\ NearerOf(d, x, y) \in Int /\ NearerOf(side, u, v) = a - NearerOf(d, x, y)
         /\ FurtherOf(d, x, y) \in Int /\ FurtherOf(side, u, v) = a - FurtherOf(d, x, y)
<1>2. Long # Short
  BY DEF Long, Short
<1>3. u \in Int /\ v \in Int
  OBVIOUS
<1>5. /\ Max({u, v}) = IF u >= v THEN u ELSE v
      /\ Min({u, v}) = IF u <= v THEN u ELSE v
  BY <1>3, OfPair
<1> DEFINE m == Min({x, y})  n == Max({x, y})  m2 == Min({u, v})  n2 == Max({u, v})
<1>6. m \in Int /\ n \in Int /\ m2 = a - n /\ n2 = a - m
  BY OfPair, <1>5
<1>7. /\ NearerOf(d, x, y) = (IF d = Long THEN m ELSE n)
      /\ NearerOf(side, u, v) = (IF side = Long THEN m2 ELSE n2)
      /\ FurtherOf(d, x, y) = (IF d = Long THEN n ELSE m)
      /\ FurtherOf(side, u, v) = (IF side = Long THEN n2 ELSE m2)
  BY DEF NearerOf, FurtherOf
<1> HIDE DEF m, n, m2, n2
<1> QED
  BY <1>2, <1>6, <1>7 DEF Sides, FlipSide, Long, Short

\* The edge of the opening range ahead of the price.
EdgeAhead(c, d, p) == Ahead(d, p, c.orh, c.orl)

\* The edge ahead of a price.
LEMMA EdgeAheadFlips ==
  ASSUME NEW a, NEW c, NEW k, Mirrored(a, c, k), NEW d \in Sides, NEW side, side = FlipSide(d),
         NEW p \in Int, NEW q, q = a - p
  PROVE  /\ EdgeAhead(c, d, p) \in Optional(Int)
         /\ EdgeAhead(k, side, q) = FlipAll(a, EdgeAhead(c, d, p))
<1> DEFINE up == c.orh  down == c.orl  up2 == k.orh  down2 == k.orl
<1>1. /\ up \in Seq(Int) /\ down \in Seq(Int) /\ up2 \in Seq(Int) /\ down2 \in Seq(Int)
      /\ Values(up2) = Reflect(a, Values(down)) /\ Values(down2) = Reflect(a, Values(up))
      /\ a \in Int
  BY MirroredRange, ListsHold
<1>2. /\ EdgeAhead(c, d, p) = Ahead(d, p, up, down)
      /\ EdgeAhead(k, side, q) = Ahead(side, q, up2, down2)
  BY DEF EdgeAhead
<1> HIDE DEF up, down, up2, down2
<1> QED
  BY <1>1, <1>2, AheadFlips

\* An optional nearer target.
OrNearer(d, range, first) == IF range = None THEN first ELSE NearerOf(d, first, range[1])

\* The opening range, when it is nearer.
LEMMA OrNearerFlips ==
  ASSUME NEW a \in Int, NEW d \in Sides, NEW side, side = FlipSide(d),
         NEW x \in Int, NEW u, u = a - x,
         NEW range \in Optional(Int), NEW image, image = FlipAll(a, range)
  PROVE  OrNearer(d, range, x) \in Int /\ OrNearer(side, image, u) = a - OrNearer(d, range, x)
<1>2. CASE range = None /\ image = None
  BY <1>2 DEF OrNearer
<1>3. ASSUME NEW q \in Int, range = <<q>>, image = <<a - q>>
      PROVE  OrNearer(d, range, x) \in Int /\ OrNearer(side, image, u) = a - OrNearer(d, range, x)
  <2>1. range # None /\ image # None /\ range[1] = q /\ image[1] = a - q
    BY <1>3 DEF None
  <2>2. NearerOf(d, x, q) \in Int /\ NearerOf(side, u, a - q) = a - NearerOf(d, x, q)
    BY NearerFlips
  <2> QED
    BY <2>1, <2>2 DEF OrNearer
<1> QED
  BY FlipOptional, <1>2, <1>3

\* The target of a break of the bands.
LEMMA QcbTargetFlips ==
  ASSUME NEW a, NEW c, NEW k, Mirrored(a, c, k), NEW d \in Sides, NEW side, side = FlipSide(d),
         NEW entry \in Int, NEW sl \in Int, NEW e, e = a - entry, NEW s, s = a - sl
  PROVE  /\ QcbTarget(c, d, entry, sl) \in Int
         /\ QcbTarget(k, side, e, s) = a - QcbTarget(c, d, entry, sl)
<1> DEFINE least == Multiple(d, entry, sl, 200)  least2 == Multiple(side, e, s, 200)
           swing == LaterSwing(c, d, entry)  swing2 == LaterSwing(k, side, e)
           first == TargetOr(swing, d, entry, sl)  first2 == TargetOr(swing2, side, e, s)
           range == EdgeAhead(c, d, entry)  range2 == EdgeAhead(k, side, e)
           nearer == OrNearer(d, range, first)  nearer2 == OrNearer(side, range2, first2)
<1>1. a \in Int
  BY DEF Mirrored
<1>2. QCB.minRR = 200
  BY DEF QCB
<1>3. /\ QcbTarget(c, d, entry, sl) = FurtherOf(d, nearer, least)
      /\ QcbTarget(k, side, e, s) = FurtherOf(side, nearer2, least2)
  BY <1>2 DEF QcbTarget, FurtherOf, OrNearer, NearerOf, TargetOr, LaterSwing, SwingAhead, EdgeAhead, Ahead
<1>4. least \in Int /\ least2 = a - least
  BY <1>1, MultipleFlips
<1>5. swing \in Optional(Int) /\ swing2 = FlipAll(a, swing)
  BY LaterSwingFlips
<1>6. range \in Optional(Int) /\ range2 = FlipAll(a, range)
  BY EdgeAheadFlips
<1> HIDE DEF least, least2, swing, swing2, range, range2
<1>7. first \in Int /\ first2 = a - first
  BY <1>1, <1>5, TargetFlips
<1> HIDE DEF first, first2
<1>8. nearer \in Int /\ nearer2 = a - nearer
  BY <1>1, <1>6, <1>7, OrNearerFlips
<1> HIDE DEF nearer, nearer2
<1>9. /\ FurtherOf(d, nearer, least) \in Int
      /\ FurtherOf(side, nearer2, least2) = a - FurtherOf(d, nearer, least)
  BY <1>1, <1>4, <1>8, NearerFlips
<1> QED
  BY <1>3, <1>9

\* What a compression asks of the clock, the volume and the bands.
QcbReady(x) ==
  /\ 600 <= x.time /\ x.time <= 840 /\ x.n5 >= 26 /\ x.volume >= QCB.volume
  /\ x.squeezed >= QCB.squeeze
Outside(x, entry) == entry > x.bands.upper \/ entry < x.bands.lower
QcbFind(x, d, entry, sl, tp1, htf) ==
  IF QcbReady(x) /\ Outside(x, entry)
  THEN Fixed(x, "QCB", d, entry, sl, tp1, QCB, htf, x.volume) ELSE None

\* Bands a close with a fitting stop is outside of have a mean.
LEMMA QcbMean ==
  ASSUME NEW entry \in Int, NEW b \in Bands, entry > b.upper \/ entry < b.lower,
         NEW d, d = (IF entry > b.upper THEN Long ELSE Short), NEW pad \in Nat,
         NEW sl, sl = Padded(d, b.mid, pad), StopFits(entry, sl, QCB)
  PROVE  b.mid > 0
<1>1. b.lower \in Int /\ b.mid \in Int /\ b.upper \in Int /\ b.lower <= b.mid /\ b.mid <= b.upper
  BY DEF Bands
<1>2. QCB.maxSl = 60
  BY DEF QCB
<1>3. entry > 0 /\ Dist(entry, sl) * 10000 <= 60 * entry
  BY <1>2 DEF StopFits, ShareIn
<1>4. CASE entry > b.upper
  BY <1>4, <1>1, <1>3 DEF Padded, Dist
<1>5. CASE ~ (entry > b.upper)
  BY <1>1, <1>3, <1>5
<1> QED
  BY <1>4, <1>5

\* The break of the bands, from what it reads.
LEMMA QcbIs ==
  ASSUME NEW x, Readable(x), NEW entry \in Int, entry = x.cur.close,
         NEW d, d = (IF entry > x.bands.upper THEN Long ELSE Short),
         NEW pad \in Nat, pad = OfAtr(x, QCB.pad), NEW sl, sl = Padded(d, x.bands.mid, pad),
         NEW tp1, tp1 = QcbTarget(x, d, entry, sl), NEW htf, htf = TrendMatches(x, d)
  PROVE  QuietCompressionBreak(x) = QcbFind(x, d, entry, sl, tp1, htf)
<1> DEFINE Last == x.cur.close
           Pad == OfAtr(x, QCB.pad)
           Way == IF Last > x.bands.upper THEN Long ELSE Short
           Stop == IF Way = Long THEN x.bands.mid - Pad ELSE x.bands.mid + Pad
           Mean == x.bands.mid > 0
           A == 600 <= x.time /\ x.time <= 840
           B == x.n5 >= 26 /\ x.volume >= QCB.volume
           S == x.squeezed >= QCB.squeeze
           O == Last > x.bands.upper \/ Last < x.bands.lower
           F == StopFits(Last, Stop, QCB)
           sig == Signal(x, "QCB", Way, Last, Stop, QcbTarget(x, Way, Last, Stop), "MARKET",
                         TrendMatches(x, Way), x.volume)
<1>1. QuietCompressionBreak(x) = IF A /\ B /\ Mean /\ S /\ O /\ F THEN sig ELSE None
  BY DEF QuietCompressionBreak
<1>2. Last = entry /\ Way = d /\ Stop = sl
  BY DEF Padded
<1> HIDE DEF Last, Way, Stop
<1>3. sig = Signal(x, "QCB", d, entry, sl, tp1, "MARKET", htf, x.volume)
  BY <1>2
<1>4. (A /\ B /\ S) <=> QcbReady(x)
  BY DEF QcbReady
<1>5. (O <=> Outside(x, entry)) /\ (F <=> StopFits(entry, sl, QCB))
  BY <1>2 DEF Outside
<1>6. Outside(x, entry) /\ StopFits(entry, sl, QCB) => Mean
  BY QcbMean DEF Readable, Outside
<1> HIDE DEF A, B, S, O, F, Mean, sig
<1> QED
  BY <1>1, <1>3, <1>4, <1>5, <1>6 DEF QcbFind, Fixed

\* A break of a compression is reflected in one.
LEMMA QcbFlips ==
  ASSUME NEW a, NEW c, NEW k, Mirrored(a, c, k), Quoted(a, c), AtClose(a, c)
  PROVE  Twins(a, c, QuietCompressionBreak(c), QuietCompressionBreak(k))
<1> DEFINE entry == c.cur.close  e == k.cur.close
           d == IF entry > c.bands.upper THEN Long ELSE Short
           side == IF e > k.bands.upper THEN Long ELSE Short
           pad == OfAtr(c, QCB.pad)  pad2 == OfAtr(k, QCB.pad)
           sl == Padded(d, c.bands.mid, pad)  s == Padded(side, k.bands.mid, pad2)
           tp1 == QcbTarget(c, d, entry, sl)  t == QcbTarget(k, side, e, s)
           htf == TrendMatches(c, d)  htf2 == TrendMatches(k, side)
<1>1. a \in Int /\ entry \in Int /\ e = a - entry /\ e \in Int
  BY MirroredBar
<1>2. QCB.pad \in Nat
  BY DEF QCB
<1>3. pad \in Nat /\ pad2 = pad
  BY <1>2, MirroredAtr
<1>4. a = 2 * entry
  BY DEF AtClose, OnAxis
<1>5. /\ k.bands.upper = a - c.bands.lower /\ k.bands.mid = a - c.bands.mid
      /\ k.bands.lower = a - c.bands.upper
      /\ c.bands.lower \in Int /\ c.bands.mid \in Int /\ c.bands.upper \in Int
      /\ c.bands.lower <= c.bands.mid /\ c.bands.mid <= c.bands.upper
      /\ Readable(c) /\ Readable(k)
  BY DEF Mirrored, Readable, TurnedPrices, Bands
<1>6. /\ QuietCompressionBreak(c) = QcbFind(c, d, entry, sl, tp1, htf)
      /\ QuietCompressionBreak(k) = QcbFind(k, side, e, s, t, htf2)
  BY <1>1, <1>3, <1>5, QcbIs
<1>7. Outside(k, e) <=> Outside(c, entry)
  BY <1>1, <1>5 DEF Outside
<1>8. (QcbReady(k) <=> QcbReady(c)) /\ k.volume = c.volume
  BY DEF QcbReady, Mirrored, SameReads
<1>9. CASE QcbReady(c) /\ Outside(c, entry)
  <2>1. d \in Sides /\ side = FlipSide(d)
    BY <1>1, <1>5, <1>9 DEF Outside, Sides, FlipSide, Long, Short
  <2>2. sl \in Int /\ s = a - sl
    <3> HIDE DEF d, side, entry, e, pad, pad2
    <3> QED
      BY <1>1, <1>3, <1>5, <2>1, PaddedFlips
  <2>3. htf \in BOOLEAN /\ htf2 \in BOOLEAN /\ (htf2 <=> htf)
    BY <2>1, HourTurns, LabelsTell
  <2>4. "QCB" = FlipSetup("QCB")
    BY DEF FlipSetup
  <2> HIDE DEF d, side, entry, e, pad, pad2, sl, s, htf, htf2
  <2>5. tp1 \in Int /\ t = a - tp1
    BY <1>1, <2>1, <2>2, QcbTargetFlips
  <2> HIDE DEF tp1, t
  <2> DEFINE volume == c.volume
  <2>6. /\ QuietCompressionBreak(c) = Fixed(c, "QCB", d, entry, sl, tp1, QCB, htf, volume)
        /\ QuietCompressionBreak(k) = Fixed(k, "QCB", side, e, s, t, QCB, htf2, volume)
    BY <1>6, <1>7, <1>8, <1>9 DEF QcbFind
  <2> HIDE DEF volume
  <2> QED
    BY <1>1, <1>4, <2>1, <2>2, <2>3, <2>4, <2>5, <2>6, FixedFlips
<1>10. CASE ~ (QcbReady(c) /\ Outside(c, entry))
  BY <1>6, <1>7, <1>8, <1>10, NoneFound DEF QcbFind
<1> QED
  BY <1>9, <1>10

\* The place of the nearest value of a list, the first of those as near.
IsNearest(p, list, i) ==
  /\ i \in DOMAIN list
  /\ \A j \in DOMAIN list : /\ Dist(list[i], p) <= Dist(list[j], p)
                            /\ j < i => Dist(list[i], p) < Dist(list[j], p)

\* A nearest level of a list that has one.
LEMMA NearestAt ==
  ASSUME NEW list \in Seq(Int), NEW p \in Int
  PROVE  /\ DOMAIN list # {} => \E i \in DOMAIN list : IsNearest(p, list, i)
         /\ \A i : IsNearest(p, list, i) => Nearest(p, list) = <<list[i]>>
<1> DEFINE n == Len(list)
           f == [i \in 1..n |-> Dist(list[i], p)]
           best == {i \in 1..n : \A j \in 1..n : Dist(list[i], p) <= Dist(list[j], p)}
<1>1. n \in Nat /\ DOMAIN list = 1..n /\ \A i \in 1..n : list[i] \in Int
  OBVIOUS
<1>2. \A i \in 1..n : Dist(list[i], p) \in Nat
  BY DistIs, <1>1
<1>3. f \in [1..n -> Int] /\ \A i \in 1..n : f[i] = Dist(list[i], p)
  BY <1>2
<1>4. Nearest(p, list) = IF 1..n = {} THEN None ELSE <<list[Min(best)]>>
  BY <1>1 DEF Nearest, FirstMin
<1> HIDE DEF n
<1>5. best \subseteq Nat /\ best \subseteq 1..n
  BY <1>1
<1> HIDE DEF f
<1>6. \A i \in 1..n : i \in best <=> \A j \in 1..n : Dist(list[i], p) <= Dist(list[j], p)
  OBVIOUS
<1>7. 1..n # {} => best # {}
  <2> SUFFICES ASSUME 1..n # {} PROVE best # {}
    OBVIOUS
  <2>1. PICK i \in 1..n : \A j \in 1..n : f[i] <= f[j]
    BY <1>1, <1>3, BestPlace
  <2> QED
    BY <1>3, <2>1
<1> HIDE DEF best
<1>8. ASSUME 1..n # {}
      PROVE  IsNearest(p, list, Min(best))
  <2> DEFINE m == Min(best)
  <2>1. m \in best /\ \A i \in best : m <= i
    BY <1>5, <1>7, <1>8, Least
  <2> HIDE DEF m
  <2>2. m \in 1..n /\ \A j \in 1..n : Dist(list[m], p) <= Dist(list[j], p)
    BY <1>5, <1>6, <2>1
  <2>3. ASSUME NEW j \in 1..n, j < m PROVE Dist(list[m], p) < Dist(list[j], p)
    <3>1. SUFFICES ASSUME Dist(list[j], p) <= Dist(list[m], p) PROVE FALSE
      BY <1>2, <2>2
    <3>3. j \in best
      BY <1>6, <1>2, <2>2, <3>1
    <3> QED
      BY <1>1, <2>1, <2>2, <2>3, <3>3
  <2>4. IsNearest(p, list, m)
    BY <1>1, <2>2, <2>3 DEF IsNearest
  <2> QED
    BY <2>4 DEF m
<1>9. ASSUME NEW i, NEW j, IsNearest(p, list, i), IsNearest(p, list, j) PROVE i = j
  BY <1>1, <1>2, <1>9 DEF IsNearest
<1>10. \A i : IsNearest(p, list, i) => Nearest(p, list) = <<list[i]>>
  <2> TAKE i
  <2> HAVE IsNearest(p, list, i)
  <2>1. 1..n # {}
    BY <1>1 DEF IsNearest
  <2>2. i = Min(best)
    BY <1>8, <1>9, <2>1
  <2> QED
    BY <1>4, <2>1, <2>2
<1> QED
  BY <1>1, <1>10, <1>8 DEF IsNearest

\* The nearest value of a reflected list is the reflected nearest value.
LEMMA NearestKept ==
  ASSUME NEW a \in Int, NEW p \in Int, NEW list \in Seq(Int), DOMAIN list # {},
         NEW image, image = FlipAll(a, list), NEW q, q = a - p
  PROVE  \E v \in Int : /\ v \in Values(list) /\ Nearest(p, list) = <<v>>
                        /\ Nearest(q, image) = <<a - v>>
<1>1. /\ image \in Seq(Int) /\ DOMAIN image = DOMAIN list
      /\ \A i \in DOMAIN list : image[i] = a - list[i]
  BY FlipAllIs
<1>2. q \in Int
  OBVIOUS
<1>3. PICK i \in DOMAIN list : IsNearest(p, list, i)
  BY NearestAt
<1>4. \A j \in DOMAIN list : list[j] \in Int
  OBVIOUS
<1>5. \A j \in DOMAIN list : Dist(image[j], q) = Dist(list[j], p)
  <2>1. \A x \in Int : Dist(a - x, a - p) = Dist(x, p)
    BY FlipDist
  <2> QED
    BY <1>1, <1>4, <2>1
<1>6. IsNearest(q, image, i)
  BY <1>1, <1>3, <1>5 DEF IsNearest
<1>8. list[i] \in Int /\ list[i] \in Values(list) /\ image[i] = a - list[i]
  BY <1>1, <1>3, <1>4 DEF Values
<1> QED
  BY <1>1, <1>2, <1>3, <1>6, NearestAt, <1>8

\* What the two evaluators at a level end with.
LevelFind(c, setup, cfg, d, entry, sl, target, rr, htf) ==
  IF target # None THEN Drawn(c, setup, d, entry, sl, target[1], cfg, rr, htf) ELSE None

\* A candidate at a level, from what it reads.
LEMMA LevelIs ==
  ASSUME NEW c, NEW setup, NEW cfg, NEW d, NEW level, NEW target, NEW htf,
         NEW entry, entry = c.cur.close, NEW sl, sl = Padded(d, level, OfAtr(c, cfg.pad))
  PROVE  LevelBuild(c, setup, cfg, d, level, target, htf)
           = LevelFind(c, setup, cfg, d, entry, sl, target, cfg.minRR, htf)
<1> DEFINE Last == c.cur.close
           Pad == OfAtr(c, cfg.pad)
           Stop == IF d = Long THEN level - Pad ELSE level + Pad
           A == target # None
           B == StopFits(Last, Stop, cfg)
           P == Pays(Last, Stop, target[1], cfg.minRR)
           sig == Signal(c, setup, d, Last, Stop, target[1], "MARKET", htf, 0)
<1>1. LevelBuild(c, setup, cfg, d, level, target, htf) = IF A /\ B /\ P THEN sig ELSE None
  BY DEF LevelBuild
<1>2. Last = entry /\ Stop = sl
  BY DEF Padded
<1> HIDE DEF Last, Stop
<1>3. sig = Signal(c, setup, d, entry, sl, target[1], "MARKET", htf, 0)
  BY <1>2
<1>4. (B <=> StopFits(entry, sl, cfg)) /\ (P <=> Pays(entry, sl, target[1], cfg.minRR))
  BY <1>2
<1> HIDE DEF A, B, P, sig
<1> QED
  BY <1>1, <1>3, <1>4 DEF LevelFind, Drawn, A

\* What is drawn up at a level is reflected, about the entry.
LEMMA LevelFindFlips ==
  ASSUME NEW a, NEW c, NEW k, Mirrored(a, c, k), Quoted(a, c),
         NEW d \in Sides, NEW side, side = FlipSide(d),
         NEW entry \in Int, NEW sl \in Int, NEW target \in Optional(Int), a = 2 * entry,
         NEW e, e = a - entry, NEW s, s = a - sl, NEW image, image = FlipAll(a, target),
         NEW setup, setup = FlipSetup(setup), NEW htf \in BOOLEAN, NEW htf2 \in BOOLEAN,
         htf2 <=> htf, NEW cfg, NEW rr
  PROVE  Twins(a, c, LevelFind(c, setup, cfg, d, entry, sl, target, rr, htf),
                     LevelFind(k, setup, cfg, side, e, s, image, rr, htf2))
<1>1. a \in Int
  OBVIOUS
<1>3. CASE target = None /\ image = None
  BY <1>3, NoneFound DEF LevelFind
<1>4. ASSUME NEW q \in Int, target = <<q>>, image = <<a - q>>
      PROVE  Twins(a, c, LevelFind(c, setup, cfg, d, entry, sl, target, rr, htf),
                         LevelFind(k, setup, cfg, side, e, s, image, rr, htf2))
  <2> DEFINE t == a - q
  <2>1. target # None /\ image # None /\ target[1] = q /\ image[1] = t
    BY <1>4 DEF None
  <2>2. t = a - q
    OBVIOUS
  <2> HIDE DEF t
  <2>3. Twins(a, c, Drawn(c, setup, d, entry, sl, q, cfg, rr, htf),
                    Drawn(k, setup, side, e, s, t, cfg, rr, htf2))
    BY <2>2, DrawnFlips
  <2> QED
    BY <2>1, <2>3 DEF LevelFind
<1> QED
  BY <1>1, FlipOptional, <1>3, <1>4

\* The swing and the edge of the opening range ahead of the price.
SwingEdge(c, d, p) == Ahead(d, p, SwingHigh(c, 20) \o c.orh, SwingLow(c, 20) \o c.orl)

\* The swing a level aims at.
LEMMA SwingEdgeFlips ==
  ASSUME NEW a, NEW c, NEW k, Mirrored(a, c, k), NEW d \in Sides, NEW side, side = FlipSide(d),
         NEW p \in Int, NEW q, q = a - p
  PROVE  /\ SwingEdge(c, d, p) \in Optional(Int)
         /\ SwingEdge(k, side, q) = FlipAll(a, SwingEdge(c, d, p))
<1> DEFINE hi == SwingHigh(c, 20)  lo == SwingLow(c, 20)
           hi2 == SwingHigh(k, 20)  lo2 == SwingLow(k, 20)
           up == hi \o c.orh  down == lo \o c.orl
           up2 == hi2 \o k.orh  down2 == lo2 \o k.orl
<1>1. /\ k.orh = FlipAll(a, c.orl) /\ k.orl = FlipAll(a, c.orh) /\ a \in Int
      /\ c.orh \in Optional(Int) /\ c.orl \in Optional(Int)
  BY MirroredRange
<1>2. 20 \in Nat
  OBVIOUS
<1>3. hi \in Optional(Int) /\ lo \in Optional(Int) /\ hi2 = FlipAll(a, lo) /\ lo2 = FlipAll(a, hi)
  BY <1>2, MirroredSwings
<1> HIDE DEF hi, lo, hi2, lo2
<1>4. c.orh \in Seq(Int) /\ c.orl \in Seq(Int) /\ hi \in Seq(Int) /\ lo \in Seq(Int)
  BY <1>1, <1>3, ListsHold
<1>5. up \in Seq(Int) /\ down \in Seq(Int)
  BY <1>4
<1>6. up2 = FlipAll(a, down) /\ down2 = FlipAll(a, up)
  <2>1. FlipAll(a, down) = FlipAll(a, lo) \o FlipAll(a, c.orl)
    BY <1>1, <1>4, FlipAllJoins
  <2>2. FlipAll(a, up) = FlipAll(a, hi) \o FlipAll(a, c.orh)
    BY <1>1, <1>4, FlipAllJoins
  <2> QED
    BY <1>1, <1>3, <2>1, <2>2
<1>7. SwingEdge(c, d, p) = Ahead(d, p, up, down) /\ SwingEdge(k, side, q) = Ahead(side, q, up2, down2)
  BY DEF SwingEdge, hi, lo, hi2, lo2
<1> HIDE DEF up, down, up2, down2
<1>8. up2 \in Seq(Int) /\ down2 \in Seq(Int)
  BY <1>1, <1>5, <1>6, FlipAllIs
<1>9. Values(up2) = Reflect(a, Values(down)) /\ Values(down2) = Reflect(a, Values(up))
  BY <1>1, <1>5, <1>6, FlippedValues
<1>10. a \in Int
  BY <1>1
<1> QED
  BY <1>5, <1>7, <1>8, <1>9, <1>10, AheadFlips

\* The levels a crowd extreme is judged at, below the price and above it.
Supports(c) == SwingLow(c, 20) \o <<c.pdl, c.pdc>>
Resistances(c) == SwingHigh(c, 20) \o <<c.pdh, c.pdc>>

\* The lists of the put-call extreme.
LEMMA SupportsFlip ==
  ASSUME NEW a, NEW c, NEW k, Mirrored(a, c, k)
  PROVE  /\ Supports(c) \in Seq(Int) /\ DOMAIN Supports(c) # {}
         /\ Resistances(c) \in Seq(Int) /\ DOMAIN Resistances(c) # {}
         /\ Resistances(k) = FlipAll(a, Supports(c)) /\ Supports(k) = FlipAll(a, Resistances(c))
<1> DEFINE hi == SwingHigh(c, 20)  lo == SwingLow(c, 20)
           hi2 == SwingHigh(k, 20)  lo2 == SwingLow(k, 20)
           low == <<c.pdl, c.pdc>>  high == <<c.pdh, c.pdc>>
           low2 == <<k.pdl, k.pdc>>  high2 == <<k.pdh, k.pdc>>
<1>1. /\ k.pdh = a - c.pdl /\ k.pdl = a - c.pdh /\ k.pdc = a - c.pdc /\ a \in Int
      /\ c.pdh \in Int /\ c.pdl \in Int /\ c.pdc \in Int
  BY MirroredRange
<1>2. 20 \in Nat
  OBVIOUS
<1>3. hi \in Optional(Int) /\ lo \in Optional(Int) /\ hi2 = FlipAll(a, lo) /\ lo2 = FlipAll(a, hi)
  BY <1>2, MirroredSwings
<1>4. ASSUME NEW p \in Int, NEW q \in Int, NEW u, u = a - p, NEW v, v = a - q
      PROVE  <<p, q>> \in Seq(Int) /\ <<u, v>> = FlipAll(a, <<p, q>>)
  <2> DEFINE ps == <<p, q>>  us == <<u, v>>  fs == FlipAll(a, ps)
  <2>1. ps \in Seq(Int) /\ Len(ps) = 2 /\ DOMAIN ps = 1..2 /\ ps[1] = p /\ ps[2] = q
    OBVIOUS
  <2>2. us \in Seq(Int) /\ Len(us) = 2 /\ us[1] = u /\ us[2] = v
    BY <1>1, <1>4
  <2> HIDE DEF ps, us
  <2>3. fs \in Seq(Int) /\ Len(fs) = 2 /\ fs[1] = a - ps[1] /\ fs[2] = a - ps[2]
    BY <1>1, <2>1, FlipAllIs
  <2> HIDE DEF fs
  <2>4. us = fs
    <3>1. \A i \in 1..2 : us[i] = fs[i]
      BY <1>4, <2>1, <2>2, <2>3
    <3> QED
      BY <2>2, <2>3, <3>1, SeqEqual
  <2> QED
    BY <2>1, <2>4 DEF ps, us, fs
<1>5. /\ low \in Seq(Int) /\ high \in Seq(Int)
      /\ high2 = FlipAll(a, low) /\ low2 = FlipAll(a, high)
  BY <1>1, <1>4
<1>6. Len(low) = 2 /\ Len(high) = 2
  OBVIOUS
<1>7. /\ Supports(c) = lo \o low /\ Resistances(c) = hi \o high
      /\ Supports(k) = lo2 \o low2 /\ Resistances(k) = hi2 \o high2
  BY DEF Supports, Resistances
<1> HIDE DEF hi, lo, hi2, lo2, low, high, low2, high2
<1>8. hi \in Seq(Int) /\ lo \in Seq(Int)
  BY <1>3, ListsHold
<1>9. /\ FlipAll(a, lo \o low) = FlipAll(a, lo) \o FlipAll(a, low)
      /\ FlipAll(a, hi \o high) = FlipAll(a, hi) \o FlipAll(a, high)
  BY <1>1, <1>5, <1>8, FlipAllJoins
<1>10. \A s, t \in Seq(Int) : Len(t) = 2 => s \o t \in Seq(Int) /\ DOMAIN (s \o t) # {}
  <2> TAKE s, t \in Seq(Int)
  <2> HAVE Len(t) = 2
  <2> DEFINE st == s \o t
  <2>1. st \in Seq(Int) /\ Len(st) = Len(s) + 2 /\ Len(s) \in Nat /\ DOMAIN st = 1..Len(st)
    <3>1. st \in Seq(Int) /\ Len(st) = Len(s) + Len(t)
      BY ConcatProperties
    <3> HIDE DEF st
    <3> QED
      BY <3>1, LenProperties
  <2> HIDE DEF st
  <2>2. 1 \in DOMAIN st
    BY <2>1
  <2> QED
    BY <2>1, <2>2 DEF st
<1> QED
  BY <1>3, <1>5, <1>6, <1>7, <1>8, <1>9, <1>10

\* A rejection of the level nearest the price, from above and from below.
AtSupport(x, level) ==
  /\ x.n5 >= 2 /\ Len(x.c15) >= 3 /\ x.ready /\ x.pcr = "BEARISH"
  /\ Dist(x.cur.close, level) <= OfAtr(x, PCR.near) /\ x.oiChange > 0
  /\ BullishRejection(x.cur, x.prev, MinRange(x))
AtResistance(x, level) ==
  /\ x.n5 >= 2 /\ Len(x.c15) >= 3 /\ x.ready /\ x.pcr = "BULLISH"
  /\ Dist(x.cur.close, level) <= OfAtr(x, PCR.near) /\ x.oiChange > 0
  /\ BearishRejection(x.cur, x.prev, MinRange(x))
PcrLevel(x, d, level) ==
  LevelBuild(x, "PCR", PCR, d, level, SwingEdge(x, d, x.cur.close), FALSE)

\* The put-call extreme, from its nearest levels.
LEMMA PcrIs ==
  ASSUME NEW x, NEW s, Nearest(x.cur.close, Supports(x)) = <<s>>,
         NEW r, Nearest(x.cur.close, Resistances(x)) = <<r>>
  PROVE  PcrExtreme(x) = IF AtSupport(x, s) THEN PcrLevel(x, Long, s)
                         ELSE IF AtResistance(x, r) THEN PcrLevel(x, Short, r) ELSE None
<1> DEFINE S == Nearest(x.cur.close, SwingLow(x, 20) \o <<x.pdl, x.pdc>>)
           R == Nearest(x.cur.close, SwingHigh(x, 20) \o <<x.pdh, x.pdc>>)
           Ready == x.n5 >= 2 /\ Len(x.c15) >= 3 /\ x.ready
           NearS == Dist(x.cur.close, S[1]) <= OfAtr(x, PCR.near)
           NearR == Dist(x.cur.close, R[1]) <= OfAtr(x, PCR.near)
           Open == x.oiChange > 0
           Up == BullishRejection(x.cur, x.prev, MinRange(x))
           Down == BearishRejection(x.cur, x.prev, MinRange(x))
           A == LevelBuild(x, "PCR", PCR, Long, S[1],
                           NearestAbove(x.cur.close, SwingHigh(x, 20) \o x.orh), FALSE)
           B == LevelBuild(x, "PCR", PCR, Short, R[1],
                           NearestBelow(x.cur.close, SwingLow(x, 20) \o x.orl), FALSE)
<1>1. PcrExtreme(x) = IF Ready /\ x.pcr = "BEARISH"
                      THEN IF NearS /\ Open /\ Up THEN A ELSE None
                      ELSE IF Ready /\ x.pcr = "BULLISH" /\ NearR /\ Open /\ Down THEN B ELSE None
  BY DEF PcrExtreme
<1>2. S[1] = s /\ R[1] = r
  BY DEF Supports, Resistances
<1> HIDE DEF S, R
<1>3. A = PcrLevel(x, Long, s) /\ B = PcrLevel(x, Short, r)
  BY <1>2 DEF Long, Short, PcrLevel, SwingEdge, Ahead
<1>4. /\ (Ready /\ x.pcr = "BEARISH" /\ NearS /\ Open /\ Up) <=> AtSupport(x, s)
      /\ (Ready /\ x.pcr = "BULLISH" /\ NearR /\ Open /\ Down) <=> AtResistance(x, r)
  BY <1>2 DEF AtSupport, AtResistance
<1> HIDE DEF Ready, NearS, NearR, Open, Up, Down, A, B
<1> QED
  BY <1>1, <1>3, <1>4

\* Its candidate at a level.
LEMMA PcrLevelFlips ==
  ASSUME NEW a, NEW c, NEW k, Mirrored(a, c, k), Quoted(a, c), AtClose(a, c),
         NEW d \in Sides, NEW side, side = FlipSide(d), NEW level \in Int,
         NEW image, image = a - level
  PROVE  Twins(a, c, PcrLevel(c, d, level), PcrLevel(k, side, image))
<1> DEFINE entry == c.cur.close  e == k.cur.close
           pad == OfAtr(c, PCR.pad)  pad2 == OfAtr(k, PCR.pad)
           sl == Padded(d, level, pad)  s == Padded(side, image, pad2)
           target == SwingEdge(c, d, entry)  target2 == SwingEdge(k, side, e)
           htf == FALSE
           rr == PCR.minRR
<1>1. a \in Int /\ entry \in Int /\ e = a - entry
  BY MirroredBar
<1>2. PCR.pad \in Nat
  BY DEF PCR
<1>3. pad \in Nat /\ pad2 = pad
  BY <1>2, MirroredAtr
<1>4. a = 2 * entry /\ "PCR" = FlipSetup("PCR") /\ htf \in BOOLEAN
  BY DEF FlipSetup, AtClose, OnAxis
<1>5. /\ PcrLevel(c, d, level) = LevelBuild(c, "PCR", PCR, d, level, target, htf)
      /\ PcrLevel(k, side, image) = LevelBuild(k, "PCR", PCR, side, image, target2, htf)
  BY DEF PcrLevel
<1>6. /\ PcrLevel(c, d, level) = LevelFind(c, "PCR", PCR, d, entry, sl, target, rr, htf)
      /\ PcrLevel(k, side, image) = LevelFind(k, "PCR", PCR, side, e, s, target2, rr, htf)
  <2> HIDE DEF target, target2, htf
  <2> QED
    BY <1>5, LevelIs
<1>7. sl \in Int /\ s = a - sl
  BY <1>1, <1>3, PaddedFlips
<1> HIDE DEF entry, e, pad, pad2, sl, s, htf, rr
<1>8. target \in Optional(Int) /\ target2 = FlipAll(a, target)
  BY <1>1, SwingEdgeFlips
<1> HIDE DEF target, target2
<1> QED
  BY <1>1, <1>4, <1>6, <1>7, <1>8, LevelFindFlips

\* A crowd extreme is reflected in one.
LEMMA PcrFlips ==
  ASSUME NEW a, NEW c, NEW k, Mirrored(a, c, k), Quoted(a, c), AtClose(a, c)
  PROVE  Twins(a, c, PcrExtreme(c), PcrExtreme(k))
<1> DEFINE entry == c.cur.close  e == k.cur.close
<1>1. a \in Int /\ entry \in Int /\ e = a - entry
  BY MirroredBar
<1>2. /\ Supports(c) \in Seq(Int) /\ DOMAIN Supports(c) # {}
      /\ Resistances(c) \in Seq(Int) /\ DOMAIN Resistances(c) # {}
      /\ Resistances(k) = FlipAll(a, Supports(c)) /\ Supports(k) = FlipAll(a, Resistances(c))
  BY SupportsFlip
<1> HIDE DEF entry, e
<1>3. PICK s \in Int : Nearest(entry, Supports(c)) = <<s>> /\ Nearest(e, Resistances(k)) = <<a - s>>
  BY <1>1, <1>2, NearestKept
<1>4. PICK r \in Int : Nearest(entry, Resistances(c)) = <<r>> /\ Nearest(e, Supports(k)) = <<a - r>>
  BY <1>1, <1>2, NearestKept
<1> DEFINE s2 == a - s  r2 == a - r
<1>5. Nearest(e, Resistances(k)) = <<s2>> /\ Nearest(e, Supports(k)) = <<r2>>
  BY <1>3, <1>4
<1>6. s2 = a - s /\ r2 = a - r
  OBVIOUS
<1> HIDE DEF s2, r2
<1>8. PcrExtreme(k) = IF AtSupport(k, r2) THEN PcrLevel(k, Long, r2)
                      ELSE IF AtResistance(k, s2) THEN PcrLevel(k, Short, s2) ELSE None
  BY <1>5, PcrIs DEF e
<1>9. /\ k.n5 = c.n5 /\ Len(k.c15) = Len(c.c15) /\ k.ready = c.ready /\ k.oiChange = c.oiChange
      /\ k.pcr = FlipCrowd(c.pcr) /\ c.pcr \in {"NONE", "BEARISH", "BULLISH"}
  <2>1. Len(k.c15) = Len(c.c15)
    BY BarsKept
  <2>3. k.pcr = FlipCrowd(c.pcr) /\ c.pcr \in {"NONE", "BEARISH", "BULLISH"}
    BY DEF Mirrored, TurnedReads, Readable
  <2> QED
    BY <2>1, <2>3 DEF Mirrored, SameReads
<1>10. PCR.near \in Nat
  BY DEF PCR
<1>11. OfAtr(k, PCR.near) = OfAtr(c, PCR.near)
  BY <1>10, MirroredAtr
<1>12. Dist(e, r2) = Dist(entry, r) /\ Dist(e, s2) = Dist(entry, s)
  BY <1>1, <1>6, FlipDist
<1>13. (k.pcr = "BEARISH" <=> c.pcr = "BULLISH") /\ (k.pcr = "BULLISH" <=> c.pcr = "BEARISH")
  BY <1>9 DEF FlipCrowd
<1>14. AtSupport(k, r2) <=> AtResistance(c, r)
  BY <1>9, <1>11, <1>12, <1>13, MirroredRejections DEF AtSupport, AtResistance, entry, e
<1>15. AtResistance(k, s2) <=> AtSupport(c, s)
  BY <1>9, <1>11, <1>12, <1>13, MirroredRejections DEF AtSupport, AtResistance, entry, e
<1>16. ~ (AtSupport(c, s) /\ AtResistance(c, r))
  BY DEF AtSupport, AtResistance
<1>17. /\ Long \in Sides /\ Short \in Sides /\ FlipSide(Long) = Short /\ FlipSide(Short) = Long
  BY DEF Sides, FlipSide, Long, Short
<1>18. Twins(a, c, PcrLevel(c, Long, s), PcrLevel(k, Short, s2))
  BY <1>6, <1>17, PcrLevelFlips
<1>19. Twins(a, c, PcrLevel(c, Short, r), PcrLevel(k, Long, r2))
  BY <1>6, <1>17, PcrLevelFlips
<1> QED
  BY <1>3, <1>4, PcrIs, <1>8, <1>14, <1>15, <1>16, <1>18, <1>19, NoneFound DEF entry

\* An entry a pad beyond a level, ahead.
Past(d, level, pad) == IF d = Long THEN level + pad ELSE level - pad

\* A price past a level.
LEMMA PastFlips ==
  ASSUME NEW a \in Int, NEW d \in Sides, NEW side, side = FlipSide(d), NEW level \in Int,
         NEW image, image = a - level, NEW pad \in Nat
  PROVE  Past(d, level, pad) \in Int /\ Past(side, image, pad) = a - Past(d, level, pad)
<1>2. Long # Short
  BY DEF Long, Short
<1> QED
  BY <1>2 DEF Past, Sides, FlipSide, Long, Short

\* The stop of a breakout: beyond the open of the bar, if that is beyond the
\* level.
SurgeStop(d, open, level, base) ==
  IF d = Long THEN IF open < level THEN Min({open, base}) ELSE base
  ELSE IF open > level THEN Max({open, base}) ELSE base

\* The stop of a surge.
LEMMA SurgeStopFlips ==
  ASSUME NEW a \in Int, NEW d \in Sides, NEW side, side = FlipSide(d),
         NEW open \in Int, NEW level \in Int, NEW base \in Int,
         NEW o, o = a - open, NEW l, l = a - level, NEW b, b = a - base
  PROVE  /\ SurgeStop(d, open, level, base) \in Int
         /\ SurgeStop(side, o, l, b) = a - SurgeStop(d, open, level, base)
<1>2. Long # Short
  BY DEF Long, Short
<1> DEFINE m == Min({open, base})  n == Max({open, base})  m2 == Min({o, b})  n2 == Max({o, b})
<1>3. m \in Int /\ n \in Int /\ m2 = a - n /\ n2 = a - m
  <2>1. o \in Int /\ b \in Int
    OBVIOUS
  <2>2. /\ Max({open, base}) = IF open >= base THEN open ELSE base
        /\ Min({open, base}) = IF open <= base THEN open ELSE base
    BY OfPair
  <2>3. /\ Max({o, b}) = IF o >= b THEN o ELSE b
        /\ Min({o, b}) = IF o <= b THEN o ELSE b
    BY <2>1, OfPair
  <2> QED
    BY <2>2, <2>3
<1>4. /\ SurgeStop(d, open, level, base)
           = (IF d = Long THEN IF open < level THEN m ELSE base
              ELSE IF open > level THEN n ELSE base)
      /\ SurgeStop(side, o, l, b)
           = (IF side = Long THEN IF o < l THEN m2 ELSE b ELSE IF o > l THEN n2 ELSE b)
  BY DEF SurgeStop
<1> HIDE DEF m, n, m2, n2
<1>5. (o < l <=> open > level) /\ (o > l <=> open < level)
  OBVIOUS
<1> QED
  BY <1>2, <1>3, <1>4, <1>5 DEF Sides, FlipSide, Long, Short

\* What a breakout asks of the volume, the bar and the entry.
SurgeReady(x) == Len(x.c15) >= 3 /\ x.volume >= VSB.volume /\ x.oiChange >= VSB.oi
Broken(x, d, level) ==
  IF d = Long THEN x.cur.high > level /\ x.cur.close > level
  ELSE x.cur.low < level /\ x.cur.close < level
Chased(x, d, entry) ==
  IF d = Long THEN x.cur.close - entry > OfAtr(x, MaxChase)
  ELSE entry - x.cur.close > OfAtr(x, MaxChase)
SurgeSwing(x, d) == IF d = Long THEN SwingHigh(x, VSB.lookback) ELSE SwingLow(x, VSB.lookback)

\* A candidate at a level whose stop fits.
AtLevel(x, setup, d, entry, sl, tp1, cfg, htf) ==
  IF StopFits(entry, sl, cfg) THEN Signal(x, setup, d, entry, sl, tp1, "LEVEL", htf, x.volume)
  ELSE None
SurgeFind(x, setup, d, level, entry, sl, tp1, htf) ==
  IF SurgeReady(x) /\ Broken(x, d, level) /\ ~Chased(x, d, entry)
  THEN AtLevel(x, setup, d, entry, sl, tp1, VSB, htf) ELSE None

\* A surge, from what it reads.
LEMMA SurgeIs ==
  ASSUME NEW x, NEW d, NEW setup, NEW level, SurgeSwing(x, d) = <<level>>,
         NEW entry, entry = Past(d, level, OfAtr(x, VSB.entry)),
         NEW sl, sl = SurgeStop(d, x.cur.open, level, Padded(d, level, OfAtr(x, VSB.pad))),
         NEW tp1, tp1 = StructuralTp1(x, d, entry, sl, 200), NEW htf, htf = TrendMatches(x, d)
  PROVE  VolumeBreakout(x, d, setup) = SurgeFind(x, setup, d, level, entry, sl, tp1, htf)
<1> DEFINE swing == IF d = Long THEN SwingHigh(x, VSB.lookback) ELSE SwingLow(x, VSB.lookback)
           Level == swing[1]
           Brk == IF d = Long THEN x.cur.high > Level /\ x.cur.close > Level
                  ELSE x.cur.low < Level /\ x.cur.close < Level
           Entry == IF d = Long THEN Level + OfAtr(x, VSB.entry) ELSE Level - OfAtr(x, VSB.entry)
           Chs == IF d = Long THEN x.cur.close - Entry > OfAtr(x, MaxChase)
                  ELSE Entry - x.cur.close > OfAtr(x, MaxChase)
           Stop == IF d = Long
            THEN LET base == Level - OfAtr(x, VSB.pad) IN
                   IF x.cur.open < Level THEN Min({x.cur.open, base}) ELSE base
            ELSE LET base == Level + OfAtr(x, VSB.pad) IN
                   IF x.cur.open > Level THEN Max({x.cur.open, base}) ELSE base
           Some == swing # None
           A == Len(x.c15) >= 3 /\ x.volume >= VSB.volume /\ x.oiChange >= VSB.oi
           F == StopFits(Entry, Stop, VSB)
           sig == Signal(x, setup, d, Entry, Stop, StructuralTp1(x, d, Entry, Stop, VSB.rr),
                         "LEVEL", TrendMatches(x, d), x.volume)
<1>1. VolumeBreakout(x, d, setup) = IF A /\ Some /\ Brk /\ ~Chs /\ F THEN sig ELSE None
  BY DEF VolumeBreakout
<1>2. swing = <<level>>
  BY DEF SurgeSwing
<1> HIDE DEF swing
<1>3. Some /\ Level = level
  BY <1>2 DEF None
<1> HIDE DEF Level
<1>4. Entry = entry
  BY <1>3 DEF Past
<1> HIDE DEF Entry
<1>5. Stop = sl
  BY <1>3 DEF SurgeStop, Padded
<1> HIDE DEF Stop
<1>6. (Brk <=> Broken(x, d, level)) /\ (Chs <=> Chased(x, d, entry)) /\ (A <=> SurgeReady(x))
  BY <1>3, <1>4 DEF Broken, Chased, SurgeReady
<1>7. F <=> StopFits(entry, sl, VSB)
  BY <1>4, <1>5
<1>8. sig = Signal(x, setup, d, entry, sl, tp1, "LEVEL", htf, x.volume)
  BY <1>4, <1>5 DEF VSB
<1> HIDE DEF A, Some, Brk, Chs, F, sig
<1> QED
  BY <1>1, <1>3, <1>6, <1>7, <1>8 DEF SurgeFind, AtLevel

\* A breakout whose stop fits on both sides of the axis is reflected, but for
\* a target on the grid of round numbers.
LEMMA AtLevelFlips ==
  ASSUME NEW a, NEW c, NEW k, Mirrored(a, c, k), Quoted(a, c),
         NEW d \in Sides, NEW side, side = FlipSide(d),
         NEW entry \in Int, NEW sl \in Int, NEW e, e = a - entry, NEW s, s = a - sl,
         NEW setup \in GridSetups, NEW name, name = FlipSetup(setup), NEW cfg,
         StopFits(e, s, cfg) <=> StopFits(entry, sl, cfg),
         NEW htf \in BOOLEAN, NEW htf2 \in BOOLEAN, htf2 <=> htf,
         NEW tp1, tp1 = StructuralTp1(c, d, entry, sl, 200),
         NEW t, t = StructuralTp1(k, side, e, s, 200)
  PROVE  Twins(a, c, AtLevel(c, setup, d, entry, sl, tp1, cfg, htf),
                     AtLevel(k, name, side, e, s, t, cfg, htf2))
<1>1. a \in Int
  BY DEF Mirrored
<1>2. e \in Int /\ s \in Int /\ htf2 = htf
  BY <1>1
<1>3. k.volume = c.volume
  BY DEF Mirrored, SameReads
<1>4. CASE StopFits(entry, sl, cfg)
  <2>1. entry > 0 /\ e > 0 /\ sl # entry
    BY <1>4 DEF StopFits
  <2> DEFINE volume == c.volume  type == "LEVEL"
  <2> HIDE DEF volume, type
  <2>3. Twins(a, c, Signal(c, setup, d, entry, sl, tp1, type, htf, volume),
                    Signal(k, name, side, e, s, t, type, htf, volume))
    BY <1>2, <2>1, StructuralFlips, SignalFlips
  <2> QED
    BY <1>2, <1>3, <1>4, <2>3 DEF AtLevel, volume, type
<1>5. CASE ~StopFits(entry, sl, cfg)
  BY <1>5, NoneFound DEF AtLevel
<1> QED
  BY <1>4, <1>5

\* A level broken and a level chased.
LEMMA BrokenTurns ==
  ASSUME NEW a, NEW c, NEW k, Mirrored(a, c, k), NEW d \in Sides, NEW side, side = FlipSide(d),
         NEW p \in Int, NEW q, q = a - p
  PROVE  (Broken(k, side, q) <=> Broken(c, d, p)) /\ (Chased(k, side, q) <=> Chased(c, d, p))
<1>1. /\ a \in Int /\ c.cur.close \in Int /\ k.cur.close = a - c.cur.close
      /\ c.cur.high \in Int /\ c.cur.low \in Int
      /\ k.cur.high = a - c.cur.low /\ k.cur.low = a - c.cur.high
  BY MirroredBar
<1>2. MaxChase \in Nat
  BY DEF MaxChase
<1>4. (d = Long /\ side = Short) \/ (d = Short /\ side = Long)
  BY DEF Sides, FlipSide, Long, Short
<1>5. Long # Short
  BY DEF Long, Short
<1>6. Broken(k, side, q) <=> Broken(c, d, p)
  BY <1>1, <1>4, <1>5 DEF Broken
<1> DEFINE chase == OfAtr(c, MaxChase)
<1>7. /\ Chased(c, d, p) <=> IF d = Long THEN c.cur.close - p > chase ELSE p - c.cur.close > chase
      /\ Chased(k, side, q)
           <=> IF side = Long THEN k.cur.close - q > chase ELSE q - k.cur.close > chase
      /\ chase \in Nat
  BY <1>2, MirroredAtr DEF Chased
<1> HIDE DEF chase
<1>8. Chased(k, side, q) <=> Chased(c, d, p)
  BY <1>1, <1>4, <1>5, <1>7
<1> QED
  BY <1>6, <1>8

\* A breakout is reflected in a breakdown, about the entry.
LEMMA SurgeFlips ==
  ASSUME NEW a, NEW c, NEW k, Mirrored(a, c, k), Quoted(a, c),
         NEW d \in Sides, NEW side, side = FlipSide(d),
         NEW setup \in GridSetups, NEW name, name = FlipSetup(setup),
         SurgeSwing(c, d) # None =>
           a = 2 * Past(d, SurgeSwing(c, d)[1], OfAtr(c, VSB.entry))
  PROVE  Twins(a, c, VolumeBreakout(c, d, setup), VolumeBreakout(k, side, name))
<1>1. VSB.lookback \in Nat /\ a \in Int /\ VSB.entry \in Nat /\ VSB.pad \in Nat
  BY DEF VSB, Mirrored
<1>3. Long # Short
  BY DEF Long, Short
<1> DEFINE swing == SurgeSwing(c, d)  swing2 == SurgeSwing(k, side)
<1>4. swing \in Optional(Int) /\ swing2 = FlipAll(a, swing)
  <2> DEFINE n == VSB.lookback
             hi == SwingHigh(c, n)  lo == SwingLow(c, n)  hi2 == SwingHigh(k, n)  lo2 == SwingLow(k, n)
  <2>1. hi \in Optional(Int) /\ lo \in Optional(Int) /\ hi2 = FlipAll(a, lo) /\ lo2 = FlipAll(a, hi)
    BY <1>1, MirroredSwings
  <2>2. swing = (IF d = Long THEN hi ELSE lo) /\ swing2 = (IF side = Long THEN hi2 ELSE lo2)
    BY DEF SurgeSwing
  <2> HIDE DEF hi, lo, hi2, lo2
  <2> QED
    BY <1>3, <2>1, <2>2 DEF Sides, FlipSide, Long, Short
<1> HIDE DEF swing, swing2
<1>6. CASE swing = None /\ swing2 = None
  BY <1>6, NoneFound DEF VolumeBreakout, SurgeSwing, swing, swing2
<1>7. ASSUME NEW level \in Int, swing = <<level>>, swing2 = <<a - level>>
      PROVE  Twins(a, c, VolumeBreakout(c, d, setup), VolumeBreakout(k, side, name))
  <2> DEFINE image == a - level
             far == OfAtr(c, VSB.entry)  far2 == OfAtr(k, VSB.entry)
             pad == OfAtr(c, VSB.pad)  pad2 == OfAtr(k, VSB.pad)
             open == c.cur.open  open2 == k.cur.open
             entry == Past(d, level, far)  e == Past(side, image, far2)
             base == Padded(d, level, pad)  base2 == Padded(side, image, pad2)
             sl == SurgeStop(d, open, level, base)  s == SurgeStop(side, open2, image, base2)
             tp1 == StructuralTp1(c, d, entry, sl, 200)  t == StructuralTp1(k, side, e, s, 200)
             htf == TrendMatches(c, d)  htf2 == TrendMatches(k, side)
  <2>1. image = a - level /\ far \in Nat /\ far2 = far /\ pad \in Nat /\ pad2 = pad
    BY <1>1, MirroredAtr
  <2>2. open \in Int /\ open2 = a - open
    BY MirroredBar
  <2>3. htf \in BOOLEAN /\ htf2 \in BOOLEAN /\ (htf2 <=> htf)
    BY HourTurns, LabelsTell
  <2>4. /\ VolumeBreakout(c, d, setup) = SurgeFind(c, setup, d, level, entry, sl, tp1, htf)
        /\ VolumeBreakout(k, side, name) = SurgeFind(k, name, side, image, e, s, t, htf2)
    BY <1>7, SurgeIs DEF swing, swing2
  <2>5. a = 2 * entry
    BY <1>7 DEF swing, None
  <2> HIDE DEF image, far, far2, pad, pad2, open, open2, htf, htf2
  <2>6. entry \in Int /\ e = a - entry
    BY <1>1, <2>1, PastFlips
  <2>7. base \in Int /\ base2 = a - base
    BY <1>1, <2>1, PaddedFlips
  <2> HIDE DEF entry, e, base, base2
  <2>8. sl \in Int /\ s = a - sl
    BY <1>1, <2>1, <2>2, <2>7, SurgeStopFlips
  <2> HIDE DEF sl, s
  <2>9. StopFits(e, s, VSB) <=> StopFits(entry, sl, VSB)
    BY <1>1, <2>5, <2>6, <2>8, FitFlips
  <2>10. tp1 = StructuralTp1(c, d, entry, sl, 200) /\ t = StructuralTp1(k, side, e, s, 200)
    OBVIOUS
  <2> HIDE DEF tp1, t
  <2> DEFINE cfg == VSB
  <2> HIDE DEF cfg
  <2>11. Twins(a, c, AtLevel(c, setup, d, entry, sl, tp1, cfg, htf),
                     AtLevel(k, name, side, e, s, t, cfg, htf2))
    BY <2>9, <2>3, <2>6, <2>8, <2>10, AtLevelFlips DEF cfg
  <2>12. (Broken(k, side, image) <=> Broken(c, d, level)) /\ (Chased(k, side, e) <=> Chased(c, d, entry))
    BY <2>1, <2>6, BrokenTurns
  <2>13. SurgeReady(k) <=> SurgeReady(c)
    BY BarsKept DEF Mirrored, SameReads, SurgeReady
  <2> QED
    BY <2>4, <2>11, <2>12, <2>13, NoneFound DEF SurgeFind, cfg
<1> QED
  BY <1>1, <1>4, FlipOptional, <1>6, <1>7

\* A candidate and its image, when both stops may be judged from either
\* entry, are found together.
LEMMA BothFit ==
  ASSUME NEW a \in Int, NEW entry \in Int, NEW sl \in Int, NEW e, e = a - entry,
         NEW s, s = a - sl, NEW setup \in {"ORB", "SRF", "OIS"}, NEW cfg, cfg = Band(setup),
         NEW found, NEW image, Refits(a, found), Refits(a, image),
         StopFits(entry, sl, cfg) =>
           /\ found # None /\ found[1].setup = setup
           /\ found[1].entry = entry /\ found[1].sl = sl,
         StopFits(e, s, cfg) =>
           /\ image # None /\ image[1].setup = setup
           /\ image[1].entry = e /\ image[1].sl = s
  PROVE  StopFits(e, s, cfg) <=> StopFits(entry, sl, cfg)
<1>1. setup \in {"ORB"} \cup RoundSetups
  BY DEF RoundSetups
<1>2. ASSUME StopFits(entry, sl, cfg) PROVE StopFits(e, s, cfg)
  BY <1>1, <1>2 DEF Refits
<1>3. ASSUME StopFits(e, s, cfg) PROVE StopFits(entry, sl, cfg)
  BY <1>1, <1>3 DEF Refits
<1> QED
  BY <1>2, <1>3

\* What an opening range breakout asks, and the way the price left.
OrbReady(x, high, low) ==
  /\ x.orLocked /\ x.time <= ORB.until /\ x.cur.close > 0
  /\ ShareIn(high - low, x.cur.close, ORB.minRange, ORB.maxRange)
  /\ x.volume >= ORB.volume
OutOf(x, d, entry) == IF d = Long THEN x.cur.close > entry ELSE x.cur.close < entry
OrbTo(x, d, entry, sl) == IF Chased(x, d, entry) THEN None ELSE OrbBuild(x, d, entry, sl)

\* The opening range breakout, from its range.
LEMMA OrbIs ==
  ASSUME NEW x, NEW high, x.orh = <<high>>, NEW low, x.orl = <<low>>,
         NEW top, top = high + OfAtr(x, ORB.buffer),
         NEW bottom, bottom = low - OfAtr(x, ORB.buffer)
  PROVE  OpeningRangeBreakout(x) =
           IF OrbReady(x, high, low) /\ OutOf(x, Long, top) THEN OrbTo(x, Long, top, bottom)
           ELSE IF OrbReady(x, high, low) /\ OutOf(x, Short, bottom)
           THEN OrbTo(x, Short, bottom, top) ELSE None
<1> DEFINE Last == x.cur.close
           Buffer == OfAtr(x, ORB.buffer)
           Top == x.orh[1] + Buffer
           Bottom == x.orl[1] - Buffer
           Ready == /\ x.orLocked /\ x.time <= ORB.until
                    /\ x.orh # None /\ x.orl # None /\ Last > 0
                    /\ ShareIn(x.orh[1] - x.orl[1], Last, ORB.minRange, ORB.maxRange)
                    /\ x.volume >= ORB.volume
           Rise == IF Last - Top > OfAtr(x, MaxChase) THEN None ELSE OrbBuild(x, Long, Top, Bottom)
           Fall == IF Bottom - Last > OfAtr(x, MaxChase) THEN None ELSE OrbBuild(x, Short, Bottom, Top)
           Out == Last > Top
           Under == Last < Bottom
<1>1. OpeningRangeBreakout(x) = IF ~Ready THEN None ELSE IF Out THEN Rise ELSE IF Under THEN Fall
                                ELSE None
  BY DEF OpeningRangeBreakout
<1>2. Ready <=> OrbReady(x, high, low)
  BY DEF OrbReady, None
<1>3. Top = top /\ Bottom = bottom
  OBVIOUS
<1>4. Long # Short
  BY DEF Long, Short
<1> HIDE DEF Top, Bottom, Ready
<1>5. Rise = OrbTo(x, Long, top, bottom)
  BY <1>3 DEF OrbTo, Chased
<1>6. Fall = OrbTo(x, Short, bottom, top)
  BY <1>3, <1>4 DEF OrbTo, Chased
<1>7. (Out <=> OutOf(x, Long, top)) /\ (Under <=> OutOf(x, Short, bottom))
  BY <1>3, <1>4 DEF OutOf
<1> HIDE DEF Rise, Fall, Out, Under
<1> QED
  BY <1>1, <1>2, <1>5, <1>6, <1>7

\* Its candidate, from what it reads.
LEMMA OrbBuildIs ==
  ASSUME NEW x, NEW d, NEW entry, NEW sl, NEW tp1, tp1 = StructuralTp1(x, d, entry, sl, 200),
         NEW htf, htf = TrendMatches(x, d), NEW cfg, cfg = ORB
  PROVE  OrbBuild(x, d, entry, sl) = AtLevel(x, "ORB", d, entry, sl, tp1, cfg, htf)
<1>1. ORB.rr = 200
  BY DEF ORB
<1> QED
  BY <1>1 DEF OrbBuild, AtLevel

\* What is found at a level has the entry and the stop it was drawn with.
LEMMA AtLevelHas ==
  ASSUME NEW x, NEW setup, NEW d, NEW entry, NEW sl, NEW tp1, NEW cfg, NEW htf,
         StopFits(entry, sl, cfg)
  PROVE  LET found == AtLevel(x, setup, d, entry, sl, tp1, cfg, htf) IN
         /\ found # None /\ found[1].setup = setup
         /\ found[1].entry = entry /\ found[1].sl = sl
BY DEF AtLevel, Signal, None

\* A breakout of the range is reflected in a breakout of the range.
LEMMA OrbToFlips ==
  ASSUME NEW a, NEW c, NEW k, Mirrored(a, c, k), Quoted(a, c),
         NEW d \in Sides, NEW side, side = FlipSide(d),
         NEW entry \in Int, NEW sl \in Int, NEW e, e = a - entry, NEW s, s = a - sl,
         Refits(a, OrbTo(c, d, entry, sl)), Refits(a, OrbTo(k, side, e, s))
  PROVE  Twins(a, c, OrbTo(c, d, entry, sl), OrbTo(k, side, e, s))
<1> DEFINE tp1 == StructuralTp1(c, d, entry, sl, 200)
           t == StructuralTp1(k, side, e, s, 200)
           htf == TrendMatches(c, d)
           htf2 == TrendMatches(k, side)
           cfg == ORB
           found == AtLevel(c, "ORB", d, entry, sl, tp1, cfg, htf)
           image == AtLevel(k, "ORB", side, e, s, t, cfg, htf2)
<1>1. a \in Int
  BY DEF Mirrored
<1>2. Chased(k, side, e) <=> Chased(c, d, entry)
  BY BrokenTurns
<1>3. CASE Chased(c, d, entry)
  BY <1>2, <1>3, NoneFound DEF OrbTo
<1>4. ASSUME ~Chased(c, d, entry) PROVE Twins(a, c, OrbTo(c, d, entry, sl), OrbTo(k, side, e, s))
  BY OrbBuildIs, <1>2, <1>4, HourTurns, LabelsTell, AtLevelHas, <1>1, BothFit, AtLevelFlips DEF
     OrbTo, Band, GridSetups, FlipSetup
<1> QED
  BY <1>3, <1>4

\* Whether the range is one to break out of.
LEMMA OrbReadyTurns ==
  ASSUME NEW a, NEW c, NEW k, Mirrored(a, c, k), AtClose(a, c),
         NEW high \in Int, NEW low \in Int, NEW hi, hi = a - low, NEW lo, lo = a - high
  PROVE  /\ OrbReady(k, hi, lo) <=> OrbReady(c, high, low)
         /\ OrbReady(c, high, low) => high > low
<1>1. a \in Int /\ c.cur.close \in Int /\ k.cur.close = a - c.cur.close
  BY MirroredBar
<1>2. k.cur.close = c.cur.close
  BY <1>1 DEF AtClose, OnAxis
<1>3. hi - lo = high - low
  BY <1>1
<1>5. OrbReady(k, hi, lo) <=> OrbReady(c, high, low)
  BY <1>2, <1>3 DEF OrbReady, Mirrored, SameReads
<1>6. ASSUME OrbReady(c, high, low) PROVE high > low
  BY <1>6, <1>1 DEF OrbReady, ShareIn, ORB
<1> QED
  BY <1>5, <1>6

\* Whether the price is out of it.
LEMMA OutTurns ==
  ASSUME NEW a, NEW c, NEW k, Mirrored(a, c, k), NEW d \in Sides, NEW side, side = FlipSide(d),
         NEW p \in Int, NEW q, q = a - p
  PROVE  OutOf(k, side, q) <=> OutOf(c, d, p)
<1>2. (d = Long /\ side = Short) \/ (d = Short /\ side = Long)
  BY DEF Sides, FlipSide, Long, Short
<1>3. Long # Short
  BY DEF Long, Short
<1> QED
  BY MirroredBar, <1>2, <1>3 DEF OutOf

\* An opening range breakout is reflected in the last price.
LEMMA OrbFlips ==
  ASSUME NEW a, NEW c, NEW k, Mirrored(a, c, k), Quoted(a, c), AtClose(a, c),
         Refits(a, OpeningRangeBreakout(c)), Refits(a, OpeningRangeBreakout(k))
  PROVE  Twins(a, c, OpeningRangeBreakout(c), OpeningRangeBreakout(k))
<1>1. /\ a \in Int /\ c.orh \in Optional(Int) /\ c.orl \in Optional(Int)
      /\ k.orh = FlipAll(a, c.orl) /\ k.orl = FlipAll(a, c.orh)
  BY MirroredRange
<1>2. CASE c.orh = None \/ c.orl = None
  BY <1>1, 0 \in Int, FlipOne, <1>2, NoneFound DEF OpeningRangeBreakout
<1>3. ASSUME NEW high \in Int, c.orh = <<high>>, NEW low \in Int, c.orl = <<low>>
      PROVE  Twins(a, c, OpeningRangeBreakout(c), OpeningRangeBreakout(k))
  <2> DEFINE hi == a - low  lo == a - high
             buffer == OfAtr(c, ORB.buffer)  buffer2 == OfAtr(k, ORB.buffer)
             top == high + buffer  bottom == low - buffer
             top2 == hi + buffer2  bottom2 == lo - buffer2
             ready == OrbReady(c, high, low)  ready2 == OrbReady(k, hi, lo)
             up == OutOf(c, Long, top)  up2 == OutOf(k, Long, top2)
             down == OutOf(c, Short, bottom)  down2 == OutOf(k, Short, bottom2)
             rise == OrbTo(c, Long, top, bottom)  rise2 == OrbTo(k, Long, top2, bottom2)
             fall == OrbTo(c, Short, bottom, top)  fall2 == OrbTo(k, Short, bottom2, top2)
             orb == OpeningRangeBreakout(c)  orb2 == OpeningRangeBreakout(k)
  <2>1. k.orh = <<hi>> /\ k.orl = <<lo>>
    BY <1>1, FlipOne, <1>3
  <2>2. ORB.buffer \in Nat
    BY DEF ORB
  <2>3. buffer \in Nat /\ buffer2 = buffer
    BY <2>2, MirroredAtr
  <2>4. orb = IF ready /\ up THEN rise ELSE IF ready /\ down THEN fall ELSE None
    BY <1>3, OrbIs
  <2>5. orb2 = IF ready2 /\ up2 THEN rise2 ELSE IF ready2 /\ down2 THEN fall2 ELSE None
    BY <2>1, OrbIs
  <2>6. (ready2 <=> ready) /\ (ready => high > low)
    BY OrbReadyTurns DEF ready, ready2
  <2>7. /\ top \in Int /\ bottom \in Int /\ top2 = a - bottom /\ bottom2 = a - top
        /\ high > low => top > bottom
    BY <1>1, <2>3
  <2>8. Long \in Sides /\ Short \in Sides /\ Short = FlipSide(Long) /\ Long = FlipSide(Short)
    BY DEF Sides, FlipSide, Long, Short
  <2> HIDE DEF top, bottom, top2, bottom2, orb, orb2
  <2>9. (down2 <=> up) /\ (up2 <=> down)
    BY <2>7, <2>8, OutTurns
  <2>10. ASSUME ready, up PROVE ~down
    BY MirroredBar, <2>6, <2>7, <2>10 DEF Long, Short, OutOf
  <2>11. Refits(a, orb) /\ Refits(a, orb2)
    BY DEF orb, orb2
  <2>12. ASSUME Refits(a, rise), Refits(a, fall2) PROVE Twins(a, c, rise, fall2)
    BY <2>7, <2>8, <2>12, OrbToFlips
  <2>13. ASSUME Refits(a, fall), Refits(a, rise2) PROVE Twins(a, c, fall, rise2)
    BY <2>7, <2>8, <2>13, OrbToFlips
  <2> HIDE DEF ready, ready2, up, up2, down, down2, rise, rise2, fall, fall2
  <2>14. CASE ready /\ up
    BY <2>4, <2>5, <2>6, <2>9, <2>10, <2>14, <2>11, <2>12 DEF orb, orb2
  <2>15. CASE ready /\ ~up /\ down
    BY <2>4, <2>5, <2>6, <2>9, <2>15, <2>11, <2>13 DEF orb, orb2
  <2>16. CASE ~ready \/ (~up /\ ~down)
    BY <2>4, <2>5, <2>6, <2>9, <2>16, NoneFound DEF orb, orb2
  <2> QED
    BY <2>14, <2>15, <2>16
<1> QED
  BY <1>2, <1>3, <1>1, OptionalInt

\* The round number a price is reflected in, when it lies nearer to it than
\* to any other.
LEMMA RoundTurns ==
  ASSUME NEW p \in Int, NEW step \in {50, 100}, 2 * (p % step) # step,
         NEW r, r = RoundTo(p, step), NEW q, q = 2 * r - p
  PROVE  /\ r \in Int /\ RoundTo(q, step) = r
         /\ Dist(r, p) < Dist(r - step, p) /\ Dist(r, p) < Dist(r + step, p)
<1>1. CASE step = 50
  <2>1. r = 50 * (IF 2 * (p % 50) < 50 THEN p \div 50 ELSE p \div 50 + 1)
    BY <1>1 DEF RoundTo
  <2>2. /\ p = 50 * (p \div 50) + (p % 50) /\ 0 <= p % 50 /\ p % 50 < 50
        /\ p \div 50 \in Int /\ p % 50 \in Int
    OBVIOUS
  <2>3. r \in Int /\ 2 * (r - p) < 50 /\ 2 * (p - r) < 50 /\ (r = 50 * (p \div 50) \/ r = 50 * (p \div 50) + 50)
    BY <1>1, <2>1, <2>2
  <2> DEFINE m == IF 2 * (p % 50) < 50 THEN p \div 50 ELSE p \div 50 + 1
  <2>4. m \in Int /\ r = 50 * m
    BY <2>1, <2>2
  <2> HIDE DEF m
  <2>6. RoundTo(q, 50) = 50 * (IF 2 * (q % 50) < 50 \/ (2 * (q % 50) = 50 /\ (q \div 50) % 2 = 0)
                               THEN q \div 50 ELSE q \div 50 + 1)
    BY DEF RoundTo
  <2>7. RoundTo(q, 50) = r
    BY <2>3, <2>4, <2>6
  <2> QED
    BY <1>1, <2>3, <2>7 DEF Dist
<1>2. CASE step = 100
  <2>1. r = 100 * (IF 2 * (p % 100) < 100 THEN p \div 100 ELSE p \div 100 + 1)
    BY <1>2 DEF RoundTo
  <2>2. /\ p = 100 * (p \div 100) + (p % 100) /\ 0 <= p % 100 /\ p % 100 < 100
        /\ p \div 100 \in Int /\ p % 100 \in Int
    OBVIOUS
  <2>3. r \in Int /\ 2 * (r - p) < 100 /\ 2 * (p - r) < 100 /\ (r = 100 * (p \div 100) \/ r = 100 * (p \div 100) + 100)
    BY <1>2, <2>1, <2>2
  <2> DEFINE m == IF 2 * (p % 100) < 100 THEN p \div 100 ELSE p \div 100 + 1
  <2>4. m \in Int /\ r = 100 * m
    BY <2>1, <2>2
  <2> HIDE DEF m
  <2>6. RoundTo(q, 100) = 100 * (IF 2 * (q % 100) < 100 \/ (2 * (q % 100) = 100 /\ (q \div 100) % 2 = 0)
                               THEN q \div 100 ELSE q \div 100 + 1)
    BY DEF RoundTo
  <2>7. RoundTo(q, 100) = r
    BY <2>3, <2>4, <2>6
  <2> QED
    BY <1>2, <2>3, <2>7 DEF Dist
<1> QED
  BY <1>1, <1>2

\* A candidate whose stop fits in both directions is reflected.
LEMMA DrawnKept ==
  ASSUME NEW a, NEW c, NEW k, Mirrored(a, c, k), Quoted(a, c),
         NEW d \in Sides, NEW side, side = FlipSide(d),
         NEW entry \in Int, NEW sl \in Int, NEW tp1 \in Int,
         NEW e, e = a - entry, NEW s, s = a - sl, NEW t, t = a - tp1,
         NEW cfg, StopFits(e, s, cfg) <=> StopFits(entry, sl, cfg),
         NEW setup, setup = FlipSetup(setup), NEW htf \in BOOLEAN, NEW htf2 \in BOOLEAN,
         htf2 <=> htf, NEW rr
  PROVE  Twins(a, c, Drawn(c, setup, d, entry, sl, tp1, cfg, rr, htf),
                     Drawn(k, setup, side, e, s, t, cfg, rr, htf2))
<1>1. a \in Int
  BY DEF Mirrored
<1>2. Pays(e, s, t, rr) <=> Pays(entry, sl, tp1, rr)
  BY <1>1, PaysFlips
<1>3. e \in Int /\ s \in Int /\ t \in Int /\ htf2 = htf
  BY <1>1
<1>4. CASE StopFits(entry, sl, cfg) /\ Pays(entry, sl, tp1, rr)
  BY <1>4, <1>3, SignalFlips, <1>2 DEF StopFits, Drawn
<1>5. CASE ~ (StopFits(entry, sl, cfg) /\ Pays(entry, sl, tp1, rr))
  BY <1>2, <1>5, NoneFound DEF Drawn
<1> QED
  BY <1>4, <1>5

\* A candidate at a level, whatever its entry.
LEMMA LevelKept ==
  ASSUME NEW a, NEW c, NEW k, Mirrored(a, c, k), Quoted(a, c),
         NEW d \in Sides, NEW side, side = FlipSide(d),
         NEW entry \in Int, NEW sl \in Int, NEW target \in Optional(Int),
         NEW e, e = a - entry, NEW s, s = a - sl, NEW image, image = FlipAll(a, target),
         NEW setup \in {"SRF", "OIS"}, NEW htf \in BOOLEAN, NEW htf2 \in BOOLEAN,
         htf2 <=> htf, NEW cfg, cfg = Band(setup), NEW rr,
         Refits(a, LevelFind(c, setup, cfg, d, entry, sl, target, rr, htf)),
         Refits(a, LevelFind(k, setup, cfg, side, e, s, image, rr, htf2))
  PROVE  Twins(a, c, LevelFind(c, setup, cfg, d, entry, sl, target, rr, htf),
                     LevelFind(k, setup, cfg, side, e, s, image, rr, htf2))
<1> DEFINE found == LevelFind(c, setup, cfg, d, entry, sl, target, rr, htf)
           other == LevelFind(k, setup, cfg, side, e, s, image, rr, htf2)
<1>1. a \in Int
  BY DEF Mirrored
<1>3. CASE target = None /\ image = None
  BY <1>3, NoneFound DEF LevelFind
<1>4. ASSUME NEW q \in Int, target = <<q>>, image = <<a - q>>
      PROVE  Twins(a, c, found, other)
  <2> DEFINE t == a - q
             pays == Pays(entry, sl, q, rr)  pays2 == Pays(e, s, t, rr)
  <2>2. t = a - q
    OBVIOUS
  <2>3. pays2 <=> pays
    BY <1>1, PaysFlips
  <2>4. /\ found = Drawn(c, setup, d, entry, sl, q, cfg, rr, htf)
        /\ other = Drawn(k, setup, side, e, s, t, cfg, rr, htf2)
    BY <1>4 DEF LevelFind, None
  <2>5. CASE ~pays
    BY <2>3, <2>4, <2>5, NoneFound DEF Drawn
  <2>6. CASE pays
    <3>1. /\ StopFits(entry, sl, cfg) =>
               /\ found # None /\ found[1].setup = setup
               /\ found[1].entry = entry /\ found[1].sl = sl
          /\ StopFits(e, s, cfg) =>
               /\ other # None /\ other[1].setup = setup
               /\ other[1].entry = e /\ other[1].sl = s
      BY <2>3, <2>4, <2>6 DEF Drawn, Signal, None
    <3>2. Refits(a, found) /\ Refits(a, other)
      OBVIOUS
    <3> HIDE DEF found, other, t
    <3>3. setup \in {"ORB", "SRF", "OIS"} /\ setup = FlipSetup(setup)
      BY DEF FlipSetup
    <3>4. StopFits(e, s, cfg) <=> StopFits(entry, sl, cfg)
      BY <1>1, <3>1, <3>2, <3>3, BothFit
    <3> QED
      BY <2>4, <2>2, <3>3, <3>4, DrawnKept
  <2> QED
    BY <2>5, <2>6
<1> QED
  BY <1>1, FlipOptional, <1>3, <1>4

\* Of two values at the end of a list, the further is never the nearest, in
\* either order.
LEMMA LastTwo ==
  ASSUME NEW list \in Seq(Int), NEW p \in Int, NEW r \in Int, NEW w \in Int,
         Dist(r, p) < Dist(w, p)
  PROVE  Nearest(p, list \o <<r, w>>) = Nearest(p, list \o <<w, r>>)
<1> DEFINE n == Len(list)
           s == list \o <<r, w>>
           t == list \o <<w, r>>
<1>1. /\ n \in Nat /\ DOMAIN list = 1..n
      /\ <<r, w>> \in Seq(Int) /\ Len(<<r, w>>) = 2 /\ <<w, r>> \in Seq(Int) /\ Len(<<w, r>>) = 2
      /\ <<r, w>>[1] = r /\ <<r, w>>[2] = w /\ <<w, r>>[1] = w /\ <<w, r>>[2] = r
  OBVIOUS
<1>2. /\ s \in Seq(Int) /\ Len(s) = n + 2 /\ \A j \in 1..n : s[j] = list[j]
      /\ s[n + 1] = r /\ s[n + 2] = w
  <2> DEFINE u == <<r, w>>
  <2>1. u \in Seq(Int) /\ Len(u) = 2 /\ u[1] = r /\ u[2] = w
    OBVIOUS
  <2> HIDE DEF u
  <2>2. /\ list \o u \in Seq(Int) /\ Len(list \o u) = Len(list) + Len(u)
        /\ \A j \in 1..(Len(list) + Len(u)) :
             (list \o u)[j] = IF j <= Len(list) THEN list[j] ELSE u[j - Len(list)]
    BY <2>1, ConcatProperties
  <2>3. \A j \in 1..(n + 2) : (list \o u)[j] = IF j <= n THEN list[j] ELSE u[j - n]
    BY <2>1, <2>2
  <2> HIDE DEF n
  <2>4. (list \o u)[n + 1] = u[1] /\ (list \o u)[n + 2] = u[2]
    <3>1. /\ n + 1 \in 1..(n + 2) /\ n + 2 \in 1..(n + 2) /\ ~ (n + 1 <= n) /\ ~ (n + 2 <= n)
          /\ (n + 1) - n = 1 /\ (n + 2) - n = 2
      BY <1>1
    <3> QED
      BY <3>1, <2>3
  <2>5. \A j \in 1..n : (list \o u)[j] = list[j]
    BY <1>1, <2>3
  <2> QED
    BY <2>1, <2>2, <2>4, <2>5 DEF u, n
<1>3. /\ t \in Seq(Int) /\ Len(t) = n + 2 /\ \A j \in 1..n : t[j] = list[j]
      /\ t[n + 1] = w /\ t[n + 2] = r
  <2> DEFINE u == <<w, r>>
  <2>1. u \in Seq(Int) /\ Len(u) = 2 /\ u[1] = w /\ u[2] = r
    OBVIOUS
  <2> HIDE DEF u
  <2>2. /\ list \o u \in Seq(Int) /\ Len(list \o u) = Len(list) + Len(u)
        /\ \A j \in 1..(Len(list) + Len(u)) :
             (list \o u)[j] = IF j <= Len(list) THEN list[j] ELSE u[j - Len(list)]
    BY <2>1, ConcatProperties
  <2>3. \A j \in 1..(n + 2) : (list \o u)[j] = IF j <= n THEN list[j] ELSE u[j - n]
    BY <2>1, <2>2
  <2> HIDE DEF n
  <2>4. (list \o u)[n + 1] = u[1] /\ (list \o u)[n + 2] = u[2]
    <3>1. /\ n + 1 \in 1..(n + 2) /\ n + 2 \in 1..(n + 2) /\ ~ (n + 1 <= n) /\ ~ (n + 2 <= n)
          /\ (n + 1) - n = 1 /\ (n + 2) - n = 2
      BY <1>1
    <3> QED
      BY <3>1, <2>3
  <2>5. \A j \in 1..n : (list \o u)[j] = list[j]
    BY <1>1, <2>3
  <2> QED
    BY <2>1, <2>2, <2>4, <2>5 DEF u, n
<1> HIDE DEF n, s, t
<1>4. DOMAIN s = 1..(n + 2) /\ DOMAIN t = 1..(n + 2)
  BY <1>2, <1>3
<1> DEFINE m == n + 1  z == n + 2
<1>12. /\ m \in DOMAIN s /\ z \in DOMAIN s /\ m \in DOMAIN t /\ z \in DOMAIN t /\ m \in Nat /\ z \in Nat
       /\ m < z /\ s[m] = r /\ s[z] = w /\ t[m] = w /\ t[z] = r /\ 1..z = 1..(n + 2)
       /\ \A j \in 1..n : j < m /\ j < z /\ j \in DOMAIN s /\ j \in DOMAIN t /\ j \in Nat
       /\ \A j \in 1..z : j \in 1..n \/ j = m \/ j = z
  BY <1>1, <1>2, <1>3, <1>4
<1> HIDE DEF m, z
<1>13. DOMAIN s = 1..z /\ DOMAIN t = 1..z
  BY <1>4, <1>12
<1>5. PICK i \in 1..z : IsNearest(p, s, i)
  <2>1. 1 \in DOMAIN s
    BY <1>1, <1>4
  <2> QED
    BY <1>2, <1>4, <1>13, <2>1, NearestAt
<1>6. \A x \in Int : Dist(x, p) \in Nat
  BY DistIs
<1>7. \A j \in 1..n : list[j] \in Int
  BY <1>1
<1>14. Dist(r, p) \in Nat /\ Dist(w, p) \in Nat /\ \A j \in 1..n : Dist(list[j], p) \in Nat
  BY <1>6, <1>7
<1>8. i # z
  <2>1. SUFFICES ASSUME i = z PROVE FALSE
    OBVIOUS
  <2>2. Dist(s[z], p) <= Dist(s[m], p)
    BY <1>5, <1>12, <2>1 DEF IsNearest
  <2> QED
    BY <1>12, <1>14, <2>2
<1>9. CASE i \in 1..n
  <2>3. s[i] = list[i] /\ t[i] = list[i] /\ ~ (m < i) /\ ~ (z < i) /\ i \in DOMAIN t
    BY <1>2, <1>3, <1>9, <1>12
  <2>4. \A j \in 1..z : /\ Dist(t[i], p) <= Dist(t[j], p)
                        /\ j < i => Dist(t[i], p) < Dist(t[j], p)
    <3> TAKE j \in 1..z
    <3>1. CASE j \in 1..n
      BY <1>3, <1>2, <1>5, <1>9, <1>12, <2>3, <3>1 DEF IsNearest
    <3>2. CASE j = m \/ j = z
      BY <1>12, <1>5, <2>3, <3>2 DEF IsNearest
    <3> QED
      BY <1>12, <3>1, <3>2
  <2>5. IsNearest(p, t, i)
    <3>1. \A j \in DOMAIN t : /\ Dist(t[i], p) <= Dist(t[j], p)
                              /\ j < i => Dist(t[i], p) < Dist(t[j], p)
      <4> DEFINE Beaten(j) == /\ Dist(t[i], p) <= Dist(t[j], p)
                              /\ j < i => Dist(t[i], p) < Dist(t[j], p)
      <4>1. \A j \in 1..z : Beaten(j)
        BY <2>4
      <4> HIDE DEF Beaten
      <4>2. \A j \in DOMAIN t : Beaten(j)
        BY <1>13, <4>1
      <4> QED
        BY <4>2 DEF Beaten
    <3> QED
      BY <2>3, <3>1 DEF IsNearest
  <2>6. Nearest(p, s) = <<s[i]>> /\ Nearest(p, t) = <<t[i]>>
    BY <1>2, <1>3, <1>5, <2>5, NearestAt
  <2> QED
    BY <2>3, <2>6 DEF s, t
<1>10. CASE i = m
  <2>1. \A j \in 1..n : Dist(r, p) < Dist(list[j], p)
    <3> TAKE j \in 1..n
    <3>1. Dist(s[m], p) < Dist(s[j], p)
      BY <1>5, <1>10, <1>12 DEF IsNearest
    <3> QED
      BY <1>2, <1>12, <3>1
  <2>2. \A j \in 1..z : /\ Dist(t[z], p) <= Dist(t[j], p)
                        /\ j < z => Dist(t[z], p) < Dist(t[j], p)
    <3> TAKE j \in 1..z
    <3>1. CASE j \in 1..n
      BY <1>3, <1>12, <1>14, <2>1, <3>1
    <3>2. CASE j = m \/ j = z
      BY <1>12, <1>14, <3>2
    <3> QED
      BY <1>12, <3>1, <3>2
  <2>3. IsNearest(p, t, z)
    <3>1. \A j \in DOMAIN t : /\ Dist(t[z], p) <= Dist(t[j], p)
                              /\ j < z => Dist(t[z], p) < Dist(t[j], p)
      <4> DEFINE Beaten(j) == /\ Dist(t[z], p) <= Dist(t[j], p)
                              /\ j < z => Dist(t[z], p) < Dist(t[j], p)
      <4>1. \A j \in 1..z : Beaten(j)
        BY <2>2
      <4> HIDE DEF Beaten
      <4>2. \A j \in DOMAIN t : Beaten(j)
        BY <1>13, <4>1
      <4> QED
        BY <4>2 DEF Beaten
    <3> QED
      BY <1>12, <3>1 DEF IsNearest
  <2>4. Nearest(p, s) = <<s[m]>> /\ Nearest(p, t) = <<t[z]>>
    BY <1>2, <1>3, <1>5, <1>10, <2>3, NearestAt
  <2> QED
    BY <1>12, <2>4 DEF s, t
<1>11. i \in 1..n \/ i = m
  BY <1>5, <1>8, <1>12
<1> QED
  BY <1>9, <1>10, <1>11

\* The target of a spike: a swing, the edge of the opening range or of the
\* previous day.
SpikeEdge(c, d, p) ==
  Ahead(d, p, SwingHigh(c, 20) \o c.orh \o <<c.pdh>>, SwingLow(c, 20) \o c.orl \o <<c.pdl>>)

\* The edge a spike aims at.
LEMMA SpikeEdgeFlips ==
  ASSUME NEW a, NEW c, NEW k, Mirrored(a, c, k), NEW d \in Sides, NEW side, side = FlipSide(d),
         NEW p \in Int, NEW q, q = a - p
  PROVE  /\ SpikeEdge(c, d, p) \in Optional(Int)
         /\ SpikeEdge(k, side, q) = FlipAll(a, SpikeEdge(c, d, p))
<1> DEFINE hi == SwingHigh(c, 20)  lo == SwingLow(c, 20)
           hi2 == SwingHigh(k, 20)  lo2 == SwingLow(k, 20)
           ph == <<c.pdh>>  pl == <<c.pdl>>  ph2 == <<k.pdh>>  pl2 == <<k.pdl>>
           top == hi \o c.orh  bottom == lo \o c.orl
           top2 == hi2 \o k.orh  bottom2 == lo2 \o k.orl
           up == top \o ph  down == bottom \o pl
           up2 == top2 \o ph2  down2 == bottom2 \o pl2
<1>1. /\ k.orh = FlipAll(a, c.orl) /\ k.orl = FlipAll(a, c.orh) /\ a \in Int
      /\ c.orh \in Optional(Int) /\ c.orl \in Optional(Int)
      /\ k.pdh = a - c.pdl /\ k.pdl = a - c.pdh /\ c.pdh \in Int /\ c.pdl \in Int
  BY MirroredRange
<1>2. 20 \in Nat
  OBVIOUS
<1>3. hi \in Optional(Int) /\ lo \in Optional(Int) /\ hi2 = FlipAll(a, lo) /\ lo2 = FlipAll(a, hi)
  BY <1>2, MirroredSwings
<1>4. ph \in Seq(Int) /\ pl \in Seq(Int) /\ ph2 = FlipAll(a, pl) /\ pl2 = FlipAll(a, ph)
  BY <1>1, FlipOne, ListsHold
<1>5. SpikeEdge(c, d, p) = Ahead(d, p, up, down) /\ SpikeEdge(k, side, q) = Ahead(side, q, up2, down2)
  BY DEF SpikeEdge
<1> HIDE DEF hi, lo, hi2, lo2, ph, pl, ph2, pl2
<1>6. c.orh \in Seq(Int) /\ c.orl \in Seq(Int) /\ hi \in Seq(Int) /\ lo \in Seq(Int)
  BY <1>1, <1>3, ListsHold
<1>7. top \in Seq(Int) /\ bottom \in Seq(Int) /\ top2 = FlipAll(a, bottom) /\ bottom2 = FlipAll(a, top)
  <2>1. FlipAll(a, bottom) = FlipAll(a, lo) \o FlipAll(a, c.orl)
    BY <1>1, <1>6, FlipAllJoins
  <2>2. FlipAll(a, top) = FlipAll(a, hi) \o FlipAll(a, c.orh)
    BY <1>1, <1>6, FlipAllJoins
  <2> QED
    BY <1>1, <1>3, <1>6, <2>1, <2>2
<1> HIDE DEF top, bottom, top2, bottom2
<1>8. up \in Seq(Int) /\ down \in Seq(Int) /\ up2 = FlipAll(a, down) /\ down2 = FlipAll(a, up)
  <2>1. FlipAll(a, down) = FlipAll(a, bottom) \o FlipAll(a, pl)
    BY <1>1, <1>4, <1>7, FlipAllJoins
  <2>2. FlipAll(a, up) = FlipAll(a, top) \o FlipAll(a, ph)
    BY <1>1, <1>4, <1>7, FlipAllJoins
  <2> QED
    BY <1>4, <1>7, <2>1, <2>2
<1> HIDE DEF up, down, up2, down2
<1>9. up2 \in Seq(Int) /\ down2 \in Seq(Int)
  BY <1>1, <1>8, FlipAllIs
<1>10. Values(up2) = Reflect(a, Values(down)) /\ Values(down2) = Reflect(a, Values(up))
  BY <1>1, <1>8, FlippedValues
<1> QED
  BY <1>1, <1>5, <1>8, <1>9, <1>10, AheadFlips

\* Two prices in a list.
LEMMA PairFlips ==
  ASSUME NEW a \in Int, NEW p \in Int, NEW q \in Int, NEW u, u = a - p, NEW v, v = a - q
  PROVE  /\ <<p, q>> \in Seq(Int) /\ DOMAIN <<p, q>> # {} /\ Len(<<p, q>>) = 2
         /\ <<u, v>> = FlipAll(a, <<p, q>>)
<1> DEFINE ps == <<p, q>>  us == <<u, v>>  fs == FlipAll(a, ps)
<1>1. ps \in Seq(Int) /\ Len(ps) = 2 /\ DOMAIN ps = 1..2 /\ ps[1] = p /\ ps[2] = q
  OBVIOUS
<1>2. us \in Seq(Int) /\ Len(us) = 2 /\ us[1] = u /\ us[2] = v
  OBVIOUS
<1>3. DOMAIN ps # {}
  BY <1>1
<1> HIDE DEF ps, us
<1>4. fs \in Seq(Int) /\ Len(fs) = 2 /\ fs[1] = a - ps[1] /\ fs[2] = a - ps[2]
  BY <1>1, FlipAllIs
<1> HIDE DEF fs
<1>5. us = fs
  <2>1. \A i \in 1..2 : us[i] = fs[i]
    BY <1>1, <1>2, <1>4
  <2> QED
    BY <1>2, <1>4, <2>1, SeqEqual
<1> QED
  BY <1>1, <1>3, <1>5 DEF ps, us, fs

\* A list that ends in a round number and the one next to it is reflected,
\* though the two change places.
LEMMA SpikeNearest ==
  ASSUME NEW a \in Int, NEW r \in Int, a = 2 * r, NEW p \in Int, NEW q, q = a - p,
         NEW w \in Int, NEW u, u = a - w, Dist(r, p) < Dist(w, p),
         NEW list \in Seq(Int), NEW image, image = FlipAll(a, list)
  PROVE  \E v \in Int : /\ Nearest(p, list \o <<w, r>>) = <<v>>
                        /\ Nearest(p, list \o <<r, w>>) = <<v>>
                        /\ Nearest(q, image \o <<u, r>>) = <<a - v>>
                        /\ Nearest(q, image \o <<r, u>>) = <<a - v>>
<1> DEFINE wr == <<w, r>>  rw == <<r, w>>  ur == <<u, r>>  ru == <<r, u>>
           st == list \o wr  ts == list \o rw  st2 == image \o ur  ts2 == image \o ru
<1>1. r = a - r /\ u \in Int /\ q \in Int
  OBVIOUS
<1>2. /\ wr \in Seq(Int) /\ DOMAIN wr # {} /\ Len(wr) = 2 /\ ur = FlipAll(a, wr)
  BY <1>1, PairFlips
<1>3. /\ rw \in Seq(Int) /\ Len(rw) = 2 /\ ru = FlipAll(a, rw)
  BY <1>1, PairFlips
<1>4. Nearest(p, st) = Nearest(p, ts)
  BY LastTwo
<1> HIDE DEF wr, rw, ur, ru
<1>5. st \in Seq(Int) /\ Len(st) = Len(list) + 2 /\ Len(list) \in Nat
  <2>1. st \in Seq(Int) /\ Len(st) = Len(list) + Len(wr)
    BY <1>2, ConcatProperties
  <2>2. Len(list) \in Nat
    BY LenProperties
  <2> QED
    BY <1>2, <2>1, <2>2
<1>6. ts \in Seq(Int) /\ Len(ts) = Len(list) + 2
  <2>1. ts \in Seq(Int) /\ Len(ts) = Len(list) + Len(rw)
    BY <1>3, ConcatProperties
  <2> QED
    BY <1>3, <2>1
<1>7. st2 = FlipAll(a, st) /\ ts2 = FlipAll(a, ts)
  BY <1>2, <1>3, FlipAllJoins
<1> HIDE DEF st, ts, st2, ts2
<1>8. DOMAIN st # {} /\ DOMAIN ts # {}
  <2>2. 1 \in DOMAIN st /\ 1 \in DOMAIN ts
    BY <1>5, <1>6
  <2> QED
    BY <2>2
<1>9. PICK v \in Int : Nearest(p, st) = <<v>> /\ Nearest(q, st2) = <<a - v>>
  BY <1>5, <1>7, <1>8, NearestKept
<1>10. PICK x \in Int : Nearest(p, ts) = <<x>> /\ Nearest(q, ts2) = <<a - x>>
  <2>1. DOMAIN ts # {} /\ ts2 = FlipAll(a, ts) /\ ts \in Seq(Int) /\ q = a - p
    BY <1>6, <1>7, <1>8
  <2> QED
    BY <2>1, NearestKept
<1>11. v = x
  <2>1. <<v>> = <<x>>
    BY <1>4, <1>9, <1>10
  <2> QED
    BY <2>1
<1> QED
  BY <1>9, <1>10, <1>11 DEF wr, rw, ur, ru, st, ts, st2, ts2

\* The levels a spike is judged by.
RoundOf(x) == RoundTo(x.cur.close, RoundStep(x))
SpikeSupports(x) == SwingLow(x, 20) \o <<x.pdl, x.pdc, RoundOf(x) - RoundStep(x), RoundOf(x)>>
SpikeResistances(x) ==
  SwingHigh(x, 20) \o <<x.pdh, x.pdc, RoundOf(x), RoundOf(x) + RoundStep(x)>>

Pair(u, v) == <<u, v>>
Four(p, q, u, v) == <<p, q, u, v>>
Joined(list, p, q, u, v) == list \o Four(p, q, u, v) = (list \o Pair(p, q)) \o Pair(u, v)

\* Four prices after a list.
LEMMA JoinsTwice ==
  ASSUME NEW list \in Seq(Int), NEW p \in Int, NEW q \in Int, NEW u \in Int, NEW v \in Int
  PROVE  Joined(list, p, q, u, v)
<1> DEFINE pq == <<p, q>>  uv == <<u, v>>
<1>1. /\ pq \in Seq(Int) /\ uv \in Seq(Int)
  OBVIOUS
<1>2. Four(p, q, u, v) = pq \o uv
  BY DEF Four
<1>3. Pair(p, q) = pq /\ Pair(u, v) = uv
  BY DEF Pair
<1> HIDE DEF pq, uv
<1>4. list \o (pq \o uv) = (list \o pq) \o uv
  <2>1. pq \in Seq(Int) /\ uv \in Seq(Int)
    BY <1>1
  <2> QED
    BY <2>1, ConcatAssociative, SMTT(30)
<1> QED
  BY <1>2, <1>3, <1>4 DEF Joined

\* The nearest levels of a spike.
LEMMA SpikeLists ==
  ASSUME NEW a, NEW c, NEW k, Mirrored(a, c, k), OnAxis(a, RoundOf(c)), ~Lopsided("OIS", c)
  PROVE  \E s, r \in Int :
           /\ Nearest(c.cur.close, SpikeSupports(c)) = <<s>>
           /\ Nearest(k.cur.close, SpikeResistances(k)) = <<a - s>>
           /\ Nearest(c.cur.close, SpikeResistances(c)) = <<r>>
           /\ Nearest(k.cur.close, SpikeSupports(k)) = <<a - r>>
<1> DEFINE step == RoundStep(c)  p == c.cur.close  q == k.cur.close
           round == RoundOf(c)  below == round - step  above == round + step
           low == Supports(c)  high == Resistances(c)
           low2 == Supports(k)  high2 == Resistances(k)
<1>1. a \in Int /\ p \in Int /\ q = a - p
  BY MirroredBar
<1>2. step \in {50, 100} /\ RoundStep(k) = step
  BY 0 \in Nat, MirroredAtr
<1>3. 2 * (p % step) # step
  BY DEF Lopsided
<1>4. a = 2 * round
  BY DEF OnAxis
<1>5. round = RoundTo(p, step) /\ RoundOf(k) = RoundTo(q, step)
  BY <1>2 DEF RoundOf
<1>6. /\ low \in Seq(Int) /\ high \in Seq(Int)
      /\ high2 = FlipAll(a, low) /\ low2 = FlipAll(a, high)
  BY SupportsFlip
<1>7. /\ SwingLow(c, 20) \in Seq(Int) /\ SwingHigh(c, 20) \in Seq(Int)
      /\ SwingLow(k, 20) \in Seq(Int) /\ SwingHigh(k, 20) \in Seq(Int)
  <2>1. 20 \in Nat
    OBVIOUS
  <2>2. /\ SwingLow(c, 20) \in Optional(Int) /\ SwingHigh(c, 20) \in Optional(Int)
        /\ SwingHigh(k, 20) = FlipAll(a, SwingLow(c, 20))
        /\ SwingLow(k, 20) = FlipAll(a, SwingHigh(c, 20))
    BY <2>1, MirroredSwings
  <2> QED
    BY <1>1, <2>2, ListsHold, FlipAllIs
<1>8. /\ c.pdh \in Int /\ c.pdl \in Int /\ c.pdc \in Int
      /\ k.pdh \in Int /\ k.pdl \in Int /\ k.pdc \in Int
  BY DEF Mirrored, Readable
<1> HIDE DEF p, q, round, step, low, high, low2, high2
<1>9. /\ round \in Int /\ RoundTo(q, step) = round
      /\ Dist(round, p) < Dist(round - step, p) /\ Dist(round, p) < Dist(round + step, p)
  BY <1>1, <1>4, <1>2, <1>3, <1>5, RoundTurns
<1>10. step \in Int /\ below \in Int /\ above \in Int
  BY <1>2, <1>9
<1>11. /\ SpikeSupports(c) = low \o <<below, round>>
       /\ SpikeResistances(c) = high \o <<round, above>>
  <2>1. SpikeSupports(c) = SwingLow(c, 20) \o <<c.pdl, c.pdc, below, round>>
    BY DEF SpikeSupports, step, round
  <2>2. SpikeResistances(c) = SwingHigh(c, 20) \o <<c.pdh, c.pdc, round, above>>
    BY DEF SpikeResistances, step, round
  <2>3. low = SwingLow(c, 20) \o <<c.pdl, c.pdc>> /\ high = SwingHigh(c, 20) \o <<c.pdh, c.pdc>>
    BY DEF low, high, Supports, Resistances
  <2> HIDE DEF below, above
  <2>4. SwingLow(c, 20) \o <<c.pdl, c.pdc, below, round>>
          = (SwingLow(c, 20) \o <<c.pdl, c.pdc>>) \o <<below, round>>
    <3> DEFINE swing == SwingLow(c, 20)  day == c.pdl  close == c.pdc
    <3>1. swing \in Seq(Int) /\ day \in Int /\ close \in Int
      BY <1>7, <1>8
    <3> HIDE DEF swing, day, close
    <3>2. Joined(swing, day, close, below, round)
      BY <1>9, <1>10, <3>1, JoinsTwice
    <3> QED
      BY <3>2 DEF Joined, Four, Pair, swing, day, close
  <2>5. SwingHigh(c, 20) \o <<c.pdh, c.pdc, round, above>>
          = (SwingHigh(c, 20) \o <<c.pdh, c.pdc>>) \o <<round, above>>
    <3> DEFINE swing == SwingHigh(c, 20)  day == c.pdh  close == c.pdc
    <3>1. swing \in Seq(Int) /\ day \in Int /\ close \in Int
      BY <1>7, <1>8
    <3> HIDE DEF swing, day, close
    <3>2. Joined(swing, day, close, round, above)
      BY <1>9, <1>10, <3>1, JoinsTwice
    <3> QED
      BY <3>2 DEF Joined, Four, Pair, swing, day, close
  <2> QED
    BY <2>1, <2>2, <2>3, <2>4, <2>5
<1>12. /\ SpikeSupports(k) = low2 \o <<below, round>>
       /\ SpikeResistances(k) = high2 \o <<round, above>>
  <2>1. RoundOf(k) = round
    BY <1>5, <1>9
  <2>2. SpikeSupports(k) = SwingLow(k, 20) \o <<k.pdl, k.pdc, below, round>>
    BY <1>2, <2>1 DEF SpikeSupports
  <2>3. SpikeResistances(k) = SwingHigh(k, 20) \o <<k.pdh, k.pdc, round, above>>
    BY <1>2, <2>1 DEF SpikeResistances
  <2>4. low2 = SwingLow(k, 20) \o <<k.pdl, k.pdc>> /\ high2 = SwingHigh(k, 20) \o <<k.pdh, k.pdc>>
    BY DEF low2, high2, Supports, Resistances
  <2> HIDE DEF below, above
  <2>5. SwingLow(k, 20) \o <<k.pdl, k.pdc, below, round>>
          = (SwingLow(k, 20) \o <<k.pdl, k.pdc>>) \o <<below, round>>
    <3> DEFINE swing == SwingLow(k, 20)  day == k.pdl  close == k.pdc
    <3>1. swing \in Seq(Int) /\ day \in Int /\ close \in Int
      BY <1>7, <1>8
    <3> HIDE DEF swing, day, close
    <3>2. Joined(swing, day, close, below, round)
      BY <1>9, <1>10, <3>1, JoinsTwice
    <3> QED
      BY <3>2 DEF Joined, Four, Pair, swing, day, close
  <2>6. SwingHigh(k, 20) \o <<k.pdh, k.pdc, round, above>>
          = (SwingHigh(k, 20) \o <<k.pdh, k.pdc>>) \o <<round, above>>
    <3> DEFINE swing == SwingHigh(k, 20)  day == k.pdh  close == k.pdc
    <3>1. swing \in Seq(Int) /\ day \in Int /\ close \in Int
      BY <1>7, <1>8
    <3> HIDE DEF swing, day, close
    <3>2. Joined(swing, day, close, round, above)
      BY <1>9, <1>10, <3>1, JoinsTwice
    <3> QED
      BY <3>2 DEF Joined, Four, Pair, swing, day, close
  <2> QED
    BY <2>2, <2>3, <2>4, <2>5, <2>6
<1>13. above = a - below /\ below = a - above
  BY <1>4, <1>9, <1>10
<1>14. Dist(round, p) < Dist(below, p) /\ Dist(round, p) < Dist(above, p)
  BY <1>9
<1> HIDE DEF below, above
<1>15. \E s \in Int : /\ Nearest(p, low \o <<below, round>>) = <<s>>
                      /\ Nearest(p, low \o <<round, below>>) = <<s>>
                      /\ Nearest(q, high2 \o <<above, round>>) = <<a - s>>
                      /\ Nearest(q, high2 \o <<round, above>>) = <<a - s>>
  BY <1>1, <1>4, <1>6, <1>9, <1>10, <1>13, <1>14, SpikeNearest
<1>16. \E r \in Int : /\ Nearest(p, high \o <<above, round>>) = <<r>>
                      /\ Nearest(p, high \o <<round, above>>) = <<r>>
                      /\ Nearest(q, low2 \o <<below, round>>) = <<a - r>>
                      /\ Nearest(q, low2 \o <<round, below>>) = <<a - r>>
  BY <1>1, <1>4, <1>6, <1>9, <1>10, <1>13, <1>14, SpikeNearest
<1> QED
  BY <1>11, <1>12, <1>15, <1>16 DEF p, q

\* A spike in open interest at a level, with a rejection of the price.
SpikeReady(x) ==
  /\ x.n5 >= 2 /\ Len(x.c15) >= 3 /\ x.ready
  /\ x.oiChange >= OIS.spike /\ x.oi >= OIS.oi
SpikeNear(x, level) == Dist(x.cur.close, level) <= OfAtr(x, OIS.near)
SpikeUp(x, level) ==
  SpikeReady(x) /\ SpikeNear(x, level) /\ BullishRejection(x.cur, x.prev, MinRange(x))
SpikeDown(x, level) ==
  SpikeReady(x) /\ SpikeNear(x, level) /\ BearishRejection(x.cur, x.prev, MinRange(x))
SpikeAt(x, d, level) ==
  LevelBuild(x, "OIS", OIS, d, level, SpikeEdge(x, d, x.cur.close), ReversalAligned(x, d))

\* The spike, from its nearest levels.
LEMMA OisIs ==
  ASSUME NEW x, NEW s, Nearest(x.cur.close, SpikeSupports(x)) = <<s>>,
         NEW r, Nearest(x.cur.close, SpikeResistances(x)) = <<r>>
  PROVE  OiSpikeReversal(x) = IF SpikeUp(x, s) THEN SpikeAt(x, Long, s)
                              ELSE IF SpikeDown(x, r) THEN SpikeAt(x, Short, r) ELSE None
<1> DEFINE Round == RoundTo(x.cur.close, RoundStep(x))
           S == Nearest(x.cur.close, SwingLow(x, 20) \o <<x.pdl, x.pdc, Round - RoundStep(x), Round>>)
           R == Nearest(x.cur.close, SwingHigh(x, 20) \o <<x.pdh, x.pdc, Round, Round + RoundStep(x)>>)
           Ready == /\ x.n5 >= 2 /\ Len(x.c15) >= 3 /\ x.ready
                    /\ x.oiChange >= OIS.spike /\ x.oi >= OIS.oi
           NearS == Dist(x.cur.close, S[1]) <= OfAtr(x, OIS.near)
           NearR == Dist(x.cur.close, R[1]) <= OfAtr(x, OIS.near)
           Up == BullishRejection(x.cur, x.prev, MinRange(x))
           Down == BearishRejection(x.cur, x.prev, MinRange(x))
           A == LevelBuild(x, "OIS", OIS, Long, S[1],
                  NearestAbove(x.cur.close, SwingHigh(x, 20) \o x.orh \o <<x.pdh>>), ReversalAligned(x, Long))
           B == LevelBuild(x, "OIS", OIS, Short, R[1],
                  NearestBelow(x.cur.close, SwingLow(x, 20) \o x.orl \o <<x.pdl>>), ReversalAligned(x, Short))
<1>1. OiSpikeReversal(x) = IF Ready /\ NearS /\ Up THEN A ELSE IF Ready /\ NearR /\ Down THEN B ELSE None
  BY DEF OiSpikeReversal
<1>2. S[1] = s /\ R[1] = r
  BY DEF SpikeSupports, SpikeResistances, RoundOf
<1> HIDE DEF S, R
<1>3. A = SpikeAt(x, Long, s) /\ B = SpikeAt(x, Short, r)
  BY <1>2 DEF Long, Short, SpikeAt, SpikeEdge, Ahead
<1>4. /\ (Ready /\ NearS /\ Up) <=> SpikeUp(x, s)
      /\ (Ready /\ NearR /\ Down) <=> SpikeDown(x, r)
  BY <1>2 DEF SpikeUp, SpikeDown, SpikeReady, SpikeNear
<1> HIDE DEF Ready, NearS, NearR, Up, Down, A, B
<1> QED
  BY <1>1, <1>3, <1>4

\* Its candidate at a level.
LEMMA SpikeAtFlips ==
  ASSUME NEW a, NEW c, NEW k, Mirrored(a, c, k), Quoted(a, c),
         NEW d \in Sides, NEW side, side = FlipSide(d), NEW level \in Int,
         NEW image, image = a - level,
         Refits(a, SpikeAt(c, d, level)), Refits(a, SpikeAt(k, side, image))
  PROVE  Twins(a, c, SpikeAt(c, d, level), SpikeAt(k, side, image))
<1> DEFINE entry == c.cur.close  e == k.cur.close
           pad == OfAtr(c, OIS.pad)  pad2 == OfAtr(k, OIS.pad)
           sl == Padded(d, level, pad)  s == Padded(side, image, pad2)
           target == SpikeEdge(c, d, entry)  target2 == SpikeEdge(k, side, e)
           htf == ReversalAligned(c, d)  htf2 == ReversalAligned(k, side)
           rr == OIS.minRR  cfg == OIS
<1>1. a \in Int /\ entry \in Int /\ e = a - entry
  BY MirroredBar
<1>2. OIS.pad \in Nat
  BY DEF OIS
<1>3. pad \in Nat /\ pad2 = pad
  BY <1>2, MirroredAtr
<1>4. "OIS" \in {"SRF", "OIS"} /\ cfg = Band("OIS")
  BY DEF Band
<1>5. htf \in BOOLEAN /\ htf2 \in BOOLEAN /\ (htf2 <=> htf)
  BY HourTurns, LabelsTell
<1>7. /\ SpikeAt(c, d, level) = LevelFind(c, "OIS", cfg, d, entry, sl, target, rr, htf)
      /\ SpikeAt(k, side, image) = LevelFind(k, "OIS", cfg, side, e, s, target2, rr, htf2)
  BY LevelIs DEF SpikeAt
<1>8. sl \in Int /\ s = a - sl
  BY <1>1, <1>3, PaddedFlips
<1> HIDE DEF entry, e, pad, pad2, sl, s, htf, htf2, rr, cfg
<1>9. target \in Optional(Int) /\ target2 = FlipAll(a, target)
  BY <1>1, SpikeEdgeFlips
<1> HIDE DEF target, target2
<1>10. /\ Refits(a, LevelFind(c, "OIS", cfg, d, entry, sl, target, rr, htf))
       /\ Refits(a, LevelFind(k, "OIS", cfg, side, e, s, target2, rr, htf2))
  BY <1>7
<1>11. Twins(a, c, LevelFind(c, "OIS", cfg, d, entry, sl, target, rr, htf),
                   LevelFind(k, "OIS", cfg, side, e, s, target2, rr, htf2))
  BY <1>1, <1>4, <1>5, <1>8, <1>9, <1>10, LevelKept
<1> QED
  BY <1>7, <1>11

\* A spike is reflected in a spike, about the round number it is nearest to.
LEMMA OisFlips ==
  ASSUME NEW a, NEW c, NEW k, Mirrored(a, c, k), Quoted(a, c), OnAxis(a, RoundOf(c)),
         ~Lopsided("OIS", c),
         Refits(a, OiSpikeReversal(c)), Refits(a, OiSpikeReversal(k))
  PROVE  Twins(a, c, OiSpikeReversal(c), OiSpikeReversal(k))
<1> DEFINE entry == c.cur.close  e == k.cur.close
           ois == OiSpikeReversal(c)  ois2 == OiSpikeReversal(k)
<1>1. a \in Int /\ entry \in Int /\ e = a - entry
  BY MirroredBar
<1>2. PICK s \in Int, r \in Int :
           /\ Nearest(entry, SpikeSupports(c)) = <<s>>
           /\ Nearest(e, SpikeResistances(k)) = <<a - s>>
           /\ Nearest(entry, SpikeResistances(c)) = <<r>>
           /\ Nearest(e, SpikeSupports(k)) = <<a - r>>
  BY SpikeLists
<1> DEFINE s2 == a - s  r2 == a - r
<1>3. Nearest(e, SpikeResistances(k)) = <<s2>> /\ Nearest(e, SpikeSupports(k)) = <<r2>>
  BY <1>2
<1>4. s2 = a - s /\ r2 = a - r
  OBVIOUS
<1>5. ois = IF SpikeUp(c, s) THEN SpikeAt(c, Long, s)
            ELSE IF SpikeDown(c, r) THEN SpikeAt(c, Short, r) ELSE None
  BY <1>2, OisIs
<1> HIDE DEF s2, r2
<1>6. ois2 = IF SpikeUp(k, r2) THEN SpikeAt(k, Long, r2)
             ELSE IF SpikeDown(k, s2) THEN SpikeAt(k, Short, s2) ELSE None
  BY <1>3, OisIs
<1>7. Refits(a, ois) /\ Refits(a, ois2)
  OBVIOUS
<1> HIDE DEF entry, e, ois, ois2
<1>8. SpikeReady(k) <=> SpikeReady(c)
  BY BarsKept DEF Mirrored, SameReads, SpikeReady
<1>9. OIS.near \in Nat
  BY DEF OIS
<1>10. OfAtr(k, OIS.near) = OfAtr(c, OIS.near)
  BY <1>9, MirroredAtr
<1>11. Dist(e, r2) = Dist(entry, r) /\ Dist(e, s2) = Dist(entry, s)
  BY <1>1, <1>4, FlipDist
<1>12. (SpikeNear(k, r2) <=> SpikeNear(c, r)) /\ (SpikeNear(k, s2) <=> SpikeNear(c, s))
  BY <1>10, <1>11 DEF SpikeNear, entry, e
<1>13. SpikeUp(k, r2) <=> SpikeDown(c, r)
  BY <1>8, <1>12, MirroredRejections DEF SpikeUp, SpikeDown
<1>14. SpikeDown(k, s2) <=> SpikeUp(c, s)
  BY <1>8, <1>12, MirroredRejections DEF SpikeUp, SpikeDown
<1>15. ~ (SpikeUp(c, s) /\ SpikeDown(c, r))
  BY MirroredRejections DEF SpikeUp, SpikeDown
<1>16. /\ Long \in Sides /\ Short \in Sides /\ Short = FlipSide(Long) /\ Long = FlipSide(Short)
  BY DEF Sides, FlipSide, Long, Short
<1> DEFINE up == SpikeAt(c, Long, s)  up2 == SpikeAt(k, Short, s2)
           down == SpikeAt(c, Short, r)  down2 == SpikeAt(k, Long, r2)
<1>17. ASSUME Refits(a, up), Refits(a, up2) PROVE Twins(a, c, up, up2)
  BY <1>4, <1>16, <1>17, SpikeAtFlips
<1>18. ASSUME Refits(a, down), Refits(a, down2) PROVE Twins(a, c, down, down2)
  BY <1>4, <1>16, <1>18, SpikeAtFlips
<1> HIDE DEF up, up2, down, down2
<1>19. CASE SpikeUp(c, s)
  BY <1>5, <1>6, <1>13, <1>14, <1>15, <1>19, <1>7, <1>17 DEF up, up2, ois, ois2
<1>20. CASE ~SpikeUp(c, s) /\ SpikeDown(c, r)
  BY <1>5, <1>6, <1>13, <1>20, <1>7, <1>18 DEF down, down2, ois, ois2
<1>21. CASE ~SpikeUp(c, s) /\ ~SpikeDown(c, r)
  BY <1>5, <1>6, <1>13, <1>14, <1>21, NoneFound DEF ois, ois2
<1> QED
  BY <1>19, <1>20, <1>21

\* The levels of a book that pay for the stop, and the nearest of them.
Paying(book, d, entry, sl) ==
  {p \in book : Pays(entry, sl, p, SRF.minRR) /\ IF d = Short THEN p <= entry ELSE p >= entry}
FirstPaying(book, d, entry, sl) ==
  LET paying == Paying(book, d, entry, sl) IN
  IF paying = {} THEN None ELSE <<IF d = Short THEN Max(paying) ELSE Min(paying)>>

\* A list of one.
LEMMA OneIs == ASSUME NEW p PROVE <<p>> # None /\ <<p>>[1] = p
BY DEF None

\* The retest, from what it reads.
LEMMA SrfBuildIs ==
  ASSUME NEW x, NEW d, NEW book, NEW entry, entry = x.cur.close,
         NEW sl, sl = (IF d = Short THEN x.cur.high + OfAtr(x, SRF.pad)
                       ELSE x.cur.low - OfAtr(x, SRF.pad)),
         NEW target, target = FirstPaying(book, d, entry, sl),
         target # None => Pays(entry, sl, target[1], SRF.minRR),
         NEW htf, htf = ReversalAligned(x, d), NEW cfg, cfg = SRF
  PROVE  SrfBuild(x, d, book) = LevelFind(x, "SRF", cfg, d, entry, sl, target, SRF.minRR, htf)
<1> DEFINE pay == {p \in book : Pays(entry, sl, p, SRF.minRR)}
           aim == IF d = Short THEN {p \in pay : p <= entry} ELSE {p \in pay : p >= entry}
           tp1 == IF d = Short THEN Max(aim) ELSE Min(aim)
<1>1. SrfBuild(x, d, book) = IF StopFits(entry, sl, SRF) /\ aim # {}
                             THEN Signal(x, "SRF", d, entry, sl, tp1, "MARKET", htf, 0) ELSE None
  BY DEF SrfBuild
<1>2. aim = Paying(book, d, entry, sl)
  BY DEF Paying
<1>3. target = IF aim = {} THEN None ELSE <<tp1>>
  BY <1>2 DEF FirstPaying
<1> HIDE DEF pay, aim, tp1
<1>4. CASE aim = {}
  BY <1>1, <1>3, <1>4 DEF LevelFind
<1>5. CASE aim # {}
  BY <1>3, <1>5, OneIs, <1>1 DEF LevelFind, Drawn
<1> QED
  BY <1>4, <1>5

\* The nearest level that pays, one way, is reflected in the nearest the other.
LEMMA FirstPayingFlips ==
  ASSUME NEW a \in Int, NEW book \in SUBSET Int, NEW other, other = Reflect(a, book),
         NEW d \in Sides, NEW side, side = FlipSide(d),
         NEW entry \in Int, NEW sl \in Int, NEW e, e = a - entry, NEW s, s = a - sl
  PROVE  /\ FirstPaying(book, d, entry, sl) \in Optional(Int)
         /\ FirstPaying(other, side, e, s) = FlipAll(a, FirstPaying(book, d, entry, sl))
         /\ FirstPaying(book, d, entry, sl) # None =>
              Pays(entry, sl, FirstPaying(book, d, entry, sl)[1], SRF.minRR)
<1> DEFINE S == Paying(book, d, entry, sl)  T == Paying(other, side, e, s)
           best == IF d = Short THEN Max(S) ELSE Min(S)
           best2 == IF side = Short THEN Max(T) ELSE Min(T)
<1>1. S \subseteq Int /\ T = Reflect(a, S)
  <2>1. S \subseteq book
    BY DEF Paying
  <2>3. ASSUME NEW p \in book PROVE (a - p \in T) <=> (p \in S)
    <3>1. p \in Int /\ a - p \in other
      BY DEF Reflect
    <3>2. Pays(e, s, a - p, SRF.minRR) <=> Pays(entry, sl, p, SRF.minRR)
      BY <3>1, PaysFlips
    <3>3. (a - p <= e <=> p >= entry) /\ (a - p >= e <=> p <= entry)
      BY <3>1
    <3> QED
      BY <3>1, <3>2, <3>3 DEF Paying, Sides, FlipSide, Long, Short
  <2>4. T \subseteq other
    BY DEF Paying
  <2>5. T = Reflect(a, S)
    BY <2>1, <2>3, <2>4 DEF Reflect
  <2> HIDE DEF S, T
  <2> QED
    BY <2>1, <2>5
<1>2. (d = Short /\ side # Short) \/ (d # Short /\ side = Short)
  BY DEF Sides, FlipSide, Long, Short
<1>3. /\ d = Short => \A p \in S : p <= entry
      /\ d # Short => \A p \in S : p >= entry
      /\ \A p \in S : Pays(entry, sl, p, SRF.minRR)
  BY DEF Paying
<1>4. /\ FirstPaying(book, d, entry, sl) = IF S = {} THEN None ELSE <<best>>
      /\ FirstPaying(other, side, e, s) = IF T = {} THEN None ELSE <<best2>>
  BY DEF FirstPaying
<1>5. T = {} <=> S = {}
  BY <1>1 DEF Reflect
<1>6. ASSUME S # {} PROVE best \in S /\ best \in Int /\ best2 = a - best
  BY <1>1, <1>3, <1>6, BoundedExtremes, ExtremesFlip, <1>2
<1> HIDE DEF S, T, best, best2
<1>7. CASE S = {}
  <2>2. FlipAll(a, None) = None
    BY 0 \in Int, FlipOne
  <2>3. None \in Optional(Int)
    BY DEF Optional, None
  <2> QED
    BY <1>4, <1>5, <1>7, <2>2, <2>3
<1>8. CASE S # {}
  BY <1>6, <1>8, FlipOne, <1>3, <1>4, <1>5 DEF Optional
<1> QED
  BY <1>7, <1>8

\* The nearest levels of the book.
LEMMA NearestInBook ==
  ASSUME NEW a \in Int, NEW book, book \subseteq Int, NEW other, other = Reflect(a, book),
         NEW p \in Int, NEW q, q = a - p
  PROVE  /\ NearestSupport(book, p) \in Optional(Int)
         /\ NearestResistance(other, q) = FlipAll(a, NearestSupport(book, p))
<1> DEFINE S == {v \in book : v < p}  T == {v \in other : v > q}
           best == Max(S)  best2 == Min(T)
<1>1. /\ NearestSupport(book, p) = IF S = {} THEN None ELSE <<best>>
      /\ NearestResistance(other, q) = IF T = {} THEN None ELSE <<best2>>
  BY DEF NearestSupport, NearestResistance
<1>2. S \subseteq Int /\ T = Reflect(a, S)
  <2>1. ASSUME NEW v \in book PROVE a - v \in T <=> v \in S
    BY DEF Reflect
  <2>2. T \subseteq other /\ S \subseteq book
    OBVIOUS
  <2> HIDE DEF S, T
  <2> QED
    BY <2>1, <2>2 DEF Reflect
<1>3. \A v \in S : v <= p
  OBVIOUS
<1>4. T = {} <=> S = {}
  BY <1>2 DEF Reflect
<1> HIDE DEF S, T
<1>5. ASSUME S # {} PROVE best \in Int /\ best2 = a - best
  BY <1>2, <1>3, <1>5, BoundedExtremes, ExtremesFlip
<1> HIDE DEF best, best2
<1>6. CASE S = {}
  <2>1. FlipAll(a, None) = None
    BY 0 \in Int, FlipOne
  <2>2. None \in Optional(Int)
    BY DEF Optional, None
  <2> QED
    BY <1>1, <1>4, <1>6, <2>1, <2>2
<1>7. CASE S # {}
  BY <1>5, <1>7, FlipOne, <1>1, <1>4 DEF Optional
<1> QED
  BY <1>6, <1>7

\* The closes of the last ten bars, and a retest of a level they were across.
Recent(x) == {x.c15[i].close : i \in Max({1, Len(x.c15) - 9})..Len(x.c15)}
RetestReady(x) == x.n5 >= 2 /\ Len(x.c15) >= 6 /\ x.ready /\ x.atr > 0
FlipBy(x) == (x.atr15 * SRF.flip) \div 100
Retest(x, level) == Dist(x.cur.close, level) <= OfAtr(x, SRF.retest)
CameFromBelow(x, level) ==
  RetestReady(x) /\ Retest(x, level) /\ \E c \in Recent(x) : c < level - FlipBy(x)
CameFromAbove(x, level) ==
  RetestReady(x) /\ Retest(x, level) /\ \E c \in Recent(x) : c > level + FlipBy(x)
RetestDown(x, level) ==
  CameFromBelow(x, level) /\ BearishRejection(x.cur, x.prev, MinRange(x))
RetestUp(x, level) ==
  CameFromAbove(x, level) /\ BullishRejection(x.cur, x.prev, MinRange(x))

\* The retest, from its nearest levels.
LEMMA SrfIs ==
  ASSUME NEW x, LongFlips, NEW book, book = BookOf(x),
         NEW r, r = NearestResistance(book, x.cur.close),
         NEW s, s = NearestSupport(book, x.cur.close)
  PROVE  SrFlipRetest(x) = IF r # None /\ RetestDown(x, r[1]) THEN SrfBuild(x, Short, book)
                           ELSE IF s # None /\ RetestUp(x, s[1]) THEN SrfBuild(x, Long, book)
                           ELSE None
<1> DEFINE last == x.cur.close
           bk == LevelBook(x.c15, RoundStep(x), <<x.pdh, x.pdl, x.pdc>>, 1, OfAtr(x, 20))
           resistance == NearestResistance(bk, last)
           support == NearestSupport(bk, last)
           recent == {x.c15[i].close : i \in Max({1, Len(x.c15) - 9})..Len(x.c15)}
           flip == (x.atr15 * SRF.flip) \div 100
           ready == x.n5 >= 2 /\ Len(x.c15) >= 6 /\ x.ready /\ x.atr > 0
           near == Dist(last, resistance[1]) <= OfAtr(x, SRF.retest)
           near2 == Dist(last, support[1]) <= OfAtr(x, SRF.retest)
           from == \E c \in recent : c < resistance[1] - flip
           from2 == \E c \in recent : c > support[1] + flip
           down == BearishRejection(x.cur, x.prev, MinRange(x))
           up == BullishRejection(x.cur, x.prev, MinRange(x))
<1>1. SrFlipRetest(x) =
        IF /\ ready /\ resistance # None /\ near
           /\ from
           /\ down
        THEN SrfBuild(x, Short, bk)
        ELSE IF /\ LongFlips /\ ready /\ support # None /\ near2
                /\ from2
                /\ up
        THEN SrfBuild(x, Long, bk) ELSE None
  BY DEF SrFlipRetest
<1>2. bk = book /\ resistance = r /\ support = s
  BY DEF BookOf
<1> HIDE DEF bk, resistance, support
<1>3. /\ RetestDown(x, r[1]) <=> ready /\ near /\ from /\ down
      /\ RetestUp(x, s[1]) <=> ready /\ near2 /\ from2 /\ up
  BY <1>2 DEF RetestDown, RetestUp, CameFromBelow, CameFromAbove, RetestReady, Retest, FlipBy, Recent
<1> HIDE DEF ready, near, near2, from, from2, down, up
<1> QED
  BY <1>1, <1>2, <1>3

\* The closes a retest looks back on.
LEMMA RecentTurns ==
  ASSUME NEW a, NEW c, NEW k, Mirrored(a, c, k)
  PROVE  Recent(c) \subseteq Int /\ Recent(k) = Reflect(a, Recent(c))
<1>1. /\ a \in Int /\ c.c15 \in Seq(Bars) /\ Len(k.c15) = Len(c.c15)
      /\ k.c15 = FlipBars(a, c.c15) /\ Len(c.c15) \in Nat
  BY BarsKept, MirroredBar
<1> DEFINE n == Len(c.c15)  first == Max({1, n - 9})
<1>2. first \in Int /\ first >= 1
  BY <1>1, OfPair
<1>3. \A i \in first..n : c.c15[i].close \in Int /\ k.c15[i].close = a - c.c15[i].close
  BY <1>1, FlippedPrices, <1>2
<1>4. /\ Recent(c) = {c.c15[i].close : i \in first..n}
      /\ Recent(k) = {k.c15[i].close : i \in first..n}
  BY <1>1 DEF Recent
<1> HIDE DEF first, n
<1> QED
  BY <1>3, <1>4 DEF Reflect

\* On which side of a level they are.
LEMMA CameTurns ==
  ASSUME NEW a, NEW c, NEW k, Mirrored(a, c, k), NEW level \in Int, NEW image, image = a - level
  PROVE  /\ CameFromBelow(k, image) <=> CameFromAbove(c, level)
         /\ RetestDown(k, image) <=> RetestUp(c, level)
<1>1. /\ a \in Int /\ c.cur.close \in Int /\ k.cur.close = a - c.cur.close
  BY MirroredBar
<1>2. RetestReady(k) <=> RetestReady(c)
  BY BarsKept DEF Mirrored, SameReads, RetestReady
<1>3. FlipBy(k) = FlipBy(c) /\ FlipBy(c) \in Int
  BY DEF Mirrored, SameReads, Readable, SRF, FlipBy
<1>4. Retest(k, image) <=> Retest(c, level)
  <2>1. SRF.retest \in Nat
    BY DEF SRF
  <2>2. OfAtr(k, SRF.retest) = OfAtr(c, SRF.retest)
    BY <2>1, MirroredAtr
  <2>3. Dist(k.cur.close, image) = Dist(c.cur.close, level)
    <3> DEFINE p == c.cur.close  q == k.cur.close
    <3>1. p \in Int /\ q = a - p
      BY <1>1
    <3> HIDE DEF p, q
    <3>3. Dist(q, image) = Dist(p, level)
      BY <3>1, <1>1, FlipDist
    <3> QED
      BY <3>3 DEF p, q
  <2> QED
    BY <2>2, <2>3 DEF Retest
<1>5. (\E x \in Recent(k) : x < image - FlipBy(k)) <=> (\E x \in Recent(c) : x > level + FlipBy(c))
  <2> DEFINE R == Recent(c)  T == Recent(k)  f == FlipBy(c)
  <2>1. R \subseteq Int /\ T = {a - v : v \in R}
    BY RecentTurns DEF Reflect
  <2>2. f \in Int /\ FlipBy(k) = f
    BY <1>3
  <2> HIDE DEF R, T, f
  <2>3. \A v \in R : a - v < image - f <=> v > level + f
    BY <1>1, <2>1, <2>2
  <2>5. (\E x \in T : x < image - f) <=> (\E x \in R : x > level + f)
    BY <2>3, <2>1
  <2> QED
    BY <2>2, <2>5 DEF R, T, f
<1> QED
  BY <1>2, <1>4, <1>5, MirroredRejections DEF RetestDown, RetestUp, CameFromBelow, CameFromAbove

\* The candidate of a retest is reflected in the one of the reflected book.
LEMMA SrfBuildFlips ==
  ASSUME NEW a, NEW c, NEW k, Mirrored(a, c, k), Quoted(a, c),
         NEW d \in Sides, NEW side, side = FlipSide(d),
         NEW book, book \subseteq Int, NEW other, other = Reflect(a, book),
         Refits(a, SrfBuild(c, d, book)), Refits(a, SrfBuild(k, side, other))
  PROVE  Twins(a, c, SrfBuild(c, d, book), SrfBuild(k, side, other))
<1> DEFINE entry == c.cur.close  e == k.cur.close
           pad == OfAtr(c, SRF.pad)  pad2 == OfAtr(k, SRF.pad)
           sl == IF d = Short THEN c.cur.high + OfAtr(c, SRF.pad) ELSE c.cur.low - OfAtr(c, SRF.pad)
           s == IF side = Short THEN k.cur.high + OfAtr(k, SRF.pad)
                ELSE k.cur.low - OfAtr(k, SRF.pad)
           target == FirstPaying(book, d, entry, sl)  target2 == FirstPaying(other, side, e, s)
           htf == ReversalAligned(c, d)  htf2 == ReversalAligned(k, side)
           rr == SRF.minRR  cfg == SRF
<1>1. /\ a \in Int /\ entry \in Int /\ e = a - entry
      /\ c.cur.high \in Int /\ c.cur.low \in Int
      /\ k.cur.high = a - c.cur.low /\ k.cur.low = a - c.cur.high
  BY MirroredBar
<1>2. SRF.pad \in Nat
  BY DEF SRF
<1>3. pad \in Nat /\ pad2 = pad
  BY <1>2, MirroredAtr
<1>5. "SRF" \in {"SRF", "OIS"} /\ cfg = Band("SRF")
  BY DEF Band
<1>6. htf \in BOOLEAN /\ htf2 \in BOOLEAN /\ (htf2 <=> htf)
  BY HourTurns, LabelsTell
<1>7. /\ sl = (IF d = Short THEN c.cur.high + pad ELSE c.cur.low - pad)
      /\ s = (IF side = Short THEN k.cur.high + pad2 ELSE k.cur.low - pad2)
  OBVIOUS
<1>8. sl \in Int /\ s = a - sl
  BY <1>1, <1>3, <1>7 DEF Sides, FlipSide, Long, Short
<1>9. /\ target # None => Pays(entry, sl, target[1], rr)
      /\ target \in Optional(Int) /\ target2 = FlipAll(a, target)
  BY <1>1, <1>8, FirstPayingFlips
<1>10. target2 # None => Pays(e, s, target2[1], rr)
  <2> HIDE DEF target, target2, entry, e, sl, s, rr
  <2>2. ASSUME NEW q \in Int, target = <<q>>, target2 = <<a - q>> PROVE Pays(e, s, target2[1], rr)
    <3>1. target # None /\ target[1] = q /\ target2[1] = a - q
      BY <2>2, OneIs
    <3>2. Pays(entry, sl, q, rr)
      BY <1>9, <3>1
    <3>3. Pays(a - entry, a - sl, a - q, rr) <=> Pays(entry, sl, q, rr)
      BY <1>1, <1>8, PaysFlips
    <3> QED
      BY <1>1, <1>8, <3>1, <3>2, <3>3
  <2> QED
    BY <1>1, <1>9, FlipOptional, <2>2
<1> DEFINE one == LevelFind(c, "SRF", cfg, d, entry, sl, target, rr, htf)
           two == LevelFind(k, "SRF", cfg, side, e, s, target2, rr, htf2)
<1>11. SrfBuild(c, d, book) = one
  BY <1>9, SrfBuildIs
<1>12. SrfBuild(k, side, other) = two
  BY <1>10, SrfBuildIs
<1> HIDE DEF entry, e, pad, pad2, sl, s, target, target2, htf, htf2, rr, cfg
<1>13. /\ Refits(a, one) /\ Refits(a, two)
  BY <1>11, <1>12
<1>14. Twins(a, c, one, two)
  BY <1>1, <1>5, <1>6, <1>8, <1>9, <1>13, LevelKept
<1> QED
  BY <1>11, <1>12, <1>14

\* A retest is reflected in a retest, where both directions are on and the
\* books are each other's reflections.
LEMMA SrfFlips ==
  ASSUME NEW a, NEW c, NEW k, Mirrored(a, c, k), Quoted(a, c), LongFlips,
         BookOf(c) \subseteq Int, BookOf(k) = Reflect(a, BookOf(c)),
         Refits(a, SrFlipRetest(c)), Refits(a, SrFlipRetest(k))
  PROVE  Twins(a, c, SrFlipRetest(c), SrFlipRetest(k))
<1> DEFINE srf == SrFlipRetest(c)  srf2 == SrFlipRetest(k)
           book == BookOf(c)  other == BookOf(k)
           last == c.cur.close  e == k.cur.close
           r == NearestResistance(book, last)  s == NearestSupport(book, last)
           r2 == NearestResistance(other, e)  s2 == NearestSupport(other, e)
<1>1. a \in Int /\ last \in Int /\ e = a - last /\ e \in Int /\ last = a - e
  BY MirroredBar
<1>2. book \subseteq Int /\ other = Reflect(a, book) /\ other \subseteq Int /\ book = Reflect(a, other)
  <2> HIDE DEF book, other
  <2>1. book \subseteq Int /\ other = Reflect(a, book)
    BY DEF book, other
  <2>2. \A v \in book : v \in Int /\ a - v \in other /\ a - (a - v) = v
    BY <1>1, <2>1 DEF Reflect
  <2>3. \A w \in other : w \in Int /\ \E v \in book : v = a - w /\ w = a - v
    BY <1>1, <2>1 DEF Reflect
  <2>4. book = Reflect(a, other)
    BY <2>2, <2>3 DEF Reflect
  <2> QED
    BY <2>1, <2>3, <2>4
<1>3. /\ srf = IF r # None /\ RetestDown(c, r[1]) THEN SrfBuild(c, Short, book)
               ELSE IF s # None /\ RetestUp(c, s[1]) THEN SrfBuild(c, Long, book) ELSE None
      /\ srf2 = IF r2 # None /\ RetestDown(k, r2[1]) THEN SrfBuild(k, Short, other)
                ELSE IF s2 # None /\ RetestUp(k, s2[1]) THEN SrfBuild(k, Long, other) ELSE None
  BY SrfIs
<1>4. Refits(a, srf) /\ Refits(a, srf2)
  OBVIOUS
<1> HIDE DEF srf, srf2, book, other, last, e
<1>5. s \in Optional(Int) /\ r2 = FlipAll(a, s)
  BY <1>1, <1>2, NearestInBook
<1>6. s2 \in Optional(Int) /\ r = FlipAll(a, s2)
  BY <1>1, <1>2, NearestInBook
<1> HIDE DEF r, s, r2, s2
<1>7. /\ (s = None /\ r2 = None) \/ \E q \in Int : s = <<q>> /\ r2 = <<a - q>>
      /\ (s2 = None /\ r = None) \/ \E q \in Int : s2 = <<q>> /\ r = <<a - q>>
  BY <1>1, <1>5, <1>6, FlipOptional
<1> DEFINE down == r # None /\ RetestDown(c, r[1])   up == s # None /\ RetestUp(c, s[1])
           down2 == r2 # None /\ RetestDown(k, r2[1])   up2 == s2 # None /\ RetestUp(k, s2[1])
<1>8. down2 <=> up
  BY OneIs, CameTurns, <1>7
<1>9. up2 <=> down
  BY OneIs, MirrorTurns, CameTurns, <1>7
<1>10. ~ (down /\ up)
  BY MirroredRejections DEF RetestDown, RetestUp
<1> HIDE DEF down, up, down2, up2
<1>11. /\ srf = IF down THEN SrfBuild(c, Short, book) ELSE IF up THEN SrfBuild(c, Long, book) ELSE None
       /\ srf2 = IF down2 THEN SrfBuild(k, Short, other)
                 ELSE IF up2 THEN SrfBuild(k, Long, other) ELSE None
  BY <1>3 DEF down, up, down2, up2
<1>12. /\ Long \in Sides /\ Short \in Sides /\ Short = FlipSide(Long) /\ Long = FlipSide(Short)
  BY DEF Sides, FlipSide, Long, Short
<1>13. CASE down
  BY <1>8, <1>9, <1>10, <1>11, <1>13, <1>4, <1>2, <1>12, SrfBuildFlips DEF srf, srf2
<1>14. CASE up /\ ~down
  BY <1>8, <1>9, <1>11, <1>14, <1>4, <1>2, <1>12, SrfBuildFlips DEF srf, srf2
<1>15. CASE ~up /\ ~down
  BY <1>8, <1>9, <1>11, <1>15, NoneFound DEF srf, srf2
<1> QED
  BY <1>13, <1>14, <1>15

\* Which evaluator a setup is.
LEMMA EvaluatorOf ==
  ASSUME NEW x
  PROVE  /\ Evaluate("LSR", x) = LiquiditySweepReversal(x)
         /\ Evaluate("ORB", x) = OpeningRangeBreakout(x)
         /\ Evaluate("TPE", x) = TrendPullbackEma(x)
         /\ Evaluate("VSB", x) = VolumeBreakout(x, Long, "VSB")
         /\ Evaluate("BDS", x) = VolumeBreakout(x, Short, "BDS")
         /\ Evaluate("SRF", x) = SrFlipRetest(x)
         /\ Evaluate("PCR", x) = IF x.index THEN PcrExtreme(x) ELSE None
         /\ Evaluate("FAR", x) = FailedAuctionReclaim(x)
         /\ Evaluate("DIV", x) = DivergenceContinuation(x)
         /\ Evaluate("QCB", x) = QuietCompressionBreak(x)
         /\ Evaluate("MAC", x) = MaCrossTrendShift(x)
         /\ Evaluate("OIS", x) = OiSpikeReversal(x)
         /\ Evaluate("EGS", x) = IF x.index THEN ExpiryGammaSqueeze(x) ELSE None
<1>2. /\ Evaluate("VSB", x) = VolumeBreakout(x, Long, "VSB")
      /\ Evaluate("BDS", x) = VolumeBreakout(x, Short, "BDS")
  BY DEF Evaluate, IndexOnly, VolumeSurgeBreakout, BreakdownShort
<1>3. /\ Evaluate("PCR", x) = IF x.index THEN PcrExtreme(x) ELSE None
      /\ Evaluate("EGS", x) = IF x.index THEN ExpiryGammaSqueeze(x) ELSE None
  BY DEF Evaluate, IndexOnly
<1>4. /\ Evaluate("FAR", x) = FailedAuctionReclaim(x)
      /\ Evaluate("DIV", x) = DivergenceContinuation(x)
      /\ Evaluate("QCB", x) = QuietCompressionBreak(x)
      /\ Evaluate("MAC", x) = MaCrossTrendShift(x)
      /\ Evaluate("OIS", x) = OiSpikeReversal(x)
  BY DEF Evaluate, IndexOnly
<1> QED
  BY <1>2, <1>3, <1>4 DEF Evaluate, IndexOnly

\* What a setup is reflected in.
CloseSetups == {"LSR", "ORB", "TPE", "VIX", "PCR", "FAR", "DIV", "QCB", "EGS"}
\* The axes the property reflects in.
LEMMA AxisIs ==
  ASSUME NEW c \in Contexts
  PROVE  /\ \A setup \in SetupClasses : AxisOf(setup, c) \in Int
         /\ \A setup \in CloseSetups : AtClose(AxisOf(setup, c), c)
         /\ OnAxis(AxisOf("OIS", c), RoundOf(c))
         /\ c.cross # None => OnAxis(AxisOf("MAC", c), c.cross[1].close)
         /\ SurgeSwing(c, Long) # None =>
              AxisOf("VSB", c) = 2 * Past(Long, SurgeSwing(c, Long)[1], OfAtr(c, VSB.entry))
         /\ SurgeSwing(c, Short) # None =>
              AxisOf("BDS", c) = 2 * Past(Short, SurgeSwing(c, Short)[1], OfAtr(c, VSB.entry))
<1> DEFINE top == SwingHigh(c, VSB.lookback)  bottom == SwingLow(c, VSB.lookback)
<1>1. Mirrored(0, c, FlipContext(0, c))
  BY 0 \in Int, ReflectionMirrors
<1>2. VSB.lookback \in Nat /\ VSB.entry \in Nat
  BY DEF VSB
<1>3. top \in Optional(Int) /\ bottom \in Optional(Int)
  BY <1>1, <1>2, MirroredSwings
<1>4. OfAtr(c, VSB.entry) \in Nat /\ RoundStep(c) \in {50, 100}
  BY <1>1, <1>2, MirroredAtr
<1>5. c.cur.close \in Int
  BY <1>1, MirroredBar
<1>6. c.cross # None => c.cross[1].close \in Int
  BY <1>1 DEF Mirrored, TurnedPrices, CrossReads
<1>8. /\ SurgeSwing(c, Long) = top /\ SurgeSwing(c, Short) = bottom
      /\ top # None => Past(Long, top[1], OfAtr(c, VSB.entry)) = top[1] + OfAtr(c, VSB.entry)
      /\ bottom # None => Past(Short, bottom[1], OfAtr(c, VSB.entry)) = bottom[1] - OfAtr(c, VSB.entry)
  BY DEF Long, Short, SurgeSwing, Past
<1>9. /\ top # None => top[1] \in Int
      /\ bottom # None => bottom[1] \in Int
  BY <1>3 DEF Optional, None
<1> DEFINE Mid(setup) == MirrorOf(setup, c)
<1>10. /\ Mid("VSB") = IF top # None THEN top[1] + OfAtr(c, VSB.entry) ELSE c.cur.close
       /\ Mid("BDS") = IF bottom # None THEN bottom[1] - OfAtr(c, VSB.entry) ELSE c.cur.close
       /\ Mid("MAC") = IF c.cross # None THEN c.cross[1].close ELSE c.cur.close
  BY DEF MirrorOf, RoundSetups
<1>11. \A setup \in RoundSetups : Mid(setup) = RoundTo(c.cur.close, RoundStep(c))
  BY DEF MirrorOf, RoundSetups
<1>12. \A setup \in CloseSetups : Mid(setup) = c.cur.close
  BY DEF MirrorOf, RoundSetups, CloseSetups
<1>13. \A setup : AxisOf(setup, c) = 2 * Mid(setup)
  BY DEF AxisOf
<1>14. \A setup \in SetupClasses : setup \in CloseSetups \cup RoundSetups \cup {"VSB", "BDS", "MAC"}
  BY DEF SetupClasses, CloseSetups, RoundSetups
<1> HIDE DEF top, bottom, Mid
<1>15. \A setup \in SetupClasses : Mid(setup) \in Int
  BY <1>4, <1>5, <1>6, GridIs, <1>9, <1>10, <1>11, <1>12, <1>14
<1> QED
  BY <1>8, <1>10, <1>11, <1>12, <1>13, <1>15 DEF AtClose, OnAxis, RoundOf, RoundSetups

\* The retest, of either side.
LEMMA SrfSides ==
  ASSUME NEW c \in Contexts, NEW a \in Int, NEW k, k = FlipContext(a, c), Quoted(a, c), LongFlips,
         SameBook("SRF", a, c), Refits(a, SrFlipRetest(c)), Refits(a, SrFlipRetest(k))
  PROVE  Twins(a, c, SrFlipRetest(c), SrFlipRetest(k))
<1>1. Mirrored(a, c, k)
  BY ReflectionMirrors
<1>2. CASE Len(c.c15) < 6
  <2>2. ASSUME NEW x, ~ (Len(x.c15) >= 6) PROVE SrFlipRetest(x) = None
    <3> DEFINE r == NearestResistance(BookOf(x), x.cur.close)
               s == NearestSupport(BookOf(x), x.cur.close)
    <3>1. SrFlipRetest(x) = IF r # None /\ RetestDown(x, r[1]) THEN SrfBuild(x, Short, BookOf(x))
                            ELSE IF s # None /\ RetestUp(x, s[1]) THEN SrfBuild(x, Long, BookOf(x))
                            ELSE None
      BY SrfIs
    <3>2. ~RetestDown(x, r[1]) /\ ~RetestUp(x, s[1])
      BY <2>2 DEF RetestDown, RetestUp, CameFromBelow, CameFromAbove, RetestReady
    <3> HIDE DEF r, s
    <3> QED
      BY <3>1, <3>2
  <2>3. ~ (Len(c.c15) >= 6) /\ ~ (Len(k.c15) >= 6)
    BY <1>1, <1>2, BarsKept
  <2>4. SrFlipRetest(c) = None /\ SrFlipRetest(k) = None
    BY <2>2, <2>3
  <2> QED
    BY <2>4, NoneFound
<1>3. CASE ~ (Len(c.c15) < 6)
  <2>1. Len(c.c15) \in Nat
    BY <1>1, BarsKept
  <2>2. Len(c.c15) > 0
    BY <1>3, <2>1
  <2>3. BookOf(c) \subseteq Int
    <3> DEFINE extra == <<c.pdh, c.pdl, c.pdc>>  step == RoundStep(c)  tol == OfAtr(c, 20)
    <3>1. c.c15 \in Seq(Candles) /\ extra \in Seq(Int)
      BY ContextTyped
    <3>2. step \in {50, 100}
      BY DEF RoundStep
    <3>3. BookOf(c) = LevelBook(c.c15, step, extra, 1, tol)
      BY DEF BookOf
    <3> HIDE DEF extra, step, tol
    <3> QED
      BY <2>2, <3>1, <3>2, <3>3, BookTyped
  <2>4. BookOf(k) = Reflect(a, BookOf(c))
    BY DEF SameBook, Reflect
  <2> QED
    BY <1>1, <2>3, <2>4, SrfFlips
<1> QED
  BY <1>2, <1>3

\* An evaluator finds in the reflection of a context the reflected candidate.
LEMMA CandidateFlips ==
  ASSUME NEW setup \in SetupClasses, NEW c \in Contexts, NEW found, found = Evaluate(setup, c)
  PROVE  BothSides(setup, c) \/ Lopsided(setup, c) \/ SameImage(setup, c, found)
<1> DEFINE a == AxisOf(setup, c)  k == FlipContext(a, c)
           name == FlipSetup(setup)  image == Evaluate(name, k)
<1> SUFFICES ASSUME ~BothSides(setup, c), ~Lopsided(setup, c), Quoted(a, c),
                    SameBook(setup, a, c), Refits(a, found), Refits(a, image)
             PROVE  Twins(a, c, found, image)
  BY DEF SameImage, Twins
<1>1. a \in Int /\ Mirrored(a, c, k)
  BY AxisIs, ReflectionMirrors
<1>2. /\ setup \in CloseSetups => AtClose(a, c)
      /\ setup = "OIS" => OnAxis(a, RoundOf(c))
      /\ setup = "MAC" => (c.cross # None => OnAxis(a, c.cross[1].close))
      /\ setup = "VSB" => (SurgeSwing(c, Long) # None =>
              a = 2 * Past(Long, SurgeSwing(c, Long)[1], OfAtr(c, VSB.entry)))
      /\ setup = "BDS" => (SurgeSwing(c, Short) # None =>
              a = 2 * Past(Short, SurgeSwing(c, Short)[1], OfAtr(c, VSB.entry)))
  BY AxisIs
<1>3. name = CASE setup = "VSB" -> "BDS" [] setup = "BDS" -> "VSB" [] OTHER -> setup
  BY DEF FlipSetup
<1>4. k.index = c.index
  BY <1>1 DEF Mirrored, SameReads
<1>5. /\ Long \in Sides /\ Short \in Sides /\ Short = FlipSide(Long) /\ Long = FlipSide(Short)
  BY DEF Sides, FlipSide, Long, Short
<1>6. k = FlipContext(a, c)
  OBVIOUS
<1> HIDE DEF a, k, name
<1>7. CASE setup = "LSR"
  BY <1>3, <1>7, EvaluatorOf, <1>2, <1>1, LsrFlips DEF CloseSetups
<1>8. CASE setup = "ORB"
  BY <1>3, <1>8, EvaluatorOf, <1>2, <1>1, OrbFlips DEF CloseSetups
<1>9. CASE setup = "TPE"
  BY <1>3, <1>9, EvaluatorOf, <1>2, <1>1, TpeFlips DEF CloseSetups
<1>10. CASE setup = "VSB"
  BY <1>3, <1>10, EvaluatorOf, <1>1, <1>2, <1>5, SurgeFlips DEF GridSetups, FlipSetup
<1>11. CASE setup = "BDS"
  BY <1>3, <1>11, EvaluatorOf, <1>1, <1>2, <1>5, SurgeFlips DEF GridSetups, FlipSetup
<1>12. CASE setup = "SRF"
  BY <1>3, <1>12, EvaluatorOf, <1>1, <1>6, SrfSides DEF Lopsided
<1>13. CASE setup = "VIX"
  BY <1>13 DEF Lopsided
<1>14. CASE setup = "PCR"
  BY <1>3, <1>14, EvaluatorOf, <1>2, <1>1, PcrFlips, <1>4, NoneFound DEF CloseSetups
<1>15. CASE setup = "FAR"
  BY <1>3, <1>15, EvaluatorOf, <1>2, <1>1, FarFlips DEF CloseSetups
<1>16. CASE setup = "DIV"
  BY <1>3, <1>16, EvaluatorOf, <1>2, <1>1, DivFlips DEF CloseSetups
<1>17. CASE setup = "QCB"
  BY <1>3, <1>17, EvaluatorOf, <1>2, <1>1, QcbFlips DEF CloseSetups
<1>18. CASE setup = "MAC"
  BY <1>3, <1>18, EvaluatorOf, <1>1, <1>2, MacFlips
<1>19. CASE setup = "OIS"
  BY <1>3, <1>19, EvaluatorOf, <1>2, <1>1, OisFlips
<1>20. CASE setup = "EGS"
  BY <1>3, <1>20, EvaluatorOf, <1>2, <1>1, EgsFlips, <1>4, NoneFound DEF CloseSetups
<1> QED
  BY <1>7, <1>8, <1>9, <1>10, <1>11, <1>12, <1>13, <1>14, <1>15, <1>16, <1>17, <1>18,
     <1>19, <1>20 DEF SetupClasses

(***************************************************************************)
(* The scores of a reflection.                                             *)
(***************************************************************************)
\* A break of structure, off the close and the last two highs and lows.
Broke(close, h1, h2, l1, l2) ==
  IF close > h1 THEN IF h1 < h2 /\ l1 < l2 THEN "CHOCH_UP" ELSE "BOS_UP"
  ELSE IF close < l1 THEN IF h1 > h2 /\ l1 > l2 THEN "CHOCH_DOWN" ELSE "BOS_DOWN"
  ELSE "none"

FlipEvent(e) ==
  CASE e = "BOS_UP" -> "BOS_DOWN" [] e = "BOS_DOWN" -> "BOS_UP"
    [] e = "CHOCH_UP" -> "CHOCH_DOWN" [] e = "CHOCH_DOWN" -> "CHOCH_UP" [] OTHER -> e

\* A break of structure, from its swings.
LEMMA BreakIs ==
  ASSUME NEW bars, NEW i, NEW highs, highs = Confirmed(SwingHighs(bars, 2), i, 2),
         NEW lows, lows = Confirmed(SwingLows(bars, 2), i, 2),
         NEW h1, h1 = bars[Max(highs)].high, NEW h2, h2 = bars[Max(highs \ {Max(highs)})].high,
         NEW l1, l1 = bars[Max(lows)].low, NEW l2, l2 = bars[Max(lows \ {Max(lows)})].low
  PROVE  BreakAt(bars, i, 2) = IF Cardinality(highs) < 2 \/ Cardinality(lows) < 2 THEN "none"
                               ELSE Broke(bars[i].close, h1, h2, l1, l2)
BY DEF BreakAt, Broke

\* A break is reflected in a break the other way.
LEMMA BreakFlips ==
  ASSUME NEW a \in Int, NEW bars \in Seq(Bars), NEW i \in 1..Len(bars),
         ~BreaksBothWays(bars, i, 2)
  PROVE  BreakAt(FlipBars(a, bars), i, 2) = FlipEvent(BreakAt(bars, i, 2))
<1> DEFINE k == FlipBars(a, bars)  n == Len(bars)
           highs == Confirmed(SwingHighs(bars, 2), i, 2)
           lows == Confirmed(SwingLows(bars, 2), i, 2)
           h1 == bars[Max(highs)].high   h2 == bars[Max(highs \ {Max(highs)})].high
           l1 == bars[Max(lows)].low     l2 == bars[Max(lows \ {Max(lows)})].low
           g1 == k[Max(lows)].high       g2 == k[Max(lows \ {Max(lows)})].high
           m1 == k[Max(highs)].low       m2 == k[Max(highs \ {Max(highs)})].low
           few == Cardinality(highs) < 2 \/ Cardinality(lows) < 2
<1>1. /\ Confirmed(SwingHighs(k, 2), i, 2) = lows
      /\ Confirmed(SwingLows(k, 2), i, 2) = highs
  BY 2 \in Nat, SwingsFlip
<1>2. BreakAt(bars, i, 2) = IF few THEN "none" ELSE Broke(bars[i].close, h1, h2, l1, l2)
  BY DEF BreakAt, Broke
<1>3. BreakAt(k, i, 2) = IF few THEN "none" ELSE Broke(k[i].close, g1, g2, m1, m2)
  <2> HIDE DEF k, highs, lows
  <2>1. lows = Confirmed(SwingHighs(k, 2), i, 2) /\ highs = Confirmed(SwingLows(k, 2), i, 2)
    BY <1>1
  <2> QED
    BY <2>1, BreakIs
<1>4. highs \subseteq 1..n /\ lows \subseteq 1..n /\ n \in Nat
  BY DEF Confirmed, SwingHighs, SwingLows
<1>5. ~few => ~ (bars[i].close > h1 /\ bars[i].close < l1)
  <2> SUFFICES ASSUME ~few, bars[i].close > h1, bars[i].close < l1 PROVE FALSE
    OBVIOUS
  <2>1. Cardinality(highs) \in Nat /\ Cardinality(lows) \in Nat
    <3>1. IsFiniteSet(1..n)
      BY <1>4, FS_Interval
    <3>2. IsFiniteSet(highs) /\ IsFiniteSet(lows)
      BY <1>4, <3>1, FS_Subset
    <3> QED
      BY <3>2, FS_CardinalityType
  <2> QED
    BY <2>1 DEF BreaksBothWays
<1>6. \A j \in 1..n : /\ bars[j].high \in Int /\ bars[j].low \in Int /\ bars[j].close \in Int
                      /\ k[j].high = a - bars[j].low /\ k[j].low = a - bars[j].high
                      /\ k[j].close = a - bars[j].close
  BY FlippedPrices
<1> HIDE DEF k, n, highs, lows, few
<1>7. CASE few
  BY <1>2, <1>3, <1>7 DEF k, FlipEvent
<1>8. CASE ~few
  <2>2. /\ h1 \in Int /\ h2 \in Int /\ l1 \in Int /\ l2 \in Int
        /\ g1 = a - l1 /\ g2 = a - l2 /\ m1 = a - h1 /\ m2 = a - h2
    BY <1>6, <1>4, <1>8, GreatestTwo DEF few
  <2> HIDE DEF h1, h2, l1, l2, g1, g2, m1, m2
  <2>4. Broke(k[i].close, g1, g2, m1, m2) = FlipEvent(Broke(bars[i].close, h1, h2, l1, l2))
    <3> DEFINE close == bars[i].close  last == k[i].close
    <3>1. close \in Int /\ ~ (close > h1 /\ close < l1) /\ last = a - close
      BY <1>5, <1>8, <1>6 DEF n
    <3> HIDE DEF close, last
    <3>2. Broke(last, g1, g2, m1, m2) = FlipEvent(Broke(close, h1, h2, l1, l2))
      BY <2>2, <3>1 DEF Broke, FlipEvent
    <3> QED
      BY <3>2 DEF close, last
  <2> QED
    BY <1>2, <1>3, <1>8, <2>4 DEF k
<1> QED
  BY <1>7, <1>8

\* The last break of some bars.
LEMMA EventTurns ==
  ASSUME NEW a \in Int, NEW bars \in Seq(Bars), NEW lookback \in Nat,
         \A i \in 1..Len(bars) : ~BreaksBothWays(bars, i, 2)
  PROVE  LastStructureEvent(FlipBars(a, bars), 2, lookback)
           = FlipEvent(LastStructureEvent(bars, 2, lookback))
<1> DEFINE k == FlipBars(a, bars)  n == Len(bars)
           from == Max({2, n - lookback}) + 1
           S == {i \in from..n : BreakAt(bars, i, 2) # "none"}
           T == {i \in from..n : BreakAt(k, i, 2) # "none"}
<1>1. Len(k) = n /\ n \in Nat
  BY FlipBarsAre
<1>2. from \in Int /\ from >= 1
  <2> DEFINE m == Max({2, n - lookback})
  <2> HIDE DEF m
  <2> QED
    BY <1>1, OfPair DEF m
<1>3. /\ LastStructureEvent(bars, 2, lookback) = IF S = {} THEN "none" ELSE BreakAt(bars, Max(S), 2)
      /\ LastStructureEvent(k, 2, lookback) = IF T = {} THEN "none" ELSE BreakAt(k, Max(T), 2)
  BY <1>1 DEF LastStructureEvent
<1>4. \A i \in 1..n : BreakAt(k, i, 2) = FlipEvent(BreakAt(bars, i, 2))
  BY BreakFlips
<1>5. \A e : (FlipEvent(e) # "none" <=> e # "none") /\ FlipEvent("none") = "none"
  BY DEF FlipEvent
<1> HIDE DEF k, n, from
<1>6. from..n \subseteq 1..n
  BY <1>1, <1>2
<1>7. T = S
  BY <1>4, <1>5, <1>6
<1>8. S # {} => Max(S) \in 1..n
  <2> SUFFICES ASSUME S # {} PROVE Max(S) \in 1..n
    OBVIOUS
  <2>1. S \subseteq 1..n
    BY <1>6
  <2> HIDE DEF S
  <2> QED
    BY <1>1, <2>1, Greatest
<1> HIDE DEF S, T
<1>9. LastStructureEvent(k, 2, lookback) = FlipEvent(LastStructureEvent(bars, 2, lookback))
  BY <1>3, <1>5, <1>7, <1>4, <1>8
<1> QED
  BY <1>9 DEF k

\* The zones of a demand or of a supply that no later bar traded into, and
\* that a price lies in.
Inside(bars, i, top, bottom, entry, tol) ==
  /\ ~ \E j \in (i + 2)..Len(bars) : bars[j].low <= top /\ bars[j].high >= bottom
  /\ bottom - tol <= entry /\ entry <= top + tol
DemandBlock(bars, i) == bars[i].close < bars[i].open /\ bars[i + 1].close > bars[i].high
SupplyBlock(bars, i) == bars[i].close > bars[i].open /\ bars[i + 1].close < bars[i].low
GapUp(bars, i) == bars[i + 1].low > bars[i - 1].high
GapDown(bars, i) == bars[i - 1].low > bars[i + 1].high
Demand(bars, entry, tol) ==
  \/ \E i \in 1..(Len(bars) - 1) :
       DemandBlock(bars, i) /\ Inside(bars, i, bars[i].high, bars[i].low, entry, tol)
  \/ \E i \in 2..(Len(bars) - 1) :
       GapUp(bars, i) /\ Inside(bars, i, bars[i + 1].low, bars[i - 1].high, entry, tol)
Supply(bars, entry, tol) ==
  \/ \E i \in 1..(Len(bars) - 1) :
       SupplyBlock(bars, i) /\ Inside(bars, i, bars[i].high, bars[i].low, entry, tol)
  \/ \E i \in 2..(Len(bars) - 1) :
       GapDown(bars, i) /\ Inside(bars, i, bars[i - 1].low, bars[i + 1].high, entry, tol)

\* The zones near an entry, by side.
LEMMA ZonesAre ==
  ASSUME NEW bars, NEW entry, NEW tol, NEW d \in Sides
  PROVE  (\E z \in Unmitigated(OrderBlocks(bars) \cup FairValueGaps(bars), bars) :
            /\ z.bullish = (d = Long)
            /\ z.bottom - tol <= entry /\ entry <= z.top + tol)
         <=> IF d = Long THEN Demand(bars, entry, tol) ELSE Supply(bars, entry, tol)
<1> DEFINE before == 1..(Len(bars) - 1)  mid == 2..(Len(bars) - 1)
           U == {i \in before : DemandBlock(bars, i)}  V == {i \in before : SupplyBlock(bars, i)}
           P == {i \in mid : GapUp(bars, i)}  Q == {i \in mid : GapDown(bars, i)}
           A(i) == Zone(i, bars[i].high, bars[i].low, TRUE)
           B(i) == Zone(i, bars[i].high, bars[i].low, FALSE)
           C(i) == Zone(i, bars[i + 1].low, bars[i - 1].high, TRUE)
           D(i) == Zone(i, bars[i - 1].low, bars[i + 1].high, FALSE)
           Good(z) == /\ ~Mitigated(z, bars) /\ z.bullish = (d = Long)
                      /\ z.bottom - tol <= entry /\ entry <= z.top + tol
<1>1. /\ OrderBlocks(bars) = {A(i) : i \in U} \cup {B(i) : i \in V}
      /\ FairValueGaps(bars) = {C(i) : i \in P} \cup {D(i) : i \in Q}
  BY DEF OrderBlocks, FairValueGaps, DemandBlock, SupplyBlock, GapUp, GapDown
<1>2. \A i, top, bottom :
        /\ Good(Zone(i, top, bottom, TRUE)) <=> (d = Long) /\ Inside(bars, i, top, bottom, entry, tol)
        /\ Good(Zone(i, top, bottom, FALSE)) <=> (d # Long) /\ Inside(bars, i, top, bottom, entry, tol)
  <2> TAKE i, top, bottom
  <2>1. ASSUME NEW flag, NEW z, z = Zone(i, top, bottom, flag)
        PROVE  z.index = i /\ z.top = top /\ z.bottom = bottom /\ z.bullish = flag
    BY <2>1 DEF Zone
  <2>2. ASSUME NEW flag \in BOOLEAN, NEW z, z = Zone(i, top, bottom, flag)
        PROVE  Good(z) <=> (flag = (d = Long)) /\ Inside(bars, i, top, bottom, entry, tol)
    BY <2>1, <2>2 DEF Mitigated, Inside
  <2> HIDE DEF Good
  <2> QED
    BY <2>2
<1>3. (\E z \in Unmitigated(OrderBlocks(bars) \cup FairValueGaps(bars), bars) :
         /\ z.bullish = (d = Long)
         /\ z.bottom - tol <= entry /\ entry <= z.top + tol)
      <=> \E z \in OrderBlocks(bars) \cup FairValueGaps(bars) : Good(z)
  BY DEF Unmitigated
<1> HIDE DEF Good, U, V, P, Q
<1>4. (\E z \in OrderBlocks(bars) \cup FairValueGaps(bars) : Good(z))
      <=> \/ \E i \in U : Good(A(i))
          \/ \E i \in V : Good(B(i))
          \/ \E i \in P : Good(C(i))
          \/ \E i \in Q : Good(D(i))
  BY <1>1
<1>5. /\ (\E i \in U : Good(A(i))) <=>
           (d = Long) /\ \E i \in before : /\ DemandBlock(bars, i)
                                           /\ Inside(bars, i, bars[i].high, bars[i].low, entry, tol)
      /\ (\E i \in V : Good(B(i))) <=>
           (d # Long) /\ \E i \in before : /\ SupplyBlock(bars, i)
                                           /\ Inside(bars, i, bars[i].high, bars[i].low, entry, tol)
  BY <1>2 DEF U, V
<1>6. /\ (\E i \in P : Good(C(i))) <=>
           (d = Long) /\ \E i \in mid :
              GapUp(bars, i) /\ Inside(bars, i, bars[i + 1].low, bars[i - 1].high, entry, tol)
      /\ (\E i \in Q : Good(D(i))) <=>
           (d # Long) /\ \E i \in mid :
              GapDown(bars, i) /\ Inside(bars, i, bars[i - 1].low, bars[i + 1].high, entry, tol)
  BY <1>2 DEF P, Q
<1> QED
  BY <1>3, <1>4, <1>5, <1>6 DEF Demand, Supply

\* A supply is reflected in a demand.
LEMMA DemandTurns ==
  ASSUME NEW a \in Int, NEW bars \in Seq(Bars), NEW k, k = FlipBars(a, bars),
         NEW entry \in Int, NEW e, e = a - entry, NEW tol \in Int
  PROVE  Demand(k, e, tol) <=> Supply(bars, entry, tol)
<1> DEFINE n == Len(bars)
<1>1. Len(k) = n /\ n \in Nat
  BY FlipBarsAre
<1>2. \A i \in 1..n : /\ bars[i].open \in Int /\ bars[i].high \in Int
                      /\ bars[i].low \in Int /\ bars[i].close \in Int
                      /\ k[i].open = a - bars[i].open /\ k[i].high = a - bars[i].low
                      /\ k[i].low = a - bars[i].high /\ k[i].close = a - bars[i].close
  BY FlippedPrices
<1> HIDE DEF n
<1>3. ASSUME NEW i \in 1..n, NEW top \in Int, NEW bottom \in Int,
             NEW hi, hi = a - bottom, NEW lo, lo = a - top
      PROVE  Inside(k, i, hi, lo, e, tol) <=> Inside(bars, i, top, bottom, entry, tol)
  <2>1. \A j \in (i + 2)..n : (k[j].low <= hi /\ k[j].high >= lo)
                                 <=> (bars[j].low <= top /\ bars[j].high >= bottom)
    <3> TAKE j \in (i + 2)..n
    <3>1. j \in 1..n
      BY <1>1
    <3> QED
      BY <1>2, <1>3, <3>1
  <2> QED
    BY <1>1, <2>1, <1>3 DEF Inside, n
<1>4. ASSUME NEW i \in 1..(n - 1)
      PROVE  (DemandBlock(k, i) /\ Inside(k, i, k[i].high, k[i].low, e, tol))
               <=> (SupplyBlock(bars, i) /\ Inside(bars, i, bars[i].high, bars[i].low, entry, tol))
  <2>1. i \in 1..n /\ i + 1 \in 1..n
    BY <1>1
  <2>2. DemandBlock(k, i) <=> SupplyBlock(bars, i)
    <3>1. /\ bars[i].open \in Int /\ bars[i].low \in Int /\ bars[i].close \in Int
          /\ k[i].open = a - bars[i].open /\ k[i].high = a - bars[i].low
          /\ k[i].close = a - bars[i].close
      BY <1>2, <2>1
    <3>2. bars[i + 1].close \in Int /\ k[i + 1].close = a - bars[i + 1].close
      BY <1>2, <2>1
    <3>4. k[i + 1].close > k[i].high <=> bars[i + 1].close < bars[i].low
      BY <3>1, <3>2
    <3> QED
      BY <3>1, <3>4 DEF DemandBlock, SupplyBlock
  <2>4. Inside(k, i, k[i].high, k[i].low, e, tol) <=> Inside(bars, i, bars[i].high, bars[i].low, entry, tol)
    BY <1>3, <2>1, <1>2
  <2> QED
    BY <2>2, <2>4
<1>5. ASSUME NEW i \in 2..(n - 1)
      PROVE  (GapUp(k, i) /\ Inside(k, i, k[i + 1].low, k[i - 1].high, e, tol))
               <=> (GapDown(bars, i) /\ Inside(bars, i, bars[i - 1].low, bars[i + 1].high, entry, tol))
  <2>1. i \in 1..n /\ i + 1 \in 1..n /\ i - 1 \in 1..n
    BY <1>1
  <2>2. GapUp(k, i) <=> GapDown(bars, i)
    BY <1>2, <2>1 DEF GapUp, GapDown
  <2> DEFINE top == bars[i - 1].low  bottom == bars[i + 1].high
             hi == k[i - 1].high  lo == k[i + 1].low
  <2>4. top \in Int /\ bottom \in Int /\ hi = a - top /\ lo = a - bottom
    BY <1>2, <2>1
  <2> HIDE DEF top, bottom, hi, lo
  <2> QED
    BY <2>2, <1>3, <2>1, <2>4 DEF top, bottom, hi, lo
<1> QED
  BY <1>1, <1>4, <1>5 DEF Demand, Supply, n

\* A part of some bars, reflected.
LEMMA SubFlips ==
  ASSUME NEW a \in Int, NEW s \in Seq(Bars), NEW t, t = FlipBars(a, s),
         NEW m \in Int, m >= 1, NEW n \in Int, n <= Len(s)
  PROVE  SubSeq(s, m, n) \in Seq(Bars) /\ SubSeq(t, m, n) = FlipBars(a, SubSeq(s, m, n))
<1> DEFINE u == SubSeq(s, m, n)  v == SubSeq(t, m, n)  w == FlipBars(a, u)  l == n - m + 1
<1>1. /\ t \in Seq(Bars) /\ Len(t) = Len(s) /\ Len(s) \in Nat
      /\ \A i \in 1..Len(s) : s[i] \in Bars /\ t[i] \in Bars /\ t[i] = FlipBar(a, s[i])
  BY FlipBarsAre
<1>2. \A i \in m..n : i \in 1..Len(s)
  BY <1>1
<1>3. (\A i \in m..n : s[i] \in Bars) /\ (\A i \in m..n : t[i] \in Bars)
  BY <1>1, <1>2
<1>4. /\ u \in Seq(Bars) /\ Len(u) = IF m <= n THEN l ELSE 0
      /\ \A i \in 1..l : u[i] = s[m + i - 1]
  BY <1>3, SubSeqProperties
<1>5. /\ v \in Seq(Bars) /\ Len(v) = IF m <= n THEN l ELSE 0
      /\ \A i \in 1..l : v[i] = t[m + i - 1]
  BY <1>3, SubSeqProperties
<1> HIDE DEF u, v
<1>6. /\ w \in Seq(Bars) /\ Len(w) = Len(u)
      /\ \A i \in 1..Len(u) : w[i] = FlipBar(a, u[i])
  BY <1>4, FlipBarsAre
<1> HIDE DEF w
<1>7. ASSUME NEW i \in 1..Len(v) PROVE v[i] = w[i]
  <2>1. i \in 1..l /\ i \in 1..Len(u) /\ m + i - 1 \in 1..Len(s)
    BY <1>1, <1>4, <1>5
  <2> QED
    BY <1>1, <1>4, <1>5, <1>6, <2>1
<1>8. v = w
  BY <1>4, <1>5, <1>6, <1>7, SeqEqual
<1> QED
  BY <1>4, <1>8 DEF u, v, w

\* The zone a candidate trades in is reflected in one of the other side.
LEMMA ZoneTurns ==
  ASSUME NEW a, NEW c, NEW k, Mirrored(a, c, k), NEW sig, NEW image, sig.dir \in Sides,
         sig.entry \in Int, image.dir = FlipSide(sig.dir), image.entry = a - sig.entry,
         NEW tol \in Int
  PROVE  InAlignedZone(image, k, tol) <=> InAlignedZone(sig, c, tol)
<1> DEFINE n == Len(c.c15)  first == Max({1, n - ZoneWindow + 1})
           bars == SubSeq(c.c15, first, n - 1)  other == SubSeq(k.c15, first, n - 1)
           d == sig.dir  side == image.dir  entry == sig.entry  e == image.entry
           Found(x, way, b, p) ==
             \E z \in Unmitigated(OrderBlocks(b) \cup FairValueGaps(b), b) :
                /\ z.bullish = (way = Long)
                /\ z.bottom - tol <= p /\ p <= z.top + tol
<1>1. /\ a \in Int /\ c.c15 \in Seq(Bars) /\ n \in Nat /\ Len(k.c15) = n
      /\ k.c15 = FlipBars(a, c.c15)
  BY BarsKept, MirroredBar
<1>2. first \in Int /\ first >= 1
  <2> DEFINE m == n - ZoneWindow + 1
  <2>1. m \in Int
    BY <1>1 DEF ZoneWindow
  <2> HIDE DEF m
  <2>2. Max({1, m}) = IF 1 >= m THEN 1 ELSE m
    BY <2>1, OfPair
  <2> QED
    BY <2>1, <2>2 DEF m
<1>3. /\ InAlignedZone(sig, c, tol) <=> Len(bars) >= 3 /\ Found(c, d, bars, entry)
      /\ InAlignedZone(image, k, tol) <=> Len(other) >= 3 /\ Found(k, side, other, e)
  BY <1>1 DEF InAlignedZone
<1> HIDE DEF first, n
<1>4. bars \in Seq(Bars) /\ other = FlipBars(a, bars)
  <2> DEFINE s == c.c15  t == k.c15  m == n - 1
  <2>1. s \in Seq(Bars) /\ t = FlipBars(a, s) /\ m \in Int /\ m <= Len(s)
    BY <1>1 DEF n
  <2> HIDE DEF s, t, m
  <2>2. SubSeq(s, first, m) \in Seq(Bars) /\ SubSeq(t, first, m) = FlipBars(a, SubSeq(s, first, m))
    BY <1>1, <1>2, <2>1, SubFlips
  <2> QED
    BY <2>2 DEF s, t, m
<1>5. d \in Sides /\ side = FlipSide(d) /\ side \in Sides /\ entry \in Int /\ e = a - entry /\ e \in Int
  BY <1>1, SidesFlip
<1>6. (d = Long /\ side # Long) \/ (d # Long /\ side = Long)
  BY DEF Sides, FlipSide, Long, Short
<1> HIDE DEF bars, other, d, side, entry, e
<1>7. /\ Found(c, d, bars, entry) <=> IF d = Long THEN Demand(bars, entry, tol) ELSE Supply(bars, entry, tol)
      /\ Found(k, side, other, e) <=> IF side = Long THEN Demand(other, e, tol) ELSE Supply(other, e, tol)
  <2>1. ASSUME NEW x, NEW b, NEW p, NEW way \in Sides
        PROVE  Found(x, way, b, p) <=> IF way = Long THEN Demand(b, p, tol) ELSE Supply(b, p, tol)
    BY ZonesAre
  <2> HIDE DEF Found
  <2> QED
    BY <1>5, <2>1
<1> HIDE DEF Found
<1>8. Demand(other, e, tol) <=> Supply(bars, entry, tol)
  BY <1>1, <1>4, <1>5, DemandTurns
<1>9. other \in Seq(Bars) /\ bars = FlipBars(a, other) /\ Len(other) = Len(bars)
  BY <1>1, <1>4, FlipBarsAre
<1>10. entry = a - e
  BY <1>1, <1>5
<1>11. Demand(bars, entry, tol) <=> Supply(other, e, tol)
  BY <1>1, <1>5, <1>9, <1>10, DemandTurns
<1> QED
  BY <1>3, <1>6, <1>7, <1>8, <1>9, <1>11

\* A judged candidate and its reflection in its entry, and the contexts the
\* two are judged in.
Judged(a, s, t) ==
  /\ s.setup \in SetupClasses /\ s.dir \in Sides
  /\ s.entry \in Int /\ s.sl \in Int /\ s.tp1 \in Int /\ a = 2 * s.entry
  /\ t.setup = s.setup /\ t.htf = s.htf /\ t.volume = s.volume /\ t.dir = FlipSide(s.dir)
  /\ t.entry = s.entry /\ t.sl = a - s.sl /\ t.tp1 = a - s.tp1

\* The labels of the market stand to the one as to the other.
LEMMA TrendsStand ==
  ASSUME NEW d \in Sides, NEW side, side = FlipSide(d), NEW r \in Regimes, NEW q, q = FlipTrend(r)
  PROVE  ((q = With(side)) <=> (r = With(d))) /\ ((q \in Flat) <=> (r \in Flat))
<1>1. Long # Short
  BY DEF Long, Short
<1> QED
  BY <1>1 DEF Regimes, FlipTrend, With, Flat, FlipSide, Sides

\* A bias and a side, both turned.
LEMMA BiasesStand ==
  ASSUME NEW d \in Sides, NEW side, side = FlipSide(d),
         NEW b \in Sides \cup {Neutral}, NEW q, q = FlipSide(b)
  PROVE  ((q = side) <=> (b = d)) /\ ((q = Neutral) <=> (b = Neutral))
<1>1. Long # Short /\ Long # Neutral /\ Short # Neutral
  BY DEF Long, Short, Neutral
<1> QED
  BY <1>1 DEF FlipSide, Sides

\* A crowd and a side, both turned.
LEMMA CrowdsStand ==
  ASSUME NEW d \in Sides, NEW side, side = FlipSide(d),
         NEW p \in {"NONE", "BEARISH", "BULLISH"}, NEW q, q = FlipCrowd(p)
  PROVE  /\ (q = "NONE") <=> (p = "NONE")
         /\ p # "NONE" => (((q = "BEARISH") = (side = Long)) <=> ((p = "BEARISH") = (d = Long)))
<1>1. Long # Short
  BY DEF Long, Short
<1>2. (side = Long) <=> (d # Long)
  BY <1>1 DEF FlipSide, Sides
<1> QED
  BY <1>2 DEF FlipCrowd

\* The points of the trend.
LEMMA TrendPointsStand ==
  ASSUME NEW a, NEW c, NEW k, Mirrored(a, c, k), NEW s, NEW t, Judged(a, s, t)
  PROVE  /\ ScoreRegime(t, k) = ScoreRegime(s, c) /\ ScoreHtf(t, k) = ScoreHtf(s, c)
         /\ ScoreIndexAlignment(t, k) = ScoreIndexAlignment(s, c)
         /\ \A age : Freshness(t, k, age) = Freshness(s, c, age)
<1>1. /\ s.dir \in Sides /\ t.dir = FlipSide(s.dir) /\ t.setup = s.setup /\ t.htf = s.htf
      /\ c.r60 \in Regimes /\ c.daily \in Regimes /\ k.r60 = FlipTrend(c.r60)
      /\ k.daily = FlipTrend(c.daily)
      /\ c.indexBias \in Sides \cup {Neutral} /\ c.direction \in Sides \cup {Neutral}
      /\ k.indexBias = FlipSide(c.indexBias) /\ k.direction = FlipSide(c.direction)
  BY DEF Judged, Mirrored, Readable, TurnedReads
<1>9. (k.direction = t.dir) <=> (c.direction = s.dir)
  BY <1>1, BiasesStand
<1>4. ScoreRegime(t, k) = ScoreRegime(s, c)
  BY <1>1, TrendsStand DEF ScoreRegime
<1>5. ScoreHtf(t, k) = ScoreHtf(s, c)
  BY <1>1, TrendsStand DEF ScoreHtf
<1>6. ScoreIndexAlignment(t, k) = ScoreIndexAlignment(s, c)
  BY <1>1, BiasesStand DEF ScoreIndexAlignment
<1>7. \A age : Freshness(t, k, age) = Freshness(s, c, age)
  BY <1>9 DEF Freshness
<1> QED
  BY <1>4, <1>5, <1>6, <1>7

\* The points of fear and of the crowd.
LEMMA CrowdPointsStand ==
  ASSUME NEW a, NEW c, NEW k, Mirrored(a, c, k), NEW s, NEW t, Judged(a, s, t)
  PROVE  ScoreVixPcr(t, k) = ScoreVixPcr(s, c)
<1>1. /\ s.dir \in Sides /\ t.dir = FlipSide(s.dir) /\ t.setup = s.setup /\ k.vix = c.vix
      /\ c.pcr \in {"NONE", "BEARISH", "BULLISH"} /\ k.pcr = FlipCrowd(c.pcr)
  BY DEF Judged, Mirrored, Readable, TurnedReads, SameReads
<1> QED
  BY <1>1, CrowdsStand DEF ScoreVixPcr

\* The points that know no side.
LEMMA OtherPointsStand ==
  ASSUME NEW a, NEW c, NEW k, Mirrored(a, c, k), NEW s, NEW t, Judged(a, s, t)
  PROVE  /\ ScoreVolume(t, k) = ScoreVolume(s, c) /\ ScoreRr(t) = ScoreRr(s)
         /\ MeasuredEdge(k) = MeasuredEdge(c)
         /\ PhaseAffinity(t.setup, Phase(k.time)) = PhaseAffinity(s.setup, Phase(c.time))
         /\ c.cur.close = s.entry => AtrNormality(k) = AtrNormality(c)
<1>1. /\ a \in Int /\ t.setup = s.setup /\ t.volume = s.volume
      /\ k.volume = c.volume /\ k.edge = c.edge /\ k.time = c.time
      /\ k.atr = c.atr /\ k.index = c.index
  BY DEF Judged, Mirrored, SameReads
<1>2. ScoreVolume(t, k) = ScoreVolume(s, c)
  BY <1>1 DEF ScoreVolume
<1>3. ScoreRr(t) = ScoreRr(s)
  <2>1. /\ s.entry \in Int /\ s.sl \in Int /\ s.tp1 \in Int /\ a = 2 * s.entry
        /\ t.entry = s.entry /\ t.sl = a - s.sl /\ t.tp1 = a - s.tp1
    BY DEF Judged
  <2>2. t.entry = a - s.entry
    BY <2>1
  <2>3. Dist(t.tp1, t.entry) = Dist(s.tp1, s.entry) /\ Dist(t.entry, t.sl) = Dist(s.entry, s.sl)
    BY <1>1, <2>1, <2>2, FlipDist
  <2> QED
    BY <2>1, <2>3 DEF ScoreRr
<1>4. MeasuredEdge(k) = MeasuredEdge(c)
  BY <1>1 DEF MeasuredEdge
<1>5. ASSUME c.cur.close = s.entry PROVE AtrNormality(k) = AtrNormality(c)
  BY MirroredBar, <1>5, <1>1 DEF Judged, AtrNormality
<1> QED
  BY <1>1, <1>2, <1>3, <1>4, <1>5

\* The points of the structure.
LEMMA StructurePointsStand ==
  ASSUME NEW a, NEW c, NEW k, Mirrored(a, c, k), NEW s, NEW t, Judged(a, s, t),
         c.cur.close = s.entry, \A i \in DOMAIN c.c15 : ~BreaksBothWays(c.c15, i, 2)
  PROVE  /\ ScoreStructure(t, k) = ScoreStructure(s, c)
         /\ TrendEstablishment(t, k) = TrendEstablishment(s, c)
<1>1. /\ c.c15 \in Seq(Bars) /\ k.c15 = FlipBars(a, c.c15) /\ Len(k.c15) = Len(c.c15)
      /\ a \in Int /\ DOMAIN c.c15 = 1..Len(c.c15)
  BY BarsKept, MirroredBar
<1>2. Event15(k) = FlipEvent(Event15(c))
  BY <1>1, EventTurns DEF StructureLookback, FlipEvent, Event15
<1> DEFINE event == Event15(c)  image == Event15(k)
<1>3. s.dir \in Sides /\ t.dir = FlipSide(s.dir) /\ t.htf = s.htf
  BY DEF Judged
<1>4. /\ (image = "none") <=> (event = "none")
      /\ (image = (IF t.dir = Long THEN "BOS_UP" ELSE "BOS_DOWN"))
           <=> (event = (IF s.dir = Long THEN "BOS_UP" ELSE "BOS_DOWN"))
      /\ (image = (IF t.dir = Long THEN "CHOCH_UP" ELSE "CHOCH_DOWN"))
           <=> (event = (IF s.dir = Long THEN "CHOCH_UP" ELSE "CHOCH_DOWN"))
  BY <1>3, <1>2 DEF FlipSide, Sides, Long, Short, FlipEvent
<1>5. AtrNormality(k) = AtrNormality(c)
  BY OtherPointsStand
<1>6. ScoreRegime(t, k) = ScoreRegime(s, c)
  BY TrendPointsStand
<1>7. ScoreStructure(t, k) = ScoreStructure(s, c)
  BY <1>4, <1>5 DEF ScoreStructure
<1>8. (t.htf \/ k.daily = With(t.dir)) <=> (s.htf \/ c.daily = With(s.dir))
  <2>1. c.daily \in Regimes /\ k.daily = FlipTrend(c.daily)
    BY DEF Mirrored, Readable, TurnedReads
  <2>2. (k.daily = With(t.dir)) <=> (c.daily = With(s.dir))
    BY <1>3, <2>1, TrendsStand
  <2> QED
    BY <1>3, <2>2
<1>9. /\ (k.indexBias = t.dir) <=> (c.indexBias = s.dir)
      /\ (k.indexBias = Neutral) <=> (c.indexBias = Neutral)
  <2>1. c.indexBias \in Sides \cup {Neutral} /\ k.indexBias = FlipSide(c.indexBias)
    BY DEF Mirrored, Readable, TurnedReads
  <2> QED
    BY <1>3, <2>1, BiasesStand
<1> QED
  BY <1>7, <1>4, <1>6, <1>8, <1>9 DEF TrendEstablishment

\* The points of the open interest.
LEMMA OiPointsStand ==
  ASSUME NEW a, NEW c, NEW k, Mirrored(a, c, k), NEW s, NEW t, Judged(a, s, t)
  PROVE  ScoreOi(t, k) = ScoreOi(s, c)
<1>1. /\ a \in Int /\ c.back \in Optional(Int) /\ k.back = FlipAll(a, c.back)
      /\ k.oiChange = c.oiChange /\ s.dir \in Sides /\ t.dir = FlipSide(s.dir)
  BY DEF Judged, Mirrored, Readable, TurnedPrices, SameReads
<1>2. c.cur.close \in Int /\ k.cur.close = a - c.cur.close
  BY MirroredBar
<1>3. CASE c.back = None
  BY <1>1, <1>3, OneFlips DEF ScoreOi
<1>4. CASE c.back # None
  <2>1. PICK q \in Int : c.back = <<q>> /\ k.back = <<a - q>>
    BY <1>1, <1>4, OneFlips
  <2>2. c.back # None /\ c.back[1] = q /\ k.back # None /\ k.back[1] = a - q
    BY <2>1 DEF None
  <2>3. (c.back = <<c.cur.close>> <=> q = c.cur.close) /\ (k.back = <<k.cur.close>> <=> q = c.cur.close)
    BY <1>1, <1>2, <2>1
  <2>4. CASE q = c.cur.close
    BY <1>1, <2>3, <2>4 DEF ScoreOi
  <2>5. CASE q # c.cur.close
    BY <1>1, <1>2, <2>2, <2>5, <2>3 DEF FlipSide, Sides, Long, Short, ScoreOi
  <2> QED
    BY <2>4, <2>5
<1> QED
  BY <1>3, <1>4

\* The penalty of the extension.
LEMMA ExtensionStands ==
  ASSUME NEW a, NEW c, NEW k, Mirrored(a, c, k), NEW s, NEW t, Judged(a, s, t)
  PROVE  ExtensionPenalty(t, k) = ExtensionPenalty(s, c)
<1>1. /\ a \in Int /\ c.vwap \in Optional(Int) /\ k.vwap = FlipAll(a, c.vwap)
      /\ k.atr = c.atr /\ s.dir \in Sides /\ t.dir = FlipSide(s.dir)
      /\ s.entry \in Int /\ t.entry = s.entry /\ a = 2 * s.entry
  BY DEF Judged, Mirrored, Readable, TurnedPrices, SameReads
<1>2. CASE c.vwap = None
  BY <1>1, <1>2, OneFlips DEF ExtensionPenalty
<1>3. CASE c.vwap # None
  <2>1. PICK q \in Int : c.vwap = <<q>> /\ k.vwap = <<a - q>>
    BY <1>1, <1>3, OneFlips
  <2>2. c.vwap # None /\ c.vwap[1] = q /\ k.vwap # None /\ k.vwap[1] = a - q
    BY <2>1 DEF None
  <2>3. Sign(t.dir) * (t.entry - k.vwap[1]) = Sign(s.dir) * (s.entry - c.vwap[1])
    BY <1>1, SidesFlip, <2>2
  <2> QED
    BY <1>1, <2>2, <2>3 DEF ExtensionPenalty
<1> QED
  BY <1>2, <1>3

\* How many levels of a list lie about a price.
NearSet(p, tol, s) == {i \in DOMAIN s : Dist(p, s[i]) <= tol}
Near(p, tol, s) == Cardinality(NearSet(p, tol, s))

\* How many of some levels are near a price.
LEMMA NearIs ==
  ASSUME NEW p, NEW tol, NEW s \in Seq(Int)
  PROVE  /\ IsFiniteSet(NearSet(p, tol, s)) /\ Near(p, tol, s) \in Nat
         /\ NearSet(p, tol, s) \subseteq 1..Len(s) /\ Len(s) \in Nat
<1> DEFINE n == Len(s)
<1>1. n \in Nat /\ DOMAIN s = 1..n
  OBVIOUS
<1>2. NearSet(p, tol, s) \subseteq 1..n
  BY <1>1 DEF NearSet
<1> HIDE DEF n
<1>3. IsFiniteSet(1..n)
  BY <1>1, FS_Interval
<1>4. IsFiniteSet(NearSet(p, tol, s))
  BY <1>2, <1>3, FS_Subset
<1> QED
  BY <1>1, <1>2, <1>4, FS_CardinalityType DEF Near, n

\* Near levels of two lists.
LEMMA NearJoins ==
  ASSUME NEW p, NEW tol, NEW s \in Seq(Int), NEW t \in Seq(Int)
  PROVE  s \o t \in Seq(Int) /\ Near(p, tol, s \o t) = Near(p, tol, s) + Near(p, tol, t)
<1> DEFINE n == Len(s)  u == s \o t
           S == NearSet(p, tol, s)  T == NearSet(p, tol, t)  U == NearSet(p, tol, u)
           f == [i \in T |-> i + n]  R == {i + n : i \in T}
<1>1. /\ u \in Seq(Int) /\ n \in Nat /\ Len(t) \in Nat /\ DOMAIN s = 1..n /\ DOMAIN t = 1..Len(t)
      /\ DOMAIN u = 1..(n + Len(t))
      /\ \A i \in 1..(n + Len(t)) : u[i] = IF i <= n THEN s[i] ELSE t[i - n]
  OBVIOUS
<1>2. /\ IsFiniteSet(S) /\ S \subseteq 1..n /\ Cardinality(S) \in Nat
      /\ IsFiniteSet(T) /\ T \subseteq 1..Len(t) /\ Cardinality(T) \in Nat
  BY <1>1, NearIs DEF Near
<1> HIDE DEF n
<1>3. U = S \cup R
  <2>1. \A i : i \in U <=> i \in 1..(n + Len(t)) /\ Dist(p, u[i]) <= tol
    BY <1>1 DEF NearSet
  <2>2. \A i : i \in S <=> i \in 1..n /\ Dist(p, s[i]) <= tol
    BY <1>1 DEF NearSet
  <2>3. \A i : i \in T <=> i \in 1..Len(t) /\ Dist(p, t[i]) <= tol
    BY <1>1 DEF NearSet
  <2> HIDE DEF U, S, T, u
  <2>4. \A i \in R : i \in (n + 1)..(n + Len(t)) /\ i - n \in T
    <3>1. \A j \in T : j + n \in (n + 1)..(n + Len(t)) /\ (j + n) - n = j
      BY <1>1, <1>2
    <3> QED
      BY <3>1
  <2>5. \A i \in (n + 1)..(n + Len(t)) : i - n \in T => i \in R
    BY <1>1
  <2> HIDE DEF R
  <2>6. ASSUME NEW i \in U PROVE i \in S \cup R
    <3>1. i \in 1..(n + Len(t)) /\ Dist(p, u[i]) <= tol
      BY <2>1, <2>6
    <3>2. CASE i <= n
      <4>1. i \in 1..n /\ u[i] = s[i]
        BY <1>1, <3>1, <3>2 DEF u
      <4> QED
        BY <2>2, <3>1, <4>1
    <3>3. CASE ~ (i <= n)
      <4>1. i \in (n + 1)..(n + Len(t)) /\ i - n \in 1..Len(t) /\ u[i] = t[i - n]
        BY <1>1, <3>1, <3>3 DEF u
      <4> QED
        BY <2>3, <2>5, <3>1, <4>1
    <3> QED
      BY <3>2, <3>3
  <2>7. ASSUME NEW i \in S PROVE i \in U
    BY <1>1, <2>2, <2>7, <2>1, SMTT(30) DEF u
  <2>8. ASSUME NEW i \in R PROVE i \in U
    <3>1. i \in (n + 1)..(n + Len(t)) /\ i - n \in T
      BY <2>4, <2>8
    <3>2. i \in 1..(n + Len(t)) /\ u[i] = t[i - n]
      BY <1>1, <3>1 DEF u
    <3> QED
      BY <2>1, <2>3, <3>1, <3>2
  <2> QED
    BY <2>6, <2>7, <2>8
<1> HIDE DEF S, T, U, u
<1>4. IsFiniteSet(R) /\ Cardinality(R) = Cardinality(T)
  <2>1. T \subseteq Int /\ n \in Int
    BY <1>1, <1>2
  <2>2. \A x, y \in T : x + n = y + n => x = y
    BY <2>1
  <2>3. f \in [T -> R] /\ (\A y \in R : \E x \in T : f[x] = y)
    OBVIOUS
  <2>4. \A x, y \in DOMAIN f : f[x] = f[y] => x = y
    BY <2>2
  <2> HIDE DEF f, R
  <2>5. f \in Bijection(T, R)
    BY <2>3, <2>4 DEF Bijection, Injection, Surjection, IsInjective
  <2>6. ExistsBijection(T, R)
    BY <2>5 DEF ExistsBijection
  <2> QED
    BY <1>2, <2>6, FS_Bijection
<1>5. S \cap R = {}
  BY <1>1, <1>2
<1>6. Cardinality(S \cup R) = Cardinality(S) + Cardinality(T)
  <2> HIDE DEF R
  <2>1. Cardinality(S \cap R) = 0
    BY <1>5, FS_EmptySet
  <2>2. Cardinality(S \cup R) = Cardinality(S) + Cardinality(R) - Cardinality(S \cap R)
    BY <1>2, <1>4, FS_Union
  <2> QED
    BY <1>2, <1>4, <2>1, <2>2
<1> QED
  BY <1>1, <1>3, <1>6 DEF S, T, U, u, Near

\* As many of the reflections lie about the axis.
LEMMA NearFlips ==
  ASSUME NEW a \in Int, NEW p \in Int, a = 2 * p, NEW tol, NEW s \in Seq(Int),
         NEW t, t = FlipAll(a, s)
  PROVE  t \in Seq(Int) /\ Near(p, tol, t) = Near(p, tol, s)
<1>1. /\ t \in Seq(Int) /\ DOMAIN t = DOMAIN s /\ \A i \in DOMAIN s : t[i] = a - s[i]
  BY FlipAllIs
<1>2. \A i \in DOMAIN s : Dist(p, t[i]) = Dist(p, s[i])
  <2> TAKE i \in DOMAIN s
  <2>1. s[i] \in Int /\ p = a - p
    OBVIOUS
  <2>2. Dist(a - p, a - s[i]) = Dist(p, s[i])
    BY <2>1, FlipDist
  <2> QED
    BY <1>1, <2>1, <2>2
<1>3. NearSet(p, tol, t) = NearSet(p, tol, s)
  BY <1>1, <1>2 DEF NearSet
<1> QED
  BY <1>1, <1>3 DEF Near

\* The levels a candidate may lie about, counted list by list.
LevelList(x, u, v, w) ==
  x.orh \o x.orl \o <<x.pdh, x.pdl, x.pdc, u, v, w>> \o x.vwap \o OiLevels(x)

\* Near levels of a context.
LEMMA LevelsNear ==
  ASSUME NEW x, Readable(x), NEW p, NEW tol, NEW u \in Int, NEW v \in Int, NEW w \in Int
  PROVE  Near(p, tol, LevelList(x, u, v, w)) =
           Near(p, tol, x.orh) + Near(p, tol, x.orl)
             + (Near(p, tol, <<x.pdh>>) + Near(p, tol, <<x.pdl>>) + Near(p, tol, <<x.pdc>>)
                  + Near(p, tol, <<u, v, w>>))
             + Near(p, tol, x.vwap)
             + (Near(p, tol, x.callWall) + Near(p, tol, x.putWall) + Near(p, tol, x.maxPain))
<1> DEFINE six == <<x.pdh, x.pdl, x.pdc, u, v, w>>  oi == OiLevels(x)
           s1 == x.orh \o x.orl  s2 == s1 \o six  s3 == s2 \o x.vwap  s4 == s3 \o oi
           o1 == x.callWall \o x.putWall
<1>1. /\ x.pdh \in Int /\ x.pdl \in Int /\ x.pdc \in Int
      /\ x.orh \in Optional(Int) /\ x.orl \in Optional(Int) /\ x.vwap \in Optional(Int)
      /\ x.callWall \in Optional(Int) /\ x.putWall \in Optional(Int) /\ x.maxPain \in Optional(Int)
  BY DEF Readable
<1>2. \A s \in Optional(Int) : s \in Seq(Int)
  BY DEF Optional
<1>3. /\ six \in Seq(Int)
      /\ Near(p, tol, six) = Near(p, tol, <<x.pdh>>) + Near(p, tol, <<x.pdl>>)
                               + Near(p, tol, <<x.pdc>>) + Near(p, tol, <<u, v, w>>)
  <2> DEFINE hs == <<x.pdh>>  ls == <<x.pdl>>  cs == <<x.pdc>>  round == <<u, v, w>>
             two == hs \o ls  three == two \o cs  all == three \o round
  <2>1. hs \in Seq(Int) /\ ls \in Seq(Int) /\ cs \in Seq(Int) /\ round \in Seq(Int)
    BY <1>1
  <2>2. six = all
    BY <1>1
  <2> HIDE DEF hs, ls, cs, round
  <2>3. two \in Seq(Int) /\ Near(p, tol, two) = Near(p, tol, hs) + Near(p, tol, ls)
    BY <2>1, NearJoins
  <2> HIDE DEF two
  <2>4. three \in Seq(Int) /\ Near(p, tol, three) = Near(p, tol, two) + Near(p, tol, cs)
    BY <2>1, <2>3, NearJoins
  <2> HIDE DEF three
  <2>5. all \in Seq(Int) /\ Near(p, tol, all) = Near(p, tol, three) + Near(p, tol, round)
    BY <2>1, <2>4, NearJoins
  <2> HIDE DEF all
  <2> QED
    BY <2>2, <2>3, <2>4, <2>5 DEF hs, ls, cs, round
<1> HIDE DEF six
<1>4. o1 \in Seq(Int) /\ Near(p, tol, o1) = Near(p, tol, x.callWall) + Near(p, tol, x.putWall)
  BY <1>1, <1>2, NearJoins
<1>5. oi \in Seq(Int) /\ Near(p, tol, oi) = Near(p, tol, o1) + Near(p, tol, x.maxPain)
  <2>1. oi = o1 \o x.maxPain
    BY DEF OiLevels
  <2> HIDE DEF o1, oi
  <2> QED
    BY <1>1, <1>2, <1>4, <2>1, NearJoins
<1> HIDE DEF o1, oi
<1>6. s1 \in Seq(Int) /\ Near(p, tol, s1) = Near(p, tol, x.orh) + Near(p, tol, x.orl)
  BY <1>1, <1>2, NearJoins
<1> HIDE DEF s1
<1>7. s2 \in Seq(Int) /\ Near(p, tol, s2) = Near(p, tol, s1) + Near(p, tol, six)
  BY <1>3, <1>6, NearJoins
<1> HIDE DEF s2
<1>8. s3 \in Seq(Int) /\ Near(p, tol, s3) = Near(p, tol, s2) + Near(p, tol, x.vwap)
  BY <1>1, <1>2, <1>7, NearJoins
<1> HIDE DEF s3
<1>9. Near(p, tol, s4) = Near(p, tol, s3) + Near(p, tol, oi)
  BY <1>5, <1>8, NearJoins
<1>10. s4 = LevelList(x, u, v, w)
  BY DEF LevelList, s1, s2, s3, six, oi
<1> HIDE DEF s4
<1> QED
  BY <1>3, <1>4, <1>5, <1>6, <1>7, <1>8, <1>9, <1>10

\* The points of the confluence.
LEMMA ConfluencePointsStand ==
  ASSUME NEW a, NEW c, NEW k, Mirrored(a, c, k), NEW s, NEW t, Judged(a, s, t)
  PROVE  ScoreConfluence(t, k) = ScoreConfluence(s, c)
<1> DEFINE p == s.entry  tol == OfAtr(c, 50)  step == RoundStep(c)
           round == RoundTo(p, step)  u == round - step  w == round + step
           ListC == LevelList(c, u, round, w)  ListK == LevelList(k, u, round, w)
<1>1. /\ a \in Int /\ p \in Int /\ a = 2 * p /\ t.entry = p /\ Readable(c) /\ Readable(k)
      /\ s.dir \in Sides /\ t.dir = FlipSide(s.dir)
  BY DEF Judged, Mirrored
<1>2. OfAtr(k, 50) = tol /\ RoundStep(k) = step /\ tol \in Nat /\ step \in {50, 100}
  BY MirroredAtr
<1>3. ScoreConfluence(s, c) =
        Steps(Near(p, tol, ListC) + IF InAlignedZone(s, c, tol) THEN 1 ELSE 0,
              <<<<3, 10>>, <<2, 8>>, <<1, 5>>>>, 2)
  BY DEF ScoreConfluence, Near, NearSet, LevelList
<1>4. ScoreConfluence(t, k) =
        Steps(Near(p, tol, ListK) + IF InAlignedZone(t, k, tol) THEN 1 ELSE 0,
              <<<<3, 10>>, <<2, 8>>, <<1, 5>>>>, 2)
  BY <1>1, <1>2 DEF ScoreConfluence, Near, NearSet, LevelList
<1>5. u \in Int /\ round \in Int /\ w \in Int
  BY <1>1, <1>2, RoundTyped
<1> HIDE DEF p, tol, step, round, u, w
<1>6. InAlignedZone(t, k, tol) <=> InAlignedZone(s, c, tol)
  BY <1>1, <1>2, ZoneTurns DEF p
<1>7. Near(p, tol, ListK) = Near(p, tol, ListC)
  <2> DEFINE N(list) == Near(p, tol, list)
  <2>1. /\ N(k.orh) = N(c.orl) /\ N(k.orl) = N(c.orh) /\ N(k.vwap) = N(c.vwap)
        /\ N(k.callWall) = N(c.putWall) /\ N(k.putWall) = N(c.callWall)
        /\ N(k.maxPain) = N(c.maxPain)
        /\ N(<<k.pdh>>) = N(<<c.pdl>>) /\ N(<<k.pdl>>) = N(<<c.pdh>>)
        /\ N(<<k.pdc>>) = N(<<c.pdc>>)
    <3>1. ASSUME NEW q \in Seq(Int), NEW r, r = FlipAll(a, q) PROVE N(r) = N(q)
      BY <1>1, <3>1, NearFlips
    <3>2. ASSUME NEW q \in Int, NEW r, r = a - q PROVE N(<<r>>) = N(<<q>>)
      <4>1. <<q>> \in Seq(Int) /\ <<r>> = FlipAll(a, <<q>>)
        BY <1>1, <3>2, FlipOne
      <4> QED
        BY <3>1, <4>1
    <3> HIDE DEF N
    <3>3. /\ k.pdh = a - c.pdl /\ k.pdl = a - c.pdh /\ k.pdc = a - c.pdc
          /\ c.pdh \in Int /\ c.pdl \in Int /\ c.pdc \in Int
          /\ k.orh = FlipAll(a, c.orl) /\ k.orl = FlipAll(a, c.orh) /\ k.vwap = FlipAll(a, c.vwap)
          /\ k.callWall = FlipAll(a, c.putWall) /\ k.putWall = FlipAll(a, c.callWall)
          /\ k.maxPain = FlipAll(a, c.maxPain)
      BY DEF Mirrored, Readable, TurnedPrices
    <3>5. /\ N(k.orh) = N(c.orl) /\ N(k.orl) = N(c.orh) /\ N(k.vwap) = N(c.vwap)
          /\ N(k.callWall) = N(c.putWall) /\ N(k.putWall) = N(c.callWall)
          /\ N(k.maxPain) = N(c.maxPain)
      BY <3>1, <3>3, <1>1 DEF Readable, Optional
    <3> QED
      BY <3>2, <3>3, <3>5
  <2>2. /\ \A list : list \in Seq(Int) => N(list) \in Nat
        /\ N(ListC) = N(c.orh) + N(c.orl)
             + (N(<<c.pdh>>) + N(<<c.pdl>>) + N(<<c.pdc>>) + N(<<u, round, w>>))
             + N(c.vwap) + (N(c.callWall) + N(c.putWall) + N(c.maxPain))
        /\ N(ListK) = N(k.orh) + N(k.orl)
             + (N(<<k.pdh>>) + N(<<k.pdl>>) + N(<<k.pdc>>) + N(<<u, round, w>>))
             + N(k.vwap) + (N(k.callWall) + N(k.putWall) + N(k.maxPain))
    BY <1>1, <1>5, LevelsNear, NearIs
  <2>3. /\ N(c.orh) \in Nat /\ N(c.orl) \in Nat /\ N(c.vwap) \in Nat
        /\ N(c.callWall) \in Nat /\ N(c.putWall) \in Nat /\ N(c.maxPain) \in Nat
        /\ N(<<c.pdh>>) \in Nat /\ N(<<c.pdl>>) \in Nat /\ N(<<c.pdc>>) \in Nat
        /\ N(<<u, round, w>>) \in Nat
    <3>2. /\ <<c.pdh>> \in Seq(Int) /\ <<c.pdl>> \in Seq(Int) /\ <<c.pdc>> \in Seq(Int)
          /\ <<u, round, w>> \in Seq(Int)
      BY <1>1, <1>5 DEF Readable
    <3> HIDE DEF N
    <3> QED
      BY <2>2, <1>1, <3>2 DEF Readable, Optional
  <2> HIDE DEF N, ListC, ListK
  <2>4. N(ListK) = N(ListC)
    BY <2>1, <2>2, <2>3
  <2> QED
    BY <2>4 DEF N
<1> QED
  BY <1>3, <1>4, <1>6, <1>7

\* Both scores are those of the reflection.
LEMMA ScoresStand ==
  ASSUME NEW in \in Judgements
  PROVE  SameScore(in, Score(in.sig, in.ctx), ScoreV2(in.sig, in.ctx, in.age, in.nth))
<1> DEFINE s == in.sig  c == in.ctx  a == 2 * s.entry
           t == [FlipSignal(a, s) EXCEPT !.setup = s.setup]  k == FlipContext(a, c)
<1> SUFFICES ASSUME c.cur.close = s.entry, \A i \in DOMAIN c.c15 : ~BreaksBothWays(c.c15, i, 2)
             PROVE  Score(s, c) = Score(t, k) /\ ScoreV2(s, c, in.age, in.nth) = ScoreV2(t, k, in.age, in.nth)
  BY DEF SameScore
<1>1. /\ s.setup \in SetupClasses /\ s.dir \in Sides /\ s.entry \in Int
      /\ s.sl \in Int /\ s.tp1 \in Int /\ c \in Contexts
  BY DEF Judgements
<1>2. a \in Int
  BY <1>1
<1>3. Mirrored(a, c, k)
  BY <1>1, <1>2, ReflectionMirrors
<1>4. Judged(a, s, t)
  BY <1>1 DEF FlipSignal, Judged
<1> HIDE DEF s, c, a, t, k
<1>5. /\ ScoreRegime(t, k) = ScoreRegime(s, c) /\ ScoreHtf(t, k) = ScoreHtf(s, c)
      /\ ScoreIndexAlignment(t, k) = ScoreIndexAlignment(s, c)
      /\ Freshness(t, k, in.age) = Freshness(s, c, in.age)
  BY <1>3, <1>4, TrendPointsStand
<1>6. /\ ScoreVolume(t, k) = ScoreVolume(s, c) /\ ScoreRr(t) = ScoreRr(s)
      /\ MeasuredEdge(k) = MeasuredEdge(c)
      /\ PhaseAffinity(t.setup, Phase(k.time)) = PhaseAffinity(s.setup, Phase(c.time))
      /\ AtrNormality(k) = AtrNormality(c)
  BY <1>3, <1>4, OtherPointsStand
<1>7. ScoreStructure(t, k) = ScoreStructure(s, c) /\ TrendEstablishment(t, k) = TrendEstablishment(s, c)
  BY <1>3, <1>4, StructurePointsStand
<1>8. ScoreVixPcr(t, k) = ScoreVixPcr(s, c)
  BY <1>3, <1>4, CrowdPointsStand
<1>9. ScoreOi(t, k) = ScoreOi(s, c)
  BY <1>3, <1>4, OiPointsStand
<1>10. ExtensionPenalty(t, k) = ExtensionPenalty(s, c)
  BY <1>3, <1>4, ExtensionStands
<1>11. ScoreConfluence(t, k) = ScoreConfluence(s, c)
  BY <1>3, <1>4, ConfluencePointsStand
<1>12. Score(s, c) = Score(t, k)
  BY <1>5, <1>6, <1>7, <1>8, <1>9, <1>11 DEF Score
<1> QED
  BY <1>12, <1>5, <1>6, <1>7, <1>8, <1>9, <1>10, <1>11 DEF ScoreV2

(***************************************************************************)
(* What holds in every state.                                              *)
(***************************************************************************)
\* A scan looks at its inputs, and at what it computes of them.
LooksAtInputs ==
  /\ scan.at = "tape" => scan.tape \in ScanTapes
  /\ scan.at = "bars" => scan.bars \in BarTapes
  /\ scan.at = "candidate" =>
       /\ scan.setup \in SetupClasses /\ scan.ctx \in ScanContexts[scan.setup]
       /\ scan.found = Evaluate(scan.setup, scan.ctx)
  /\ scan.at = "scored" =>
       /\ \E k \in DOMAIN ScoreInputs : scan.in \in ScoreInputs[k]
       /\ scan.score = Score(scan.in.sig, scan.in.ctx)
       /\ scan.v2 = ScoreV2(scan.in.sig, scan.in.ctx, scan.in.age, scan.in.nth)

\* That holds in every state.
LEMMA AlwaysInputs == Spec => []LooksAtInputs
<1>1. Init => LooksAtInputs
  BY DEF Init, Idle, LooksAtInputs
<1>2. LooksAtInputs /\ [Next]_scan => LooksAtInputs'
  <2> SUFFICES ASSUME LooksAtInputs, [Next]_scan PROVE LooksAtInputs'
    OBVIOUS
  <2>1. CASE ReadTape
    BY <2>1 DEF ReadTape, LooksAtInputs
  <2>2. CASE \E setup \in SetupClasses : EvaluateSetup(setup)
    BY <2>2 DEF EvaluateSetup, LooksAtInputs
  <2>3. CASE ScoreCandidate
    BY <2>3 DEF ScoreCandidate, LooksAtInputs
  <2>4. CASE ReadStructure
    BY <2>4 DEF ReadStructure, LooksAtInputs
  <2>5. CASE Continue
    BY <2>5 DEF Continue, Idle, LooksAtInputs
  <2>6. CASE UNCHANGED scan
    BY <2>6 DEF LooksAtInputs
  <2> QED
    BY <2>1, <2>2, <2>3, <2>4, <2>5, <2>6 DEF Next
<1> QED
  BY <1>1, <1>2, PTL DEF Spec

\* The direction measured beside the one in force never contradicts it, on
\* any tape a scan reads (market_context.py).
THEOREM LabelsNeverOppose == Spec => []ShadowNeverOpposes
<1>1. LooksAtInputs => ShadowNeverOpposes
  BY LabelsAgree, TapesAssumption DEF LooksAtInputs, ShadowNeverOpposes
<1> QED
  BY <1>1, AlwaysInputs, PTL

\* No tape makes the two gates of direction silence a base, but a finance
\* company, in both directions (dependency.py, scanner/__init__.py).
THEOREM OneSideStaysOpen == Spec => []OneSideOpen
<1>1. OneSideOpen
  BY GatesLeaveASide DEF OneSideOpen
<1> QED
  BY <1>1, PTL

\* A break of structure that the completed bars show is there in every
\* longer history, whatever the bars (structure_state.py).
THEOREM BreaksDoNotRepaint == Spec => []NoRepaint
<1>1. LooksAtInputs => NoRepaint
  <2> SUFFICES ASSUME LooksAtInputs, scan.at = "bars",
                      NEW n \in DOMAIN scan.bars, NEW i \in 1..n
               PROVE  BreakAt(SubSeq(scan.bars, 1, n), i, 2) = BreakAt(scan.bars, i, 2)
    BY DEF NoRepaint
  <2>1. scan.bars \in Seq(Bars)
    BY BarsAssumption DEF LooksAtInputs, Bars
  <2>2. n \in 1..Len(scan.bars)
    BY <2>1
  <2> QED
    BY <2>1, <2>2, BreakKept
<1> QED
  BY <1>1, AlwaysInputs, PTL

\* Every candidate, in any context, stops on the side it loses on and aims
\* where it goes, its second target beyond its first, as far as its setup
\* asks; the two that measure a distance without a side only aim
\* (india_scalp.py).
THEOREM CandidatesAreSound == Spec => []StopsAndTargets
<1>1. LooksAtInputs => StopsAndTargets
  <2> SUFFICES ASSUME LooksAtInputs, scan.at = "candidate", scan.found # None
               PROVE  Geometry(scan.setup, scan.found[1])
    BY DEF StopsAndTargets, Geometry
  <2>1. scan.setup \in SetupClasses /\ scan.found = Evaluate(scan.setup, scan.ctx)
    BY DEF LooksAtInputs
  <2>2. scan.ctx \in Contexts
    BY <2>1, ContextsAssumption DEF LooksAtInputs
  <2> QED
    BY <2>1, <2>2, EvaluateSound
<1> QED
  BY <1>1, AlwaysInputs, PTL

\* Turning a read of the market to the side of a candidate never lowers
\* either score, the label of the second one while it is at most two hours
\* old, in any context (signal_quality.py).
THEOREM AlignmentIsFree == Spec => []AlignmentNeverCosts
<1>1. LooksAtInputs => AlignmentNeverCosts
  <2> SUFFICES ASSUME LooksAtInputs, scan.at = "scored" PROVE AlignmentNeverCosts
    BY DEF AlignmentNeverCosts
  <2> DEFINE in == scan.in
  <2>1. in \in Judgements
    BY InputsAssumption DEF LooksAtInputs
  <2>3. /\ \A ctx \in Aligned(in.ctx, in.sig.dir) :
             /\ Score(in.sig, ctx) >= Score(in.sig, in.ctx)
             /\ ScoreV2(in.sig, ctx, in.age, in.nth) >= ScoreV2(in.sig, in.ctx, in.age, in.nth)
        /\ in.age <= 120 => ScoreV2(in.sig, [in.ctx EXCEPT !.direction = in.sig.dir], in.age, in.nth)
                              >= ScoreV2(in.sig, in.ctx, in.age, in.nth)
    BY <2>1, TurningHelps
  <2> QED
    BY <2>3 DEF AlignmentNeverCosts, LooksAtInputs
<1> QED
  BY <1>1, AlwaysInputs, PTL

\* In every context of its constants the reflection of what an evaluator sees
\* brings out the reflection of the candidate, but for the setups and bars it
\* names, and the scorer gives both the same scores (india_scalp.py,
\* signal_quality.py).
THEOREM HalvesMirror == Spec => []MirrorImage
<1>1. LooksAtInputs => MirrorImage
  <2> SUFFICES ASSUME LooksAtInputs PROVE MirrorImage
    OBVIOUS
  <2>1. ASSUME scan.at = "candidate"
        PROVE  \/ BothSides(scan.setup, scan.ctx)
               \/ Lopsided(scan.setup, scan.ctx)
               \/ SameImage(scan.setup, scan.ctx, scan.found)
    BY <2>1, ContextsAssumption, CandidateFlips DEF LooksAtInputs
  <2>2. ASSUME scan.at = "scored" PROVE SameScore(scan.in, scan.score, scan.v2)
    BY <2>2, InputsAssumption, ScoresStand DEF LooksAtInputs
  <2> QED
    BY <2>1, <2>2 DEF MirrorImage
<1> QED
  BY <1>1, AlwaysInputs, PTL
=============================================================================
