-------------------------- MODULE TickStoreProofs --------------------------
(***************************************************************************)
(* Proofs about the candle store: the day state is of its day and its open *)
(* the day's first trade, the bars are in order and no trade is counted    *)
(* twice, for all instruments, sessions, widths of bars and depths.        *)
(***************************************************************************)
EXTENDS TickStore, FiniteSetTheorems, SequenceTheorems, WellFoundedInduction, TLAPS

-----------------------------------------------------------------------------
(* Days and buckets. *)

LEMMA DivMod ==
  ASSUME NEW a \in Nat, NEW n \in Nat \ {0}
  PROVE  /\ a \div n \in Nat /\ a % n \in 0 .. n - 1
         /\ a = n * (a \div n) + (a % n)
BY Z3

LEMMA Multiples ==
  ASSUME NEW n \in Nat \ {0}, NEW p \in Nat, NEW q \in Nat,
         NEW r \in 0 .. n - 1, NEW x \in 0 .. n - 1, n * p + r <= n * q + x
  PROVE  p <= q /\ (p = q => r <= x) /\ n * p <= n * q
         /\ (p < q => n * p + n <= n * q)
<1>1. ASSUME q + 1 <= p PROVE FALSE
  <2>1. n * (q + 1) <= n * p
    BY <1>1, Z3
  <2>2. n * (q + 1) = n * q + n
    BY Z3
  <2> QED
    BY <2>1, <2>2, Z3
<1>2. p <= q
  BY <1>1
<1>3. ASSUME p < q PROVE n * p + n <= n * q
  <2>1. n * (p + 1) <= n * q
    BY <1>3, Z3
  <2>2. n * (p + 1) = n * p + n
    BY Z3
  <2> QED
    BY <2>1, <2>2, Z3
<1>4. p = q => r <= x
  BY Z3
<1> QED
  BY <1>2, <1>3, <1>4, Z3

LEMMA DayIs ==
  ASSUME NEW t \in Nat
  PROVE  /\ Day(t) \in Nat /\ TimeOfDay(t) \in 0 .. DayLen - 1
         /\ DayLen * Day(t) \in Nat
         /\ t = DayLen * Day(t) + TimeOfDay(t)
<1>1. DayLen \in Nat \ {0}
  BY StoreAssumption
<1>2. Day(t) \in Nat
  BY <1>1, DivMod DEF Day
<1>3. DayLen * Day(t) \in Nat
  <2> DEFINE d == Day(t)
  <2> HIDE DEF d
  <2> QED
    BY <1>1, <1>2 DEF d
<1> QED
  BY <1>1, <1>3, DivMod DEF Day, TimeOfDay

LEMMA DaysGoOn ==
  ASSUME NEW t \in Nat, NEW u \in Nat, t <= u
  PROVE  /\ Day(t) <= Day(u)
         /\ Day(t) = Day(u) => TimeOfDay(t) <= TimeOfDay(u)
         /\ Day(t) < Day(u) => DayLen * Day(t) + DayLen <= DayLen * Day(u)
<1>1. DayLen \in Nat \ {0}
  BY StoreAssumption
<1>2. /\ Day(t) \in Nat /\ TimeOfDay(t) \in 0 .. DayLen - 1
      /\ Day(u) \in Nat /\ TimeOfDay(u) \in 0 .. DayLen - 1
      /\ DayLen * Day(t) + TimeOfDay(t) <= DayLen * Day(u) + TimeOfDay(u)
  BY DayIs
<1> DEFINE p == Day(t)
           q == Day(u)
           r == TimeOfDay(t)
           x == TimeOfDay(u)
<1> HIDE DEF p, q, r, x
<1>3. p <= q /\ (p = q => r <= x) /\ (p < q => DayLen * p + DayLen <= DayLen * q)
  BY <1>1, <1>2, Multiples DEF p, q, r, x
<1> QED
  BY <1>3 DEF p, q, r, x

LEMMA BucketIs ==
  ASSUME NEW tf \in Frames, NEW t \in Nat
  PROVE  /\ Bucket(tf, t) \in Nat /\ Bucket(tf, t) <= t
         /\ DayLen * Day(t) <= Bucket(tf, t)
         /\ TimeOfDay(t) = 0 => Bucket(tf, t) = t
<1>1. Width[tf] \in Nat \ {0}
  BY StoreAssumption
<1>2. /\ TimeOfDay(t) % Width[tf] \in 0 .. TimeOfDay(t)
      /\ TimeOfDay(t) \in Nat
  <2>1. TimeOfDay(t) \in Nat
    BY DayIs
  <2> DEFINE x == TimeOfDay(t)
             w == Width[tf]
  <2> HIDE DEF x, w
  <2>2. x \in Nat /\ w \in Nat \ {0}
    BY <1>1, <2>1 DEF x, w
  <2>3. /\ x \div w \in Nat /\ x % w \in 0 .. w - 1
        /\ x = w * (x \div w) + (x % w)
    BY <2>2, DivMod
  <2>4. w * (x \div w) \in Nat
    BY <2>2, <2>3
  <2>5. x % w \in 0 .. x
    BY <2>2, <2>3, <2>4
  <2> QED
    BY <2>1, <2>5 DEF x, w
<1>3. DayLen * Day(t) \in Nat
  BY DayIs
<1> DEFINE back == TimeOfDay(t) % Width[tf]
           start == DayLen * Day(t)
<1>4. back \in 0 .. TimeOfDay(t) /\ TimeOfDay(t) \in Nat
  BY <1>2
<1>5. t = start + TimeOfDay(t) /\ start \in Nat
  BY <1>3, DayIs
<1>6. Bucket(tf, t) = t - back
  BY DEF Bucket
<1> HIDE DEF back, start
<1>7. /\ Bucket(tf, t) \in Nat /\ Bucket(tf, t) <= t
      /\ start <= Bucket(tf, t)
      /\ TimeOfDay(t) = 0 => Bucket(tf, t) = t
  <2> DEFINE x == TimeOfDay(t)
             b == Bucket(tf, t)
  <2> HIDE DEF x, b
  <2>1. back \in 0 .. x /\ x \in Nat /\ t = start + x /\ start \in Nat /\ b = t - back
    BY <1>4, <1>5, <1>6 DEF x, b
  <2>2. b \in Nat /\ b <= t /\ start <= b /\ (x = 0 => b = t)
    BY <2>1
  <2> QED
    BY <2>2 DEF x, b
<1> QED
  BY <1>7 DEF start

LEMMA BucketsGoOn ==
  ASSUME NEW tf \in Frames, NEW t \in Nat, NEW u \in Nat, t <= u
  PROVE  Bucket(tf, t) <= Bucket(tf, u)
<1>1. CASE Day(t) < Day(u)
  <2>1. Bucket(tf, t) <= t /\ DayLen * Day(u) <= Bucket(tf, u)
        /\ Bucket(tf, t) \in Nat /\ Bucket(tf, u) \in Nat
    BY BucketIs
  <2>2. DayLen * Day(t) + DayLen <= DayLen * Day(u)
    BY <1>1, DaysGoOn
  <2>3. /\ t = DayLen * Day(t) + TimeOfDay(t) /\ TimeOfDay(t) \in 0 .. DayLen - 1
        /\ DayLen * Day(t) \in Nat /\ DayLen * Day(u) \in Nat
    BY DayIs
  <2>4. DayLen \in Nat
    BY StoreAssumption
  <2> HIDE DEF Day, TimeOfDay, Bucket
  <2> QED
    BY <2>1, <2>2, <2>3, <2>4
<1>2. CASE Day(t) = Day(u)
  <2> DEFINE w == Width[tf]
             x == TimeOfDay(t)
             y == TimeOfDay(u)
  <2>1. w \in Nat \ {0} /\ x \in Nat /\ y \in Nat /\ x <= y
    BY <1>2, DaysGoOn, DayIs, StoreAssumption
  <2> HIDE DEF w, x, y
  <2>2. /\ x \div w \in Nat /\ x % w \in 0 .. w - 1 /\ x = w * (x \div w) + (x % w)
        /\ y \div w \in Nat /\ y % w \in 0 .. w - 1 /\ y = w * (y \div w) + (y % w)
    BY <2>1, DivMod
  <2>3. w * (x \div w) <= w * (y \div w)
    BY <2>1, <2>2, Multiples
  <2>4. x - (x % w) <= y - (y % w)
    <3>1. w * (x \div w) \in Nat /\ w * (y \div w) \in Nat
      BY <2>1, <2>2
    <3> QED
      BY <2>1, <2>2, <2>3, <3>1
  <2>5. Bucket(tf, t) = t - (x % w) /\ Bucket(tf, u) = u - (y % w)
    BY DEF Bucket, x, y, w
  <2>6. t = DayLen * Day(t) + x /\ u = DayLen * Day(t) + y
    BY <1>2, DayIs DEF x, y
  <2>7. DayLen * Day(t) \in Nat
    BY DayIs
  <2>8. x % w \in Nat /\ y % w \in Nat
    BY <2>1, <2>2
  <2> QED
    BY <2>1, <2>4, <2>5, <2>6, <2>7, <2>8
<1> QED
  BY <1>1, <1>2, DaysGoOn, DayIs

-----------------------------------------------------------------------------
(* The inductive invariant. *)

AnyBar == [ts : Nat, vol : SUBSET Nat, odd : BOOLEAN]
AnyDay == [open : SUBSET Nat, span : SUBSET Nat, range : SUBSET Nat, locked : BOOLEAN]

TypeOK ==
  /\ now \in Nat /\ trades \in [Symbols -> SUBSET (0 .. now)]
  /\ live \in BOOLEAN /\ seedNow \in Nat \cup {NoSeed} /\ pending \subseteq Symbols
  /\ ring \in [Symbols -> [Frames -> Seq(AnyBar)]]
  /\ building \in [Symbols -> [Frames -> {<<>>} \cup {<<b>> : b \in AnyBar}]]
  /\ day \in [Symbols -> AnyDay] /\ stateDate \in Nat \cup {NoDate}
  /\ counted \in [Symbols -> SUBSET Nat]
  /\ carried \subseteq Symbols /\ restored \subseteq Symbols
  /\ seededAt \in [Symbols -> Nat \cup {NoSeed}]

\* A seed in progress was begun on this day, before or when it seeded anything;
\* with an open socket, at the open.
SeedInv ==
  /\ pending # {} => seedNow # NoSeed
  /\ seedNow # NoSeed => seedNow <= now /\ Day(seedNow) = Day(now)
  /\ seedNow # NoSeed /\ live => TimeOfDay(seedNow) = 0
  /\ \A s \in Symbols : seededAt[s] <= now /\ (seedNow # NoSeed => seededAt[s] <= seedNow)

\* The day state before the first tick or seed, and what a seed restores.
DayInv ==
  /\ DayStateIsToday /\ DayOpenIsFirst
  /\ stateDate = NoDate => carried = {} /\ restored = {} /\ \A s \in Symbols : day[s] = Fresh
  /\ \A s \in restored : \E t \in trades[s] : Day(t) = stateDate

\* Of two bars the first is older and counts other trades, if neither is odd.
Fits(a, b) == ~a.odd /\ ~b.odd => a.ts < b.ts /\ a.vol \cap b.vol = {}

SeededBefore(s, tf, ts) ==
  tf \in Seeded /\ seededAt[s] # NoSeed /\ ts < Bucket(tf, seededAt[s])

\* A finished bar is older than a seed or than the bar of a later trade.
RingInv(s, tf) ==
  \A i \in DOMAIN ring[s][tf] :
    LET r == ring[s][tf][i]
    IN  /\ \A j \in DOMAIN ring[s][tf] : i < j => Fits(r, ring[s][tf][j])
        /\ \A b \in Range(building[s][tf]) : Fits(r, b)
        /\ ~r.odd => SeededBefore(s, tf, r.ts) \/ \E t \in trades[s] : r.ts < Bucket(tf, t)

\* The bar being built is that of a trade, and odd when a seed was later.
BuildingInv(s, tf) ==
  \A b \in Range(building[s][tf]) :
    /\ \E t \in trades[s] : b.ts = Bucket(tf, t)
    /\ SeededBefore(s, tf, b.ts) => b.odd

\* What was counted is a day up to some trade.
CountedInv(s) ==
  /\ counted[s] \subseteq trades[s]
  /\ \A m \in counted[s] : \A u \in trades[s] : Day(u) = Day(m) /\ u <= m => u \in counted[s]

\* A trade in a bar was counted by now, if there is a baseline that the next tick
\* will use; or it is from before the seed of the open.
Accounted(s, tf, u) ==
  \/ ~live \/ counted[s] = {}
  \/ \E m \in counted[s] : u <= m
  \/ /\ tf \in Seeded /\ seededAt[s] # NoSeed
     /\ TimeOfDay(seededAt[s]) = 0 /\ u < seededAt[s]
VolumeInv(s, tf) ==
  \A b \in Range(ring[s][tf]) \cup Range(building[s][tf]) :
    ~b.odd => b.vol \subseteq trades[s] /\ \A u \in b.vol : Accounted(s, tf, u)

SymbolInv(s) ==
  /\ CountedInv(s)
  /\ \A tf \in Frames : RingInv(s, tf) /\ BuildingInv(s, tf) /\ VolumeInv(s, tf)

BarsInv == \A s \in Symbols : SymbolInv(s)

-----------------------------------------------------------------------------
(* Bars in order. *)

LEMMA LeastNatural ==
  ASSUME NEW S, S \subseteq Nat, S # {}
  PROVE  \E k \in S : \A j \in S : k <= j
<1> DEFINE R == OpToRel(<, Nat)
<1>1. IsWellFoundedOn(R, Nat)
  BY NatLessThanWellFounded
<1>2. \A k, j \in S : j < k => <<j, k>> \in R
  BY DEF OpToRel
<1> HIDE DEF R
<1>3. PICK k \in S : \A j \in S : ~(<<j, k>> \in R)
  BY <1>1, WFMin
<1>4. \A j \in S : ~(j < k)
  BY <1>2, <1>3, Zenon
<1> QED
  BY <1>4

LEMMA Least ==
  ASSUME NEW S, S \subseteq Nat, S # {}
  PROVE  Min(S) \in S /\ \A j \in S : Min(S) <= j
BY LeastNatural DEF Min

LEMMA Greatest ==
  ASSUME NEW n \in Nat, NEW S, S \subseteq 0 .. n, S # {}
  PROVE  Max(S) \in S /\ \A j \in S : j <= Max(S)
<1> DEFINE gaps == {k \in Nat : n - k \in S}
<1>1. gaps \subseteq Nat /\ gaps # {}
  <2>1. PICK i \in S : TRUE
    OBVIOUS
  <2>2. i \in 0 .. n /\ n - i \in 0 .. n /\ n - (n - i) = i
    BY <2>1
  <2>3. n - (n - i) \in S
    BY <2>2, Zenon
  <2>4. n - i \in gaps
    BY <2>2, <2>3
  <2> QED
    BY <2>4
<1>2. PICK k \in gaps : \A j \in gaps : k <= j
  <2> HIDE DEF gaps
  <2> QED
    BY <1>1, LeastNatural
<1>3. \A i \in S : n - k >= i
  <2> TAKE i \in S
  <2>1. i \in 0 .. n /\ n - i \in 0 .. n /\ n - (n - i) = i
    OBVIOUS
  <2>2. n - i \in gaps
    BY <2>1
  <2> QED
    BY <1>2, <2>1, <2>2
<1> QED
  BY <1>2, <1>3 DEF Max

\* A finite set of naturals can be written down in order.
Rises(q) == \A i, j \in DOMAIN q : i < j => q[i] < q[j]

LEMMA InOrderExists ==
  ASSUME NEW S, S \subseteq Nat, IsFiniteSet(S)
  PROVE  \E q \in [1 .. Cardinality(S) -> S] : Rises(q)
<1> DEFINE Bad(T) == IsFiniteSet(T) /\ ~ \E q \in [1 .. Cardinality(T) -> T] : Rises(q)
           sizes == {k \in Nat : \E T \in SUBSET Nat : Bad(T) /\ Cardinality(T) = k}
<1> SUFFICES ASSUME Bad(S) PROVE FALSE
  OBVIOUS
<1>1. Cardinality(S) \in sizes
  BY FS_CardinalityType
<1>2. PICK k \in sizes : \A j \in sizes : k <= j
  <2>1. sizes \subseteq Nat /\ sizes # {}
    BY <1>1
  <2> HIDE DEF sizes
  <2> QED
    BY <2>1, LeastNatural
<1>3. PICK T \in SUBSET Nat : Bad(T) /\ Cardinality(T) = k
  BY <1>2
<1>4. T # {}
  <2> SUFFICES ASSUME T = {} PROVE FALSE
    OBVIOUS
  <2>1. 1 .. Cardinality(T) = {}
    BY FS_EmptySet
  <2>2. [i \in 1 .. Cardinality(T) |-> 0] \in [1 .. Cardinality(T) -> T]
    BY <2>1
  <2>3. Rises([i \in 1 .. Cardinality(T) |-> 0])
    BY <2>1 DEF Rises
  <2> QED
    BY <2>2, <2>3, <1>3
<1>5. PICK first \in T : \A x \in T : first <= x
  BY <1>4, LeastNatural
<1> DEFINE R == T \ {first}
<1>6. IsFiniteSet(R) /\ Cardinality(R) = k - 1 /\ k \in Nat /\ k - 1 \in Nat
  <2>1. k = Cardinality(T) /\ IsFiniteSet(T)
    BY <1>3
  <2>2. k \in Nat /\ k # 0
    BY <2>1, <1>4, FS_EmptySet, FS_CardinalityType
  <2>3. IsFiniteSet(R) /\ Cardinality(R) = Cardinality(T) - 1
    BY <2>1, <1>5, FS_RemoveElement
  <2> HIDE DEF R
  <2> QED
    BY <2>1, <2>2, <2>3
<1>7. PICK q \in [1 .. k - 1 -> R] : Rises(q)
  <2>1. ~ (k - 1 \in sizes)
    BY <1>2, <1>6
  <2>2. R \in SUBSET Nat
    OBVIOUS
  <2> HIDE DEF R
  <2>3. ~ Bad(R)
    BY <2>1, <2>2, <1>6
  <2> QED
    BY <2>3, <1>6
<1> DEFINE p == [i \in 1 .. k |-> IF i = 1 THEN first ELSE q[i - 1]]
<1>8. p \in [1 .. k -> T]
  <2>1. \A i \in 1 .. k : i # 1 => i - 1 \in 1 .. k - 1
    BY <1>6
  <2> QED
    BY <2>1, <1>5, <1>7
<1>9. Rises(p)
  <2> SUFFICES ASSUME NEW i \in 1 .. k, NEW j \in 1 .. k, i < j
               PROVE  p[i] < p[j]
    BY <1>8 DEF Rises
  <2>1. j - 1 \in 1 .. k - 1 /\ p[j] = q[j - 1] /\ q[j - 1] \in R
    BY <1>6, <1>7
  <2>2. CASE i = 1
    <3>1. p[i] = first /\ q[j - 1] \in T /\ q[j - 1] # first
      BY <2>1, <2>2
    <3>2. first \in Nat /\ q[j - 1] \in Nat /\ first <= q[j - 1]
      BY <3>1, <1>5
    <3> HIDE DEF p, R
    <3> QED
      BY <2>1, <3>1, <3>2
  <2>3. CASE i # 1
    <3>1. i - 1 \in 1 .. k - 1 /\ p[i] = q[i - 1] /\ i - 1 < j - 1
      BY <2>3, <1>6
    <3> HIDE DEF p
    <3> QED
      BY <2>1, <3>1, <1>7 DEF Rises
  <2> QED
    BY <2>2, <2>3
<1> QED
  BY <1>3, <1>8, <1>9

LEMMA AscendingIs ==
  ASSUME NEW S, S \subseteq Nat, IsFiniteSet(S)
  PROVE  Ascending(S) \in [1 .. Cardinality(S) -> S] /\ Rises(Ascending(S))
BY InOrderExists DEF Ascending, Rises

\* Bars of the trades of S: in order, each with trades of its bucket.
Series(tf, S, bars) ==
  /\ bars \in Seq(AnyBar)
  /\ \A i \in DOMAIN bars :
       /\ \E t \in S : bars[i].ts = Bucket(tf, t)
       /\ bars[i].vol \subseteq {t \in S : Bucket(tf, t) = bars[i].ts}
  /\ \A i, j \in DOMAIN bars : i < j => bars[i].ts < bars[j].ts

LEMMA BarsAre ==
  ASSUME NEW tf \in Frames, NEW n \in Nat, NEW S, S \subseteq 0 .. n
  PROVE  Series(tf, S, Bars(tf, S))
<1> DEFINE B == {Bucket(tf, t) : t \in S}
           q == Ascending(B)
           k == Cardinality(B)
<1>1. B \subseteq Nat /\ IsFiniteSet(B)
  <2>1. \A t \in S : Bucket(tf, t) \in 0 .. n
    <3> TAKE t \in S
    <3>1. t \in 0 .. n
      OBVIOUS
    <3>2. Bucket(tf, t) \in Nat /\ Bucket(tf, t) <= t
      BY <3>1, BucketIs
    <3> DEFINE b == Bucket(tf, t)
    <3> HIDE DEF b
    <3> QED
      BY <3>1, <3>2 DEF b
  <2>2. B \in SUBSET (0 .. n)
    BY <2>1
  <2> HIDE DEF B
  <2>3. IsFiniteSet(0 .. n)
    BY FS_Interval
  <2>4. IsFiniteSet(B)
    BY <2>2, <2>3, FS_Subset
  <2>5. B \subseteq Nat
    BY <2>2
  <2> QED
    BY <2>4, <2>5
<1>2. q \in [1 .. k -> B] /\ Rises(q) /\ k \in Nat
  <2> HIDE DEF B
  <2> QED
    BY <1>1, AscendingIs, FS_CardinalityType
<1>3. Bars(tf, S) = [i \in 1 .. k |-> Bar(q[i], {t \in S : Bucket(tf, t) = q[i]}, FALSE)]
  BY <1>2 DEF Bars
<1>4. \A i \in 1 .. k : q[i] \in B /\ q[i] \in Nat
  <2> HIDE DEF q
  <2> QED
    BY <1>1, <1>2
<1> DEFINE bars == Bars(tf, S)
<1>5. /\ DOMAIN bars = 1 .. k
      /\ \A i \in 1 .. k : /\ bars[i].ts = q[i] /\ bars[i].odd = FALSE
                           /\ bars[i].vol = {t \in S : Bucket(tf, t) = q[i]}
                           /\ bars[i] \in AnyBar
  <2> HIDE DEF q, k, B
  <2>1. \A i \in 1 .. k : {t \in S : Bucket(tf, t) = q[i]} \subseteq Nat
    <3>1. \A t \in S : t \in Nat
      OBVIOUS
    <3> QED
      BY <3>1, Zenon
  <2> QED
    BY <1>3, <1>4, <2>1 DEF Bar, AnyBar
<1>6. bars \in Seq(AnyBar)
  <2> HIDE DEF q, k, B
  <2>1. bars \in [1 .. k -> AnyBar]
    BY <1>3, <1>5
  <2> HIDE DEF bars
  <2> QED
    BY <1>2, <2>1, IsASeq
<1>7. \A i \in 1 .. k : \E t \in S : bars[i].ts = Bucket(tf, t)
  BY <1>4, <1>5
<1> HIDE DEF q, k, B
<1>8. \A i, j \in 1 .. k : i < j => bars[i].ts < bars[j].ts
  BY <1>2, <1>5 DEF Rises
<1> QED
  BY <1>5, <1>6, <1>7, <1>8 DEF Series

LEMMA SeriesOfMore ==
  ASSUME NEW tf, NEW S, NEW T, S \subseteq T, NEW bars, Series(tf, S, bars)
  PROVE  Series(tf, T, bars)
BY DEF Series

LEMMA AggregateIs ==
  ASSUME NEW tf \in Frames, NEW n \in Nat, NEW S, S \subseteq 0 .. n,
         NEW fine \in Frames, NEW bars, Series(fine, S, bars)
  PROVE  Series(tf, S, Aggregate(tf, bars))
<1> DEFINE U == UNION {bars[i].vol : i \in DOMAIN bars}
<1>1. U \subseteq S
  BY DEF Series
<1>2. Series(tf, U, Bars(tf, U))
  <2>1. U \subseteq 0 .. n
    BY <1>1
  <2> HIDE DEF U
  <2> QED
    BY <2>1, BarsAre
<1> HIDE DEF U
<1>3. Series(tf, S, Bars(tf, U))
  BY <1>1, <1>2, SeriesOfMore
<1> QED
  BY <1>3 DEF Aggregate, U

LEMMA MarkFormingIs ==
  ASSUME NEW tf \in Frames, NEW S, NEW bars, Series(tf, S, bars)
  PROVE  /\ Series(tf, S, MarkForming(tf, bars))
         /\ \A i \in DOMAIN MarkForming(tf, bars) :
              ~MarkForming(tf, bars)[i].odd => MarkForming(tf, bars)[i].ts # Bucket(tf, seedNow)
<1> DEFINE marked == MarkForming(tf, bars)
<1>1. bars \in Seq(AnyBar) /\ DOMAIN bars = 1 .. Len(bars) /\ Len(bars) \in Nat
  BY LenProperties DEF Series
<1>2. /\ DOMAIN marked = DOMAIN bars
      /\ \A i \in DOMAIN bars :
           marked[i] = [bars[i] EXCEPT !.odd = bars[i].ts = Bucket(tf, seedNow)]
  BY DEF MarkForming
<1>3. \A i \in DOMAIN bars : bars[i] \in AnyBar
  BY <1>1, ElementOfSeq
<1>4. \A i \in DOMAIN bars :
        /\ marked[i].ts = bars[i].ts /\ marked[i].vol = bars[i].vol
        /\ (marked[i].odd <=> bars[i].ts = Bucket(tf, seedNow))
        /\ marked[i] \in AnyBar
  BY <1>2, <1>3 DEF AnyBar
<1>5. marked \in Seq(AnyBar)
  <2>1. marked \in [1 .. Len(bars) -> AnyBar]
    BY <1>1, <1>4 DEF MarkForming
  <2> HIDE DEF marked
  <2> QED
    BY <1>1, <2>1, IsASeq
<1> HIDE DEF marked
<1>6. Series(tf, S, marked)
  BY <1>2, <1>4, <1>5 DEF Series
<1> QED
  BY <1>2, <1>4, <1>6 DEF marked

\* Keeping the last of a ring.
LEMMA CappedIs ==
  ASSUME NEW S, NEW q \in Seq(S)
  PROVE  /\ Capped(q) \in Seq(S)
         /\ \E k \in Nat : /\ DOMAIN Capped(q) = 1 .. Len(q) - k
                           /\ \A i \in DOMAIN Capped(q) : k + i \in DOMAIN q /\ Capped(q)[i] = q[k + i]
<1> DEFINE k == Max({0, Len(q) - MaxCandles})
<1>1. Len(q) \in Nat /\ MaxCandles \in Nat \ {0} /\ DOMAIN q = 1 .. Len(q)
      /\ \A i \in 1 .. Len(q) : q[i] \in S
  BY StoreAssumption, LenProperties, ElementOfSeq
<1>2. k \in 0 .. Len(q)
  <2>1. CASE Len(q) <= MaxCandles
    <3>1. k = 0
      BY <2>1, <1>1 DEF Max
    <3> QED
      BY <3>1, <1>1
  <2>2. CASE Len(q) > MaxCandles
    <3>1. k = Len(q) - MaxCandles
      BY <2>2, <1>1 DEF Max
    <3> QED
      BY <3>1, <2>2, <1>1
  <2> QED
    BY <2>1, <2>2, <1>1
<1>3. Capped(q) = SubSeq(q, 1 + k, Len(q))
  BY DEF Capped
<1> HIDE DEF k
<1>4. /\ Capped(q) \in Seq(S)
      /\ Len(Capped(q)) = Len(q) - k
      /\ \A i \in 1 .. Len(q) - k : Capped(q)[i] = q[k + i]
  <2>1. 1 + k \in Int /\ Len(q) \in Int /\ \A i \in 1 + k .. Len(q) : q[i] \in S
    BY <1>1, <1>2
  <2>2. /\ SubSeq(q, 1 + k, Len(q)) \in Seq(S)
        /\ Len(SubSeq(q, 1 + k, Len(q))) = IF 1 + k <= Len(q) THEN Len(q) - (1 + k) + 1 ELSE 0
        /\ \A i \in 1 .. Len(q) - (1 + k) + 1 : SubSeq(q, 1 + k, Len(q))[i] = q[1 + k + i - 1]
    BY <2>1, SubSeqProperties
  <2>3. /\ Len(q) - (1 + k) + 1 = Len(q) - k
        /\ 1 + k <= Len(q) \/ Len(q) - k = 0
        /\ \A i \in 1 .. Len(q) - k : 1 + k + i - 1 = k + i
    <3> DEFINE n == Len(q)
    <3> HIDE DEF n
    <3>1. n \in Nat /\ k \in 0 .. n
      BY <1>1, <1>2 DEF n
    <3>2. /\ n - (1 + k) + 1 = n - k /\ (1 + k <= n \/ n - k = 0)
          /\ \A i \in 1 .. n - k : 1 + k + i - 1 = k + i
      BY <3>1
    <3> QED
      BY <3>2 DEF n
  <2>4. Len(Capped(q)) = Len(q) - k
    BY <1>1, <1>2, <1>3, <2>2, <2>3
  <2>5. \A i \in 1 .. Len(q) - k : Capped(q)[i] = q[k + i]
    BY <1>3, <2>2, <2>3
  <2> QED
    BY <1>3, <2>2, <2>4, <2>5
<1>5. DOMAIN Capped(q) = 1 .. Len(q) - k
  BY <1>4, LenProperties
<1>6. \A i \in 1 .. Len(q) - k : k + i \in DOMAIN q
  BY <1>1, <1>2
<1>7. k \in Nat
  BY <1>2, <1>1
<1> QED
  BY <1>4, <1>5, <1>6, <1>7

-----------------------------------------------------------------------------
(* What a seed puts in the rings. *)

FromSeed(tf, s, bars) ==
  /\ bars \in Seq(AnyBar)
  /\ \A i \in DOMAIN bars :
       ~bars[i].odd => /\ bars[i].ts < Bucket(tf, seedNow)
                       /\ bars[i].vol \subseteq {t \in trades[s] : Bucket(tf, t) = bars[i].ts}
  /\ \A i, j \in DOMAIN bars : i < j => bars[i].ts < bars[j].ts

Known(s) == {t \in trades[s] : t <= seedNow}

LEMMA FromSeries ==
  ASSUME NEW s \in Symbols, trades[s] \subseteq Nat, seedNow \in Nat,
         NEW tf \in Frames, NEW bars, Series(tf, Known(s), bars),
         \A i \in DOMAIN bars : ~bars[i].odd => bars[i].ts # Bucket(tf, seedNow)
  PROVE  FromSeed(tf, s, bars)
<1>1. \A i \in DOMAIN bars :
        /\ bars[i].ts <= Bucket(tf, seedNow) /\ bars[i].ts \in Nat
        /\ bars[i].vol \subseteq {t \in trades[s] : Bucket(tf, t) = bars[i].ts}
  <2> TAKE i \in DOMAIN bars
  <2>1. PICK t \in Known(s) : bars[i].ts = Bucket(tf, t)
    BY DEF Series
  <2>2. t \in Nat /\ t <= seedNow
    BY DEF Known
  <2>3. bars[i].ts <= Bucket(tf, seedNow) /\ bars[i].ts \in Nat
    BY <2>1, <2>2, BucketsGoOn, BucketIs
  <2> QED
    BY <2>3 DEF Series, Known
<1>2. Bucket(tf, seedNow) \in Nat
  BY BucketIs
<1>3. \A i \in DOMAIN bars : ~bars[i].odd => bars[i].ts < Bucket(tf, seedNow)
  BY <1>1, <1>2
<1> QED
  BY <1>1, <1>3 DEF FromSeed, Series

LEMMA CappedSeed ==
  ASSUME NEW tf, NEW s, NEW bars, FromSeed(tf, s, bars)
  PROVE  FromSeed(tf, s, Capped(bars))
<1>1. bars \in Seq(AnyBar) /\ DOMAIN bars = 1 .. Len(bars) /\ Len(bars) \in Nat
  BY LenProperties DEF FromSeed
<1>2. Capped(bars) \in Seq(AnyBar)
  BY <1>1, CappedIs
<1>3. PICK k \in Nat : /\ DOMAIN Capped(bars) = 1 .. Len(bars) - k
                       /\ \A i \in DOMAIN Capped(bars) :
                            k + i \in DOMAIN bars /\ Capped(bars)[i] = bars[k + i]
  BY <1>1, CappedIs
<1>4. \A i, j \in DOMAIN Capped(bars) : i < j => k + i < k + j
  BY <1>1, <1>3
<1> QED
  BY <1>2, <1>3, <1>4 DEF FromSeed

LEMMA SeedsAre ==
  ASSUME TypeOK, seedNow # NoSeed, seedNow <= now, NEW s \in Symbols, NEW fetched \in BOOLEAN
  PROVE  /\ SeedBars(s, fetched) \in [Frames -> Seq(AnyBar)]
         /\ \A tf \in Seeded : FromSeed(tf, s, SeedBars(s, fetched)[tf])
         /\ SeedBars(s, fetched)["1m"] = ring[s]["1m"]
<1> DEFINE P == Known(s)
<1>1. trades[s] \subseteq Nat /\ seedNow \in Nat /\ P \subseteq 0 .. seedNow
  BY DEF TypeOK, Known
<1>2. {"5m", "15m", "60m"} = Seeded /\ "1m" \in Frames /\ Seeded \subseteq Frames
  BY DEF Seeded, Frames
<1>3. \A tf \in Frames : Bucket(tf, seedNow) <= seedNow /\ Bucket(tf, seedNow) \in Nat
  BY <1>1, BucketIs
<1>4. \A tf \in Frames : \A t \in trades[s] : Bucket(tf, t) \in Nat /\ Bucket(tf, t) <= t /\ t \in Nat
  BY <1>1, BucketIs
<1>5. \A tf \in Frames : \A t \in trades[s] : t < Bucket(tf, seedNow) => t \in P
  BY <1>1, <1>3, <1>4 DEF Known
<1>6. ASSUME NEW tf \in Frames, NEW S, S \subseteq {t \in trades[s] : t < Bucket(tf, seedNow)}
      PROVE  FromSeed(tf, s, Bars(tf, S)) /\ Series(tf, P, Bars(tf, S))
  <2>1. S \subseteq P /\ S \subseteq 0 .. seedNow
    BY <1>1, <1>5, <1>6
  <2>2. Series(tf, S, Bars(tf, S))
    BY <1>1, <2>1, BarsAre
  <2>3. \A i \in DOMAIN Bars(tf, S) : Bars(tf, S)[i].ts # Bucket(tf, seedNow)
    <3> TAKE i \in DOMAIN Bars(tf, S)
    <3>1. PICK t \in S : Bars(tf, S)[i].ts = Bucket(tf, t)
      BY <2>2 DEF Series
    <3>2. t \in trades[s] /\ t < Bucket(tf, seedNow)
      BY <1>6
    <3> QED
      BY <3>1, <3>2, <1>3, <1>4
  <2>4. Series(tf, P, Bars(tf, S))
    BY <2>1, <2>2, SeriesOfMore
  <2> QED
    BY <1>1, <2>3, <2>4, FromSeries
<1>7. FromSeed("5m", s, Recent(s)) /\ Series("5m", P, Bars("5m", Completed(s)))
  <2>1. Completed(s) \subseteq {t \in trades[s] : t < Bucket("5m", seedNow)}
    BY DEF Completed
  <2>2. {t \in Completed(s) : Bucket("5m", t) >= seedNow - RingSpan} \subseteq Completed(s)
    OBVIOUS
  <2>3. "5m" \in Frames
    BY DEF Frames
  <2> QED
    BY <1>6, <2>1, <2>2, <2>3 DEF Recent
<1>8. FromSeed("15m", s, FifteenMin(s, fetched)) /\ Series("15m", P, FifteenMin(s, fetched))
  <2> DEFINE finished == Bars("15m", {t \in trades[s] : t < Bucket("15m", seedNow)})
             merged == Aggregate("15m", Bars("5m", Completed(s)))
  <2>1. "15m" \in Frames /\ "5m" \in Frames
    BY DEF Frames
  <2>2. FromSeed("15m", s, finished) /\ Series("15m", P, finished)
    BY <1>6, <2>1
  <2>3. Series("15m", P, merged)
    BY <1>1, <1>7, <2>1, AggregateIs
  <2> HIDE DEF finished, merged
  <2>4. Series("15m", P, MarkForming("15m", merged)) /\ FromSeed("15m", s, MarkForming("15m", merged))
    BY <1>1, <2>1, <2>3, MarkFormingIs, FromSeries
  <2>5. FifteenMin(s, fetched) \in {finished, MarkForming("15m", merged)}
    BY DEF FifteenMin, finished, merged
  <2> QED
    BY <2>2, <2>4, <2>5
<1>9. FromSeed("60m", s, MarkForming("60m", Aggregate("60m", FifteenMin(s, fetched))))
  <2>1. "15m" \in Frames /\ "60m" \in Frames
    BY DEF Frames
  <2>2. Series("60m", P, Aggregate("60m", FifteenMin(s, fetched)))
    BY <1>1, <1>8, <2>1, AggregateIs
  <2> QED
    BY <1>1, <2>1, <2>2, MarkFormingIs, FromSeries
<1> DEFINE five == Capped(Recent(s))
           fifteen == Capped(FifteenMin(s, fetched))
           sixty == Capped(MarkForming("60m", Aggregate("60m", FifteenMin(s, fetched))))
<1>10. FromSeed("5m", s, five) /\ FromSeed("15m", s, fifteen) /\ FromSeed("60m", s, sixty)
  BY <1>7, <1>8, <1>9, CappedSeed
<1> HIDE DEF five, fifteen, sixty
<1>11. SeedBars(s, fetched) = [ring[s] EXCEPT !["5m"] = five, !["15m"] = fifteen, !["60m"] = sixty]
  BY DEF SeedBars, five, fifteen, sixty
<1>12. ring[s] \in [Frames -> Seq(AnyBar)]
  BY DEF TypeOK
<1>13. five \in Seq(AnyBar) /\ fifteen \in Seq(AnyBar) /\ sixty \in Seq(AnyBar)
  BY <1>10 DEF FromSeed
<1>14. /\ SeedBars(s, fetched) \in [Frames -> Seq(AnyBar)]
       /\ SeedBars(s, fetched)["5m"] = five /\ SeedBars(s, fetched)["15m"] = fifteen
       /\ SeedBars(s, fetched)["60m"] = sixty /\ SeedBars(s, fetched)["1m"] = ring[s]["1m"]
  BY <1>11, <1>12, <1>13 DEF Frames
<1> QED
  BY <1>2, <1>10, <1>14

-----------------------------------------------------------------------------
(* Type correctness. *)

AtMostOne == {<<>>} \cup {<<b>> : b \in AnyBar}

LEMMA OneBar ==
  ASSUME NEW b \in AnyBar
  PROVE  /\ DOMAIN <<b>> = {1} /\ <<b>>[1] = b /\ <<b>> # <<>>
         /\ <<b>> \in Seq(AnyBar) /\ Len(<<b>>) = 1 /\ Range(<<b>>) = {b}
<1>1. DOMAIN <<b>> = {1} /\ <<b>>[1] = b /\ <<b>> # <<>>
  OBVIOUS
<1>2. <<b>> \in Seq(AnyBar) /\ Len(<<b>>) = 1
  OBVIOUS
<1>3. Range(<<b>>) = {b}
  BY <1>1 DEF Range
<1> QED
  BY <1>1, <1>2, <1>3

LEMMA NoBar == <<>> \in Seq(AnyBar) /\ DOMAIN <<>> = {} /\ Range(<<>>) = {} /\ Len(<<>>) = 0
<1>1. <<>> \in Seq(AnyBar) /\ DOMAIN <<>> = {} /\ Len(<<>>) = 0
  OBVIOUS
<1> QED
  BY <1>1 DEF Range

\* The bar being built, after a seed.
Late(tf, bar) == [bar EXCEPT !.odd = @ \/ (tf \in Seeded /\ Overtaken(tf, bar))]

LEMMA KeptIs ==
  ASSUME TypeOK, NEW s \in Symbols
  PROVE  /\ Kept(s) \in [Frames -> AtMostOne]
         /\ \A tf \in Frames :
              /\ building[s][tf] = <<>> => Kept(s)[tf] = <<>>
              /\ \A b \in AnyBar : building[s][tf] = <<b>> => Kept(s)[tf] = <<Late(tf, b)>>
<1>1. \A tf \in Frames : building[s][tf] \in AtMostOne
  BY DEF TypeOK, AtMostOne
<1>2. ASSUME NEW tf \in Frames
      PROVE  /\ building[s][tf] = <<>> => Kept(s)[tf] = <<>>
             /\ \A b \in AnyBar : building[s][tf] = <<b>> => Kept(s)[tf] = <<Late(tf, b)>>
  <2>1. Kept(s)[tf] = [i \in DOMAIN building[s][tf] |-> Late(tf, building[s][tf][i])]
    BY DEF Kept, Late
  <2>2. ASSUME building[s][tf] = <<>> PROVE Kept(s)[tf] = <<>>
    BY <2>1, <2>2
  <2>3. ASSUME NEW b \in AnyBar, building[s][tf] = <<b>> PROVE Kept(s)[tf] = <<Late(tf, b)>>
    <3>1. Kept(s)[tf] = [i \in {1} |-> Late(tf, <<b>>[i])]
      BY <2>1, <2>3, OneBar
    <3>2. [i \in {1} |-> Late(tf, <<b>>[i])] = <<Late(tf, b)>>
      <4> DEFINE c == Late(tf, b)
      <4>1. [i \in {1} |-> Late(tf, <<b>>[i])] = [i \in {1} |-> c]
        BY OneBar
      <4> HIDE DEF c
      <4>2. [i \in {1} |-> c] = <<c>>
        OBVIOUS
      <4> QED
        BY <4>1, <4>2 DEF c
    <3> QED
      BY <3>1, <3>2
  <2> QED
    BY <2>2, <2>3
<1>3. \A tf \in Frames : \A b \in AnyBar : Late(tf, b) \in AnyBar
  BY DEF Late, AnyBar
<1>4. \A tf \in Frames : Kept(s)[tf] \in AtMostOne
  BY <1>1, <1>2, <1>3 DEF AtMostOne
<1>5. Kept(s) \in [Frames -> AtMostOne]
  <2>1. Kept(s) = [tf \in Frames |-> Kept(s)[tf]]
    BY DEF Kept
  <2> QED
    BY <1>4, <2>1
<1> QED
  BY <1>2, <1>5

\* The last trade, which a tick reports.
LEMMA LastTrade ==
  ASSUME TypeOK, NEW s \in Symbols, trades[s] # {}
  PROVE  /\ Max(trades[s]) \in trades[s] /\ Max(trades[s]) \in Nat /\ Max(trades[s]) <= now
         /\ trades[s] \subseteq Nat
         /\ \A u \in trades[s] : u <= Max(trades[s])
<1>1. now \in Nat /\ trades[s] \subseteq 0 .. now
  BY DEF TypeOK
<1>2. Max(trades[s]) \in trades[s] /\ \A u \in trades[s] : u <= Max(trades[s])
  BY <1>1, Greatest
<1> QED
  BY <1>1, <1>2

LEMMA GrownIs ==
  ASSUME NEW tf \in Frames, NEW bar \in AtMostOne, NEW t \in Nat, NEW vol \in SUBSET Nat,
         NEW seeded \in Nat \cup {NoSeed}
  PROVE  /\ Grown(tf, bar, t, vol, seeded) \in AtMostOne
         /\ Finished(tf, bar, t) \in AtMostOne
<1>1. Bucket(tf, t) \in Nat
  BY BucketIs
<1>2. bar = <<>> \/ (bar[1] \in AnyBar /\ bar = <<bar[1]>>)
  BY OneBar DEF AtMostOne
<1>3. Finished(tf, bar, t) \in AtMostOne
  BY DEF Finished, AtMostOne
<1>4. CASE bar = <<>> \/ Bucket(tf, t) > bar[1].ts
  <2> DEFINE odd == tf \in Seeded /\ seeded # NoSeed /\ Bucket(tf, t) < Bucket(tf, seeded)
  <2>1. Grown(tf, bar, t, vol, seeded) = <<Bar(Bucket(tf, t), vol, odd)>>
    BY <1>4 DEF Grown
  <2>2. odd \in BOOLEAN
    OBVIOUS
  <2> HIDE DEF odd
  <2>3. Bar(Bucket(tf, t), vol, odd) \in AnyBar
    BY <1>1, <2>2 DEF Bar, AnyBar
  <2> QED
    BY <1>3, <2>1, <2>3 DEF AtMostOne
<1>5. CASE ~ (bar = <<>> \/ Bucket(tf, t) > bar[1].ts)
  <2>1. Grown(tf, bar, t, vol, seeded) = <<[bar[1] EXCEPT !.vol = @ \cup vol]>>
    BY <1>5 DEF Grown
  <2>2. bar[1] \in AnyBar
    BY <1>2, <1>5
  <2>3. [bar[1] EXCEPT !.vol = @ \cup vol] \in AnyBar
    BY <2>2 DEF AnyBar
  <2> QED
    BY <1>3, <2>1, <2>3 DEF AtMostOne
<1> QED
  BY <1>4, <1>5

LEMMA OneOrNone ==
  ASSUME NEW q \in AtMostOne
  PROVE  q \in Seq(AnyBar)
BY OneBar, NoBar DEF AtMostOne

LEMMA DayTyped ==
  ASSUME NEW old \in AnyDay, NEW t \in Nat
  PROVE  /\ TickDay(old, t) \in AnyDay /\ Fresh \in AnyDay
         /\ \A todays \in SUBSET Nat : todays # {} => SeedDay(old, todays) \in AnyDay
<1>1. Fresh \in AnyDay
  BY DEF Fresh, AnyDay
<1>2. TickDay(old, t) \in AnyDay
  <2>1. TimeOfDay(t) \in Nat /\ OREnd \in Nat
    BY DayIs, StoreAssumption
  <2> QED
    BY <2>1 DEF TickDay, AnyDay
<1>3. ASSUME NEW todays \in SUBSET Nat, todays # {}
      PROVE  SeedDay(old, todays) \in AnyDay
  <2>1. Min(todays) \in Nat
    BY <1>3, Least
  <2> QED
    BY <2>1 DEF SeedDay, AnyDay
<1> QED
  BY <1>1, <1>2, <1>3

LEMMA InitTyped == ASSUME Init PROVE TypeOK
<1>1. <<>> \in Seq(AnyBar)
  BY NoBar
<1>2. Fresh \in AnyDay
  BY DEF Fresh, AnyDay
<1>3. ring \in [Symbols -> [Frames -> Seq(AnyBar)]]
  BY <1>1 DEF Init
<1>4. building \in [Symbols -> [Frames -> {<<>>} \cup {<<b>> : b \in AnyBar}]]
  BY DEF Init
<1> QED
  BY <1>2, <1>3, <1>4 DEF Init, TypeOK

LEMMA SeedOneTyped ==
  ASSUME TypeOK, SeedInv, NEW s \in Symbols, NEW fetched \in BOOLEAN, SeedOne(s, fetched), seedNow # NoSeed
  PROVE  TypeOK'
<1>1. seedNow \in Nat /\ seedNow <= now
  BY DEF TypeOK, SeedInv
<1>2. SeedBars(s, fetched) \in [Frames -> Seq(AnyBar)]
  BY <1>1, SeedsAre DEF SeedInv
<1>3. ring' \in [Symbols -> [Frames -> Seq(AnyBar)]]
  BY <1>2 DEF SeedOne, TypeOK
<1>4. building' \in [Symbols -> [Frames -> {<<>>} \cup {<<b>> : b \in AnyBar}]]
  <2>1. Kept(s) \in [Frames -> AtMostOne]
    BY KeptIs
  <2> QED
    BY <2>1 DEF SeedOne, TypeOK, AtMostOne
<1>5. PICK shot \in {{t \in trades[s] : t <= seedNow}, {t \in trades[s] : t < Bucket("5m", seedNow)}} :
        SeedIntradayState(s, {t \in shot : Day(t) = Day(seedNow)})
  BY DEF SeedOne
<1> DEFINE todays == {t \in shot : Day(t) = Day(seedNow)}
<1>6. todays \subseteq Nat
  <2>1. trades[s] \subseteq Nat
    BY DEF TypeOK
  <2> QED
    BY <2>1
<1> HIDE DEF todays
<1>7. /\ day' \in [Symbols -> AnyDay] /\ stateDate' \in Nat \cup {NoDate}
      /\ carried' \subseteq Symbols /\ restored' \subseteq Symbols
  <2>1. CASE todays = {}
    BY <1>5, <2>1 DEF SeedIntradayState, todays, TypeOK
  <2>2. CASE todays # {}
    <3>1. /\ stateDate' = Day(seedNow)
          /\ day' = [day EXCEPT ![s] = SeedDay(@, todays)]
          /\ carried' \subseteq carried \cup Symbols
          /\ restored' \subseteq {s} \cup restored
      <4> HIDE DEF SeedDay, Fresh
      <4> QED
        BY <1>5, <2>2 DEF SeedIntradayState, todays
    <3>2. day \in [Symbols -> AnyDay] /\ carried \subseteq Symbols /\ restored \subseteq Symbols
      BY DEF TypeOK
    <3>3. SeedDay(day[s], todays) \in AnyDay
      BY <1>6, <2>2, <3>2, <1>1, DayTyped
    <3>4. Day(seedNow) \in Nat
      BY <1>1, DayIs
    <3> QED
      BY <3>1, <3>2, <3>3, <3>4
  <2> QED
    BY <2>1, <2>2
<1> QED
  BY <1>1, <1>3, <1>4, <1>7 DEF SeedOne, TypeOK, market

LEMMA TickTyped ==
  ASSUME TypeOK, NEW s \in Symbols, Tick(s)
  PROVE  TypeOK'
<1> DEFINE t == Max(trades[s])
           bars == BuildingAfterReset(t)
           base == AfterReset(t)
<1>1. t \in Nat /\ trades[s] \subseteq Nat
  BY LastTrade DEF Tick
<1> HIDE DEF t
<1>2. /\ counted' = [counted EXCEPT ![s] = Reading(s, t)]
      /\ stateDate' = Day(t)
      /\ day' = [base EXCEPT ![s] = TickDay(@, t)]
      /\ ring' = [ring EXCEPT ![s] = [tf \in Frames |->
                   Capped(@[tf] \o Finished(tf, bars[s][tf], t))]]
      /\ building' = [bars EXCEPT ![s] = [tf \in Frames |->
                       Grown(tf, bars[s][tf], t, Delta(s, t), seededAt[s])]]
      /\ carried' = IF NewDay(t) THEN {} ELSE carried
      /\ restored' = IF NewDay(t) THEN {} ELSE restored
      /\ UNCHANGED <<market, seeding, seededAt>>
  BY DEF Tick, t
<1>3. base \in [Symbols -> AnyDay]
  BY DEF AfterReset, TypeOK, AnyDay, Fresh
<1>4. bars \in [Symbols -> [Frames -> AtMostOne]]
  BY DEF BuildingAfterReset, TypeOK, AtMostOne
<1> HIDE DEF bars, base
<1>5. day' \in [Symbols -> AnyDay]
  BY <1>1, <1>2, <1>3, DayTyped
<1>6. Delta(s, t) \subseteq Nat /\ Reading(s, t) \subseteq Nat
  BY <1>1 DEF Delta, Reading
<1>7. seededAt[s] \in Nat \cup {NoSeed}
  BY DEF TypeOK
<1>8. \A tf \in Frames : /\ Grown(tf, bars[s][tf], t, Delta(s, t), seededAt[s]) \in AtMostOne
                         /\ Finished(tf, bars[s][tf], t) \in AtMostOne
  <2> TAKE tf \in Frames
  <2>1. bars[s][tf] \in AtMostOne
    BY <1>4
  <2> QED
    BY <1>1, <1>6, <1>7, <2>1, GrownIs
<1>9. building' \in [Symbols -> [Frames -> AtMostOne]]
  BY <1>2, <1>4, <1>8
<1>10. ring' \in [Symbols -> [Frames -> Seq(AnyBar)]]
  <2>1. ring \in [Symbols -> [Frames -> Seq(AnyBar)]]
    BY DEF TypeOK
  <2>2. \A tf \in Frames : Capped(ring[s][tf] \o Finished(tf, bars[s][tf], t)) \in Seq(AnyBar)
    <3> TAKE tf \in Frames
    <3>1. ring[s][tf] \in Seq(AnyBar) /\ Finished(tf, bars[s][tf], t) \in Seq(AnyBar)
      BY <2>1, <1>8, OneOrNone
    <3>2. ring[s][tf] \o Finished(tf, bars[s][tf], t) \in Seq(AnyBar)
      BY <3>1, ConcatProperties
    <3> QED
      BY <3>2, CappedIs
  <2> QED
    BY <1>2, <2>1, <2>2
<1>11. Day(t) \in Nat
  BY <1>1, DayIs
<1>12. counted' \in [Symbols -> SUBSET Nat]
  BY <1>2, <1>6 DEF TypeOK
<1> QED
  BY <1>2, <1>5, <1>9, <1>10, <1>11, <1>12 DEF TypeOK, AtMostOne, market, seeding

LEMMA TypeStep ==
  ASSUME TypeOK, SeedInv, [Next]_vars
  PROVE  TypeOK'
<1>1. CASE Elapse
  <2>1. now' = now + 1 /\ UNCHANGED <<trades, seeding, store, history>>
    BY <1>1 DEF Elapse
  <2>2. now' \in Nat /\ SUBSET (0 .. now) \subseteq SUBSET (0 .. now')
    BY <2>1 DEF TypeOK
  <2>3. trades' \in [Symbols -> SUBSET (0 .. now')]
    BY <2>1, <2>2 DEF TypeOK
  <2> QED
    BY <2>1, <2>2, <2>3 DEF TypeOK, seeding, store, history
<1>2. CASE \E s \in Symbols : Trade(s)
  <2>1. PICK s \in Symbols : Trade(s)
    BY <1>2
  <2>2. trades' = [trades EXCEPT ![s] = @ \cup {now}] /\ UNCHANGED <<now, seeding, store, history>>
    BY <2>1 DEF Trade
  <2>3. trades' \in [Symbols -> SUBSET (0 .. now')]
    BY <2>2 DEF TypeOK
  <2> QED
    BY <2>2, <2>3 DEF TypeOK, seeding, store, history
<1>3. CASE Start \/ RefreshDaily
  BY <1>3 DEF Start, RefreshDaily, BeginSeed, TypeOK, market, store, history
<1>4. CASE SeedDone
  BY <1>4 DEF SeedDone, TypeOK, market, history
<1>5. CASE \E s \in Symbols : SeedMissed(s)
  BY <1>5 DEF SeedMissed, TypeOK, market, store, history
<1>6. CASE \E s \in Symbols : \E fetched \in BOOLEAN : SeedOne(s, fetched)
  <2>1. PICK s \in Symbols, fetched \in BOOLEAN : SeedOne(s, fetched)
    BY <1>6
  <2>2. seedNow # NoSeed
    BY <2>1 DEF SeedOne, SeedInv
  <2> QED
    BY <2>1, <2>2, SeedOneTyped
<1>7. CASE \E s \in Symbols : Tick(s)
  BY <1>7, TickTyped
<1>8. CASE UNCHANGED vars
  BY <1>8 DEF vars, market, seeding, store, history, TypeOK
<1> QED
  BY <1>1, <1>2, <1>3, <1>4, <1>5, <1>6, <1>7, <1>8 DEF Next, Seeding

-----------------------------------------------------------------------------
(* Seeds and the day state. *)

LEMMA SeedStep ==
  ASSUME TypeOK, SeedInv, [Next]_vars
  PROVE  SeedInv'
<1>1. now \in Nat /\ seedNow \in Nat \cup {NoSeed} /\ seededAt \in [Symbols -> Nat \cup {NoSeed}]
  BY DEF TypeOK
<1>2. CASE Elapse
  <2>1. /\ now' = now + 1 /\ UNCHANGED <<live, pending, seedNow, seededAt>>
        /\ seedNow # NoSeed => now = seedNow /\ Day(now + 1) = Day(seedNow)
    BY <1>2 DEF Elapse, seeding, history
  <2>2. \A s \in Symbols : seededAt[s] \in Int /\ seededAt[s] <= now
    BY <1>1 DEF SeedInv, NoSeed
  <2>3. \A s \in Symbols : seededAt[s] <= now'
    BY <1>1, <2>1, <2>2
  <2> QED
    BY <1>1, <2>1, <2>3 DEF SeedInv
<1>3. CASE \E s \in Symbols : Trade(s)
  BY <1>3 DEF Trade, SeedInv, seeding, history
<1>4. CASE Start \/ RefreshDaily
  <2>1. /\ seedNow = NoSeed /\ seedNow' = now
        /\ live' => TimeOfDay(now) = 0
        /\ UNCHANGED <<market, store, history>>
    BY <1>4 DEF Start, RefreshDaily, BeginSeed
  <2>2. now' = now /\ seededAt' = seededAt
    BY <2>1 DEF market, history
  <2> QED
    BY <1>1, <2>1, <2>2 DEF SeedInv, NoSeed
<1>5. CASE SeedDone
  BY <1>5 DEF SeedDone, SeedInv, market, history
<1>6. CASE \E s \in Symbols : SeedMissed(s)
  BY <1>6 DEF SeedMissed, SeedInv, market, history
<1>7. CASE \E s \in Symbols : \E fetched \in BOOLEAN : SeedOne(s, fetched)
  <2>1. PICK s \in Symbols, fetched \in BOOLEAN : SeedOne(s, fetched)
    BY <1>7
  <2>2. /\ s \in pending /\ pending' = pending \ {s}
        /\ seededAt' = [seededAt EXCEPT ![s] = seedNow]
        /\ now' = now /\ live' = live /\ seedNow' = seedNow
    BY <2>1 DEF SeedOne, market
  <2> QED
    BY <1>1, <2>2 DEF SeedInv
<1>8. CASE \E s \in Symbols : Tick(s)
  BY <1>8 DEF Tick, SeedInv, market, seeding
<1>9. CASE UNCHANGED vars
  BY <1>9 DEF vars, market, seeding, history, SeedInv
<1> QED
  BY <1>2, <1>3, <1>4, <1>5, <1>6, <1>7, <1>8, <1>9 DEF Next, Seeding

\* The part of DayStateIsToday that concerns one instrument.
OfDay(d, today) ==
  /\ \A t \in d.open \cup d.span \cup d.range : Day(t) = today
  /\ \A t \in d.range : InOpeningRange(t)
  /\ d.locked => now >= today * DayLen + OREnd

LEMMA DayStateIs == DayStateIsToday <=> \A s \in Symbols \ carried : OfDay(day[s], stateDate)
BY DEF DayStateIsToday, OfDay, OpeningRangeFinal

LEMMA FreshOfDay == ASSUME NEW today PROVE OfDay(Fresh, today)
BY DEF OfDay, Fresh

\* When the opening range is over by the clock.
LEMMA RangeOver ==
  ASSUME NEW t \in Nat, now \in Nat, t <= now, TimeOfDay(t) >= OREnd
  PROVE  now >= Day(t) * DayLen + OREnd
<1> DEFINE d == DayLen * Day(t)
           x == TimeOfDay(t)
<1>1. d \in Nat /\ x \in Nat /\ t = d + x /\ OREnd \in Nat /\ x >= OREnd
  BY DayIs, StoreAssumption
<1>2. d = Day(t) * DayLen
  <2>1. Day(t) \in Nat /\ DayLen \in Nat
    BY DayIs, StoreAssumption
  <2> DEFINE a == Day(t)
  <2> HIDE DEF a
  <2>2. DayLen * a = a * DayLen
    BY <2>1 DEF a
  <2> QED
    BY <2>2 DEF a
<1> HIDE DEF d, x
<1> QED
  BY <1>1, <1>2

LEMMA TickOfDay ==
  ASSUME TypeOK, NEW old \in AnyDay, NEW t \in Nat, t <= now, OfDay(old, Day(t))
  PROVE  OfDay(TickDay(old, t), Day(t))
<1>1. now \in Nat
  BY DEF TypeOK
<1>2. TimeOfDay(t) >= OREnd => now >= Day(t) * DayLen + OREnd
  BY <1>1, RangeOver
<1> HIDE DEF Day, TimeOfDay
<1> QED
  BY <1>2 DEF OfDay, TickDay, InOpeningRange

LEMMA SeedOfDay ==
  ASSUME TypeOK, NEW old \in AnyDay, seedNow \in Nat, seedNow <= now,
         OfDay(old, Day(seedNow)),
         NEW todays \in SUBSET Nat, todays # {}, \A t \in todays : Day(t) = Day(seedNow)
  PROVE  OfDay(SeedDay(old, todays), Day(seedNow))
<1>1. now \in Nat
  BY DEF TypeOK
<1>2. TimeOfDay(seedNow) >= OREnd => now >= Day(seedNow) * DayLen + OREnd
  BY <1>1, RangeOver
<1>3. Min(todays) \in todays
  BY Least
<1> HIDE DEF Day, TimeOfDay
<1> QED
  BY <1>2, <1>3 DEF OfDay, SeedDay

\* The first trade of a day.
OpenIsFirst(d, S, today) == d.open = {Min({t \in S : Day(t) = today})} /\ \E t \in S : Day(t) = today

LEMMA OpenIs ==
  /\ DayOpenIsFirst <=> \A s \in restored : day[s].open = {Min({t \in trades[s] : Day(t) = stateDate})}
  /\ (DayOpenIsFirst /\ \A s \in restored : \E t \in trades[s] : Day(t) = stateDate)
       <=> \A s \in restored : OpenIsFirst(day[s], trades[s], stateDate)
BY DEF DayOpenIsFirst, OpenIsFirst

LEMMA DayInvIs ==
  DayInv <=> /\ \A s \in Symbols \ carried : OfDay(day[s], stateDate)
             /\ \A s \in restored : OpenIsFirst(day[s], trades[s], stateDate)
             /\ stateDate = NoDate =>
                  carried = {} /\ restored = {} /\ \A s \in Symbols : day[s] = Fresh
BY DayStateIs, OpenIs DEF DayInv

\* A set of times with all that are earlier has the first of the whole.
LEMMA FirstStays ==
  ASSUME NEW S, NEW T, T \subseteq Nat, S \subseteq T, S # {},
         \A u \in T \ S : \A v \in S : v <= u
  PROVE  Min(S) = Min(T)
<1>1. Min(S) \in S /\ \A j \in S : Min(S) <= j
  BY Least
<1>2. Min(T) \in T /\ \A j \in T : Min(T) <= j
  BY Least
<1>3. Min(S) <= Min(T)
  BY <1>1, <1>2
<1> DEFINE a == Min(S)
           b == Min(T)
<1> HIDE DEF a, b
<1>4. a \in Nat /\ b \in Nat /\ a <= b /\ b <= a
  BY <1>1, <1>2, <1>3 DEF a, b
<1> QED
  BY <1>4 DEF a, b

LEMMA DaySeedOne ==
  ASSUME TypeOK, SeedInv, DayInv, NEW s \in Symbols, NEW fetched \in BOOLEAN, SeedOne(s, fetched)
  PROVE  DayInv'
<1>1. /\ seedNow \in Nat /\ seedNow <= now /\ trades[s] \subseteq Nat
      /\ carried \subseteq Symbols /\ restored \subseteq Symbols
      /\ day \in [Symbols -> AnyDay] /\ stateDate \in Nat \cup {NoDate}
  BY DEF TypeOK, SeedInv, SeedOne
<1>2. now' = now /\ trades' = trades
  BY DEF SeedOne, market
<1>3. PICK shot \in {{t \in trades[s] : t <= seedNow}, {t \in trades[s] : t < Bucket("5m", seedNow)}} :
        SeedIntradayState(s, {t \in shot : Day(t) = Day(seedNow)})
  BY DEF SeedOne
<1> DEFINE todays == {t \in shot : Day(t) = Day(seedNow)}
           today == Day(seedNow)
           T == {t \in trades[s] : Day(t) = today}
<1>4. CASE todays = {}
  <2>1. UNCHANGED <<day, stateDate, carried, restored>>
    BY <1>3, <1>4 DEF SeedIntradayState
  <2> QED
    BY <1>2, <2>1 DEF DayInv, DayStateIsToday, OpeningRangeFinal, DayOpenIsFirst
<1>5. CASE todays # {}
  <2>1. /\ stateDate' = today
        /\ day' = [day EXCEPT ![s] = SeedDay(@, todays)]
        /\ carried' = carried \cup
              IF stateDate \in {NoDate, today} THEN {} ELSE {x \in Symbols : day[x] # Fresh}
        /\ restored' = {s} \cup IF stateDate = today THEN restored ELSE {}
    <3> HIDE DEF todays
    <3>1. SeedIntradayState(s, todays)
      BY <1>3 DEF todays
    <3> QED
      BY <1>5, <3>1 DEF SeedIntradayState
  <2>2. todays \subseteq T /\ T \subseteq Nat
    BY <1>1, <1>3
  <2>3. \A u \in T \ todays : \A v \in todays : v <= u
    <3> TAKE u \in T \ todays
    <3> TAKE v \in todays
    <3>1. u \in Nat /\ v \in Nat /\ Bucket("5m", seedNow) \in Nat
      <4>1. "5m" \in Frames
        BY DEF Frames
      <4> QED
        BY <4>1, <1>1, <2>2, BucketIs
    <3>2. v \in shot /\ u \in trades[s] /\ ~ (u \in shot)
      OBVIOUS
    <3> HIDE DEF todays, T, today
    <3> QED
      BY <1>1, <1>3, <3>1, <3>2
  <2>4. Min(todays) = Min(T) /\ T # {}
    <3> HIDE DEF todays, T
    <3> QED
      BY <1>5, <2>2, <2>3, FirstStays
  <2>5. todays \in SUBSET Nat /\ \A t \in todays : Day(t) = today
    BY <2>2
  <2> HIDE DEF todays
  <2>6. \A x \in Symbols \ carried' : OfDay(day[x], today)
    <3> TAKE x \in Symbols \ carried'
    <3>1. x \in Symbols \ carried
      BY <2>1
    <3>2. OfDay(day[x], stateDate)
      BY <3>1, DayInvIs
    <3>3. CASE stateDate = today
      BY <3>2, <3>3
    <3>4. CASE stateDate = NoDate
      <4>1. day[x] = Fresh
        BY <3>4, DayInvIs
      <4> QED
        BY <4>1, FreshOfDay
    <3>5. CASE ~ (stateDate \in {NoDate, today})
      <4>1. day[x] = Fresh
        BY <2>1, <3>5
      <4> QED
        BY <4>1, FreshOfDay
    <3> QED
      BY <3>3, <3>4, <3>5
  <2>7. \A x \in Symbols \ carried' : OfDay(day'[x], today)
    <3> TAKE x \in Symbols \ carried'
    <3>1. CASE x # s
      BY <1>1, <2>1, <2>6, <3>1
    <3>2. CASE x = s
      <4>1. OfDay(SeedDay(day[s], todays), today)
        BY <1>1, <1>5, <2>5, <2>6, <3>2, SeedOfDay
      <4> QED
        BY <1>1, <2>1, <3>2, <4>1
    <3> QED
      BY <3>1, <3>2
  <2>8. \A x \in restored' : OpenIsFirst(day'[x], trades'[x], today)
    <3> TAKE x \in restored'
    <3>1. CASE x = s
      <4>1. day'[s].open = {Min(todays)}
        BY <1>1, <2>1 DEF SeedDay
      <4>2. \E t \in trades[s] : Day(t) = today
        BY <2>4
      <4> QED
        BY <1>2, <2>4, <3>1, <4>1, <4>2 DEF OpenIsFirst
    <3>2. CASE x # s
      <4>1. x \in restored /\ stateDate = today /\ day'[x] = day[x]
        BY <1>1, <2>1, <3>2
      <4>2. OpenIsFirst(day[x], trades[x], stateDate)
        BY <4>1, DayInvIs
      <4> QED
        BY <1>2, <4>1, <4>2
    <3> QED
      BY <3>1, <3>2
  <2>9. stateDate' # NoDate
    BY <1>1, <2>1, DayIs DEF NoDate
  <2>10. \A x \in Symbols \ carried' :
           /\ \A t \in day'[x].open \cup day'[x].span \cup day'[x].range : Day(t) = stateDate'
           /\ \A t \in day'[x].range : InOpeningRange(t)
           /\ day'[x].locked => now' >= stateDate' * DayLen + OREnd
    BY <1>2, <2>1, <2>7 DEF OfDay
  <2>11. \A x \in restored' :
           /\ day'[x].open = {Min({t \in trades'[x] : Day(t) = stateDate'})}
           /\ \E t \in trades'[x] : Day(t) = stateDate'
    BY <2>1, <2>8 DEF OpenIsFirst
  <2> QED
    BY <2>9, <2>10, <2>11 DEF DayInv, DayStateIsToday, OpeningRangeFinal, DayOpenIsFirst
<1> QED
  BY <1>4, <1>5

LEMMA DayTick ==
  ASSUME TypeOK, DayInv, NEW s \in Symbols, Tick(s)
  PROVE  DayInv'
<1> DEFINE t == Max(trades[s])
           base == AfterReset(t)
<1>1. t \in Nat /\ t <= now
  BY LastTrade DEF Tick
<1> HIDE DEF t
<1>2. /\ stateDate' = Day(t)
      /\ day' = [base EXCEPT ![s] = TickDay(@, t)]
      /\ carried' = IF NewDay(t) THEN {} ELSE carried
      /\ restored' = IF NewDay(t) THEN {} ELSE restored
      /\ now' = now /\ trades' = trades
  BY DEF Tick, t, market
<1>3. /\ carried \subseteq Symbols /\ restored \subseteq Symbols
      /\ day \in [Symbols -> AnyDay] /\ stateDate \in Nat \cup {NoDate}
      /\ base \in [Symbols -> AnyDay]
  BY DEF TypeOK, AfterReset, AnyDay, Fresh
<1>4. \A x \in Symbols \ carried' : OfDay(base[x], Day(t))
  <2> TAKE x \in Symbols \ carried'
  <2>1. CASE NewDay(t)
    <3>1. base[x] = Fresh
      BY <2>1 DEF AfterReset
    <3> QED
      BY <3>1, FreshOfDay
  <2>2. CASE ~ NewDay(t)
    <3>1. base = day /\ x \in Symbols \ carried /\ stateDate \in {NoDate, Day(t)}
      BY <1>2, <2>2 DEF AfterReset, NewDay
    <3>2. stateDate = NoDate => day[x] = Fresh
      BY DayInvIs
    <3>3. OfDay(day[x], stateDate)
      BY <3>1, DayInvIs
    <3> QED
      BY <3>1, <3>2, <3>3, FreshOfDay
  <2> QED
    BY <2>1, <2>2
<1>5. \A x \in Symbols \ carried' : OfDay(day'[x], Day(t))
  <2> TAKE x \in Symbols \ carried'
  <2>1. CASE x # s
    BY <1>2, <1>3, <1>4, <2>1
  <2>2. CASE x = s
    <3>1. base[s] \in AnyDay /\ OfDay(base[s], Day(t))
      BY <1>3, <1>4, <2>2
    <3>2. OfDay(TickDay(base[s], t), Day(t))
      BY <1>1, <3>1, TickOfDay
    <3> QED
      BY <1>2, <1>3, <2>2, <3>2
  <2> QED
    BY <2>1, <2>2
<1>6. \A x \in restored' : OpenIsFirst(day'[x], trades'[x], Day(t))
  <2> TAKE x \in restored'
  <2>1. ~ NewDay(t) /\ x \in restored /\ base = day
    BY <1>2 DEF AfterReset
  <2>2. stateDate = Day(t)
    BY <2>1, DayInvIs DEF NewDay
  <2>3. OpenIsFirst(day[x], trades[x], Day(t))
    BY <2>1, <2>2, DayInvIs
  <2>4. day'[x].open = day[x].open
    <3>1. CASE x # s
      BY <1>2, <1>3, <2>1, <3>1
    <3>2. CASE x = s
      <4>1. day[s].open # {}
        BY <2>3, <3>2 DEF OpenIsFirst
      <4>2. TickDay(day[s], t).open = day[s].open
        BY <4>1 DEF TickDay
      <4> QED
        BY <1>2, <1>3, <2>1, <3>2, <4>2
    <3> QED
      BY <3>1, <3>2
  <2> QED
    BY <1>2, <2>3, <2>4 DEF OpenIsFirst
<1>7. stateDate' # NoDate
  BY <1>1, <1>2, DayIs DEF NoDate
<1>8. \A x \in Symbols \ carried' :
        /\ \A u \in day'[x].open \cup day'[x].span \cup day'[x].range : Day(u) = stateDate'
        /\ \A u \in day'[x].range : InOpeningRange(u)
        /\ day'[x].locked => now' >= stateDate' * DayLen + OREnd
  BY <1>2, <1>5 DEF OfDay
<1>9. \A x \in restored' :
        /\ day'[x].open = {Min({u \in trades'[x] : Day(u) = stateDate'})}
        /\ \E u \in trades'[x] : Day(u) = stateDate'
  BY <1>2, <1>6 DEF OpenIsFirst
<1> QED
  BY <1>7, <1>8, <1>9 DEF DayInv, DayStateIsToday, OpeningRangeFinal, DayOpenIsFirst

LEMMA DayStep ==
  ASSUME TypeOK, SeedInv, DayInv, [Next]_vars
  PROVE  DayInv'
<1>1. now \in Nat /\ trades \in [Symbols -> SUBSET (0 .. now)] /\ restored \subseteq Symbols
      /\ stateDate \in Nat \cup {NoDate}
  BY DEF TypeOK
<1>2. CASE Elapse
  <2>1. now' = now + 1 /\ UNCHANGED <<trades, day, stateDate, carried, restored>>
    BY <1>2 DEF Elapse, store, history
  <2>2. now >= stateDate * DayLen + OREnd => now' >= stateDate * DayLen + OREnd
    <3> DEFINE open == stateDate * DayLen + OREnd
    <3>1. open \in Int
      BY <1>1, StoreAssumption DEF NoDate
    <3> HIDE DEF open
    <3>2. now >= open => now' >= open
      BY <1>1, <2>1, <3>1
    <3> QED
      BY <3>2 DEF open
  <2> QED
    BY <2>1, <2>2 DEF DayInv, DayStateIsToday, OpeningRangeFinal, DayOpenIsFirst
<1>3. CASE \E s \in Symbols : Trade(s)
  <2>1. PICK s \in Symbols : Trade(s)
    BY <1>3
  <2>2. /\ trades' = [trades EXCEPT ![s] = @ \cup {now}]
        /\ UNCHANGED <<now, day, stateDate, carried, restored>>
    BY <2>1 DEF Trade, store, history
  <2>3. \A x \in restored : OpenIsFirst(day[x], trades'[x], stateDate)
    <3> TAKE x \in restored
    <3>1. OpenIsFirst(day[x], trades[x], stateDate)
      BY DayInvIs
    <3>2. CASE x # s
      BY <1>1, <2>2, <3>1, <3>2
    <3>3. CASE x = s
      <4> DEFINE S == {t \in trades[s] : Day(t) = stateDate}
                 T == {t \in trades'[s] : Day(t) = stateDate}
      <4>1. trades'[s] = trades[s] \cup {now} /\ trades[s] \subseteq 0 .. now
        BY <1>1, <2>2
      <4>2. S # {} /\ S \subseteq T /\ T \subseteq S \cup {now} /\ S \subseteq 0 .. now
        BY <3>1, <3>3, <4>1 DEF OpenIsFirst
      <4>3. Min(S) = Min(T)
        <5> HIDE DEF S, T
        <5>1. T \subseteq Nat /\ \A u \in T \ S : \A v \in S : v <= u
          BY <1>1, <4>2
        <5> QED
          BY <4>2, <5>1, FirstStays
      <4> QED
        BY <3>1, <3>3, <4>2, <4>3 DEF OpenIsFirst
    <3> QED
      BY <3>2, <3>3
  <2>4. \A x \in restored' :
          /\ day'[x].open = {Min({t \in trades'[x] : Day(t) = stateDate'})}
          /\ \E t \in trades'[x] : Day(t) = stateDate'
    BY <2>2, <2>3 DEF OpenIsFirst
  <2> QED
    BY <2>2, <2>4 DEF DayInv, DayStateIsToday, OpeningRangeFinal, DayOpenIsFirst
<1>4. CASE \E s \in Symbols : \E fetched \in BOOLEAN : SeedOne(s, fetched)
  BY <1>4, DaySeedOne
<1>5. CASE \E s \in Symbols : Tick(s)
  BY <1>5, DayTick
<1>6. ASSUME UNCHANGED <<now, trades, day, stateDate, carried, restored>> PROVE DayInv'
  BY <1>6 DEF DayInv, DayStateIsToday, OpeningRangeFinal, DayOpenIsFirst
<1>7. CASE Start \/ RefreshDaily \/ SeedDone \/ UNCHANGED vars \/ \E s \in Symbols : SeedMissed(s)
  <2>1. UNCHANGED <<now, trades, day, stateDate, carried, restored>>
    BY <1>7 DEF Start, RefreshDaily, BeginSeed, SeedDone, SeedMissed, vars, market, store, history
  <2> QED
    BY <1>6, <2>1
<1> QED
  BY <1>2, <1>3, <1>4, <1>5, <1>7 DEF Next, Seeding

-----------------------------------------------------------------------------
(* Bars and volumes. *)

\* What can happen to the bars of an instrument that neither ticks nor is seeded:
\* it trades, the day ends, the baselines go, the socket closes.
LEMMA LeftAlone ==
  ASSUME NEW x \in Symbols, SymbolInv(x),
         trades[x] \subseteq trades'[x],
         \A u \in trades'[x] \ trades[x] : \A m \in counted[x] : ~ (u <= m),
         ring'[x] = ring[x], seededAt'[x] = seededAt[x],
         \A tf \in Frames : building'[x][tf] \in {building[x][tf], <<>>},
         counted'[x] \in {counted[x], {}},
         live' => live \/ counted'[x] = {}
  PROVE  SymbolInv(x)'
<1>1. CountedInv(x)'
  BY DEF SymbolInv, CountedInv
<1>2. ASSUME NEW tf \in Frames
      PROVE  RingInv(x, tf)' /\ BuildingInv(x, tf)' /\ VolumeInv(x, tf)'
  <2>1. Range(building'[x][tf]) \subseteq Range(building[x][tf])
    BY NoBar
  <2>2. RingInv(x, tf) /\ BuildingInv(x, tf) /\ VolumeInv(x, tf)
    BY DEF SymbolInv
  <2>3. \A ts : SeededBefore(x, tf, ts)' <=> SeededBefore(x, tf, ts)
    BY DEF SeededBefore
  <2>4. RingInv(x, tf)'
    BY <2>1, <2>2, <2>3 DEF RingInv
  <2>5. BuildingInv(x, tf)'
    BY <2>1, <2>2, <2>3 DEF BuildingInv
  <2>6. \A u : Accounted(x, tf, u) => Accounted(x, tf, u)'
    BY DEF Accounted
  <2>7. VolumeInv(x, tf)'
    BY <2>1, <2>2, <2>6 DEF VolumeInv
  <2> QED
    BY <2>4, <2>5, <2>7
<1> QED
  BY <1>1, <1>2 DEF SymbolInv

\* The instrument that is seeded.
LEMMA RingSeeded ==
  ASSUME TypeOK, SeedInv, BarsInv, NEW s \in Symbols, NEW fetched \in BOOLEAN, SeedOne(s, fetched)
  PROVE  SymbolInv(s)'
<1>1. /\ seedNow \in Nat /\ seedNow <= now /\ seedNow # NoSeed
      /\ trades[s] \subseteq Nat
      /\ seededAt[s] \in Nat \cup {NoSeed}
      /\ seededAt[s] <= seedNow
      /\ live => TimeOfDay(seedNow) = 0
  BY DEF TypeOK, SeedInv, SeedOne, NoSeed
<1>2. /\ trades'[s] = trades[s] /\ counted'[s] = counted[s] /\ live' = live
      /\ ring'[s] = SeedBars(s, fetched) /\ building'[s] = Kept(s) /\ seededAt'[s] = seedNow
  BY DEF SeedOne, TypeOK, market
<1>3. CountedInv(s)'
  BY <1>2 DEF BarsInv, SymbolInv, CountedInv
<1>4. ASSUME NEW tf \in Frames, NEW c \in Range(building'[s][tf])
      PROVE  \E b \in AnyBar : /\ b \in Range(building[s][tf])
                               /\ c.ts = b.ts /\ c.vol = b.vol
                               /\ c.odd = (b.odd \/ (tf \in Seeded /\ Overtaken(tf, b)))
  <2>1. building[s][tf] \in AtMostOne
    BY DEF TypeOK, AtMostOne
  <2>2. building[s][tf] # <<>>
    BY <1>2, <1>4, KeptIs, NoBar
  <2>3. PICK b \in AnyBar : building[s][tf] = <<b>>
    BY <2>1, <2>2 DEF AtMostOne
  <2>4. building'[s][tf] = <<Late(tf, b)>>
    BY <1>2, <2>3, KeptIs
  <2>5. Late(tf, b) \in AnyBar
    BY DEF Late, AnyBar
  <2>6. c = Late(tf, b) /\ b \in Range(building[s][tf])
    BY <1>4, <2>3, <2>4, <2>5, OneBar
  <2>7. /\ Late(tf, b).ts = b.ts /\ Late(tf, b).vol = b.vol
        /\ Late(tf, b).odd = (b.odd \/ (tf \in Seeded /\ Overtaken(tf, b)))
    BY DEF Late, AnyBar
  <2> QED
    BY <2>6, <2>7
<1>5. ASSUME NEW tf \in Frames, ~ (tf \in Seeded)
      PROVE  RingInv(s, tf)' /\ BuildingInv(s, tf)' /\ VolumeInv(s, tf)'
  <2>1. tf = "1m" /\ ring'[s][tf] = ring[s][tf]
    BY <1>1, <1>2, <1>5, SeedsAre DEF Seeded, Frames
  <2>2. \A c \in Range(building'[s][tf]) : \E b \in Range(building[s][tf]) :
          c.ts = b.ts /\ c.vol = b.vol /\ c.odd = b.odd
    <3> TAKE c \in Range(building'[s][tf])
    <3>1. PICK b \in AnyBar : /\ b \in Range(building[s][tf])
                              /\ c.ts = b.ts /\ c.vol = b.vol
                              /\ c.odd = (b.odd \/ (tf \in Seeded /\ Overtaken(tf, b)))
      BY <1>4
    <3>2. b.odd \in BOOLEAN
      BY DEF AnyBar
    <3>3. c.odd = b.odd
      BY <1>5, <3>1, <3>2
    <3> QED
      BY <3>1, <3>3
  <2>3. RingInv(s, tf) /\ BuildingInv(s, tf) /\ VolumeInv(s, tf)
    BY DEF BarsInv, SymbolInv
  <2>4. \A ts : ~ SeededBefore(s, tf, ts) /\ ~ SeededBefore(s, tf, ts)'
    BY <1>5 DEF SeededBefore
  <2>5. \A u : Accounted(s, tf, u) => Accounted(s, tf, u)'
    BY <1>2, <1>5 DEF Accounted
  <2>6. RingInv(s, tf)'
    BY <1>2, <2>1, <2>2, <2>3, <2>4 DEF RingInv, Fits
  <2>7. BuildingInv(s, tf)'
    BY <1>2, <2>2, <2>3, <2>4 DEF BuildingInv
  <2>8. VolumeInv(s, tf)'
    BY <1>2, <2>1, <2>2, <2>3, <2>5 DEF VolumeInv
  <2> QED
    BY <2>6, <2>7, <2>8
<1>6. ASSUME NEW tf \in Frames, tf \in Seeded
      PROVE  RingInv(s, tf)' /\ BuildingInv(s, tf)' /\ VolumeInv(s, tf)'
  <2> DEFINE edge == Bucket(tf, seedNow)
             new == ring'[s][tf]
  <2>1. FromSeed(tf, s, new)
    BY <1>1, <1>2, <1>6, SeedsAre
  <2>2. edge \in Nat /\ edge <= seedNow /\ (live => edge = seedNow)
    BY <1>1, BucketIs
  <2>3. \A ts : SeededBefore(s, tf, ts)' <=> ts < edge
    BY <1>1, <1>2, <1>6 DEF SeededBefore
  <2>4. \A i \in DOMAIN new : new[i] \in AnyBar
    BY <2>1, ElementOfSeq, LenProperties DEF FromSeed
  <2>5. \A u \in trades[s] : Bucket(tf, u) \in Nat /\ Bucket(tf, u) <= u /\ u \in Nat
    BY <1>1, BucketIs
  <2> HIDE DEF edge, new
  \* A bar being built that is not odd is of the seed's bucket or a later one.
  <2>6. \A c \in Range(building'[s][tf]) : ~c.odd =>
          /\ edge <= c.ts /\ c.ts \in Nat
          /\ \A u \in c.vol : c.ts <= Bucket(tf, u)
          /\ \E b \in Range(building[s][tf]) : ~b.odd /\ b.vol = c.vol
    <3> TAKE c \in Range(building'[s][tf])
    <3>1. PICK b \in AnyBar : /\ b \in Range(building[s][tf])
                              /\ c.ts = b.ts /\ c.vol = b.vol
                              /\ c.odd = (b.odd \/ (tf \in Seeded /\ Overtaken(tf, b)))
      BY <1>4
    <3> SUFFICES ASSUME ~c.odd
                 PROVE  /\ edge <= c.ts /\ c.ts \in Nat
                        /\ \A u \in c.vol : c.ts <= Bucket(tf, u)
                        /\ \E d \in Range(building[s][tf]) : ~d.odd /\ d.vol = c.vol
      OBVIOUS
    <3>2. b.ts \in Nat /\ b.vol \subseteq Nat
      BY DEF AnyBar
    <3>3. ~b.odd /\ ~ Overtaken(tf, b)
      BY <1>6, <3>1
    <3>4. ~ (b.ts < edge) /\ \A u \in b.vol : ~ (Bucket(tf, u) < b.ts)
      BY <3>3 DEF Overtaken, edge
    <3>5. \A u \in b.vol : Bucket(tf, u) \in Nat
      BY <3>2, BucketIs
    <3> QED
      BY <2>2, <3>1, <3>2, <3>3, <3>4, <3>5
  <2>7. RingInv(s, tf)'
    <3> SUFFICES ASSUME NEW i \in DOMAIN new
                 PROVE  /\ \A j \in DOMAIN new : i < j => Fits(new[i], new[j])
                        /\ \A c \in Range(building'[s][tf]) : Fits(new[i], c)
                        /\ ~new[i].odd => new[i].ts < edge
      BY <2>3 DEF RingInv, new
    <3>1. \A j \in DOMAIN new : i < j => Fits(new[i], new[j])
      <4> SUFFICES ASSUME NEW j \in DOMAIN new, i < j, ~new[i].odd, ~new[j].odd
                   PROVE  new[i].ts < new[j].ts /\ new[i].vol \cap new[j].vol = {}
        BY DEF Fits
      <4>1. new[i].ts < new[j].ts /\ new[i].ts \in Nat /\ new[j].ts \in Nat
        BY <2>1, <2>4 DEF FromSeed, AnyBar
      <4>2. /\ \A u \in new[i].vol : Bucket(tf, u) = new[i].ts
            /\ \A u \in new[j].vol : Bucket(tf, u) = new[j].ts
        BY <2>1 DEF FromSeed
      <4> QED
        BY <4>1, <4>2
    <3>2. \A c \in Range(building'[s][tf]) : Fits(new[i], c)
      <4> SUFFICES ASSUME NEW c \in Range(building'[s][tf]), ~new[i].odd, ~c.odd
                   PROVE  new[i].ts < c.ts /\ new[i].vol \cap c.vol = {}
        BY DEF Fits
      <4>1. new[i].ts < edge /\ new[i].ts \in Nat
        BY <2>1, <2>4 DEF FromSeed, AnyBar, edge
      <4>2. edge <= c.ts /\ c.ts \in Nat /\ \A u \in c.vol : c.ts <= Bucket(tf, u)
        BY <2>6
      <4>3. \A u \in new[i].vol : Bucket(tf, u) = new[i].ts
        BY <2>1 DEF FromSeed
      <4>4. new[i].ts < c.ts
        BY <2>2, <4>1, <4>2
      <4>5. ASSUME NEW u \in new[i].vol \cap c.vol PROVE FALSE
        BY <4>1, <4>2, <4>3, <4>4
      <4> QED
        BY <4>4, <4>5
    <3>3. ~new[i].odd => new[i].ts < edge
      BY <2>1 DEF FromSeed, edge
    <3> QED
      BY <3>1, <3>2, <3>3
  <2>8. BuildingInv(s, tf)'
    <3> SUFFICES ASSUME NEW c \in Range(building'[s][tf])
                 PROVE  /\ \E t \in trades[s] : c.ts = Bucket(tf, t)
                        /\ SeededBefore(s, tf, c.ts)' => c.odd
      BY <1>2 DEF BuildingInv
    <3>1. PICK b \in AnyBar : /\ b \in Range(building[s][tf])
                              /\ c.ts = b.ts /\ c.vol = b.vol
                              /\ c.odd = (b.odd \/ (tf \in Seeded /\ Overtaken(tf, b)))
      BY <1>4
    <3>2. \E t \in trades[s] : c.ts = Bucket(tf, t)
      BY <3>1 DEF BarsInv, SymbolInv, BuildingInv
    <3>3. c.ts < edge => c.odd
      BY <1>6, <3>1 DEF Overtaken, edge
    <3> QED
      BY <2>3, <3>2, <3>3
  <2>9. VolumeInv(s, tf)'
    <3>1. ASSUME NEW c \in Range(new), ~c.odd
          PROVE  c.vol \subseteq trades[s] /\ \A u \in c.vol : Accounted(s, tf, u)'
      <4>1. PICK i \in DOMAIN new : c = new[i]
        BY <3>1 DEF Range
      <4>2. c.vol \subseteq {u \in trades[s] : Bucket(tf, u) = c.ts} /\ c.ts < edge /\ c.ts \in Nat
        BY <2>1, <2>4, <3>1, <4>1 DEF FromSeed, AnyBar, edge
      <4>3. ASSUME NEW u \in c.vol, live PROVE u < seedNow
        <5>1. u \in trades[s] /\ Bucket(tf, u) < edge /\ edge = seedNow
          BY <2>2, <4>2, <4>3
        <5>2. u \in Nat /\ Bucket(tf, u) \in Nat
          BY <2>5, <5>1
        <5>3. seedNow <= u => edge <= Bucket(tf, u)
          BY <1>1, <5>2, BucketsGoOn DEF edge
        <5> QED
          BY <1>1, <2>2, <5>1, <5>2, <5>3
      <4> QED
        BY <1>1, <1>2, <1>6, <4>2, <4>3 DEF Accounted
    <3>2. ASSUME NEW c \in Range(building'[s][tf]), ~c.odd
          PROVE  c.vol \subseteq trades[s] /\ \A u \in c.vol : Accounted(s, tf, u)'
      <4>1. PICK b \in Range(building[s][tf]) : ~b.odd /\ b.vol = c.vol
        BY <2>6, <3>2
      <4>2. b.vol \subseteq trades[s] /\ \A u \in b.vol : Accounted(s, tf, u)
        BY <4>1 DEF BarsInv, SymbolInv, VolumeInv
      <4>3. ASSUME NEW u \in c.vol PROVE Accounted(s, tf, u)'
        <5>1. Accounted(s, tf, u) /\ u \in Nat
          BY <1>1, <4>1, <4>2, <4>3
        <5>2. CASE /\ tf \in Seeded /\ seededAt[s] # NoSeed
                   /\ TimeOfDay(seededAt[s]) = 0 /\ u < seededAt[s]
          <6>1. u < seedNow
            BY <1>1, <5>1, <5>2
          <6> QED
            BY <1>1, <1>2, <1>6, <6>1 DEF Accounted
        <5>3. CASE ~ (/\ tf \in Seeded /\ seededAt[s] # NoSeed
                      /\ TimeOfDay(seededAt[s]) = 0 /\ u < seededAt[s])
          BY <1>2, <5>1, <5>3 DEF Accounted
        <5> QED
          BY <5>2, <5>3
      <4> QED
        BY <4>1, <4>2, <4>3
    <3> QED
      BY <1>2, <3>1, <3>2 DEF VolumeInv, new
  <2> QED
    BY <2>7, <2>8, <2>9
<1> QED
  BY <1>3, <1>5, <1>6 DEF SymbolInv

\* The volume that a tick adds is of trades that no bar counts yet, but for those
\* of a tick older than the seed.
LEMMA DeltaIsNew ==
  ASSUME TypeOK, live, NEW s \in Symbols, CountedInv(s), trades[s] # {},
         NEW tf \in Frames, NEW u \in trades[s], Accounted(s, tf, u),
         u \in Delta(s, Max(trades[s]))
  PROVE  SeededBefore(s, tf, Bucket(tf, Max(trades[s])))
<1> DEFINE t == Max(trades[s])
           start == seededAt[s]
<1>1. /\ t \in trades[s] /\ t \in Nat /\ trades[s] \subseteq Nat
      /\ \A v \in trades[s] : v <= t
  BY LastTrade
<1>2. start \in Nat \cup {NoSeed}
  BY DEF TypeOK
<1> HIDE DEF t, start
<1>3. counted[s] # {} /\ Day(u) = Day(t) /\ u <= t /\ ~ (u \in counted[s])
  BY DEF Delta, Reading, t
<1>4. ASSUME NEW m \in counted[s] PROVE ~ (u <= m)
  <2> SUFFICES ASSUME u <= m PROVE FALSE
    OBVIOUS
  <2>1. m \in trades[s] /\ m <= t /\ m \in Nat /\ u \in Nat
    BY <1>1 DEF CountedInv
  <2>2. Day(u) = Day(m)
    <3>1. Day(u) <= Day(m) /\ Day(m) <= Day(t) /\ Day(u) \in Nat /\ Day(m) \in Nat
      BY <1>1, <2>1, DaysGoOn, DayIs
    <3> QED
      BY <1>3, <3>1
  <2> QED
    BY <1>3, <2>2 DEF CountedInv
<1>5. /\ tf \in Seeded /\ start # NoSeed /\ start \in Nat
      /\ TimeOfDay(start) = 0 /\ u < start
  BY <1>2, <1>3, <1>4 DEF Accounted, start
<1>6. t < start
  <2> SUFFICES ASSUME ~ (t < start) PROVE FALSE
    OBVIOUS
  <2>1. u \in Nat /\ u <= start /\ start <= t
    BY <1>1, <1>5
  <2>2. Day(u) <= Day(start) /\ Day(start) <= Day(t) /\ Day(u) \in Nat /\ Day(start) \in Nat
    BY <1>1, <1>5, <2>1, DaysGoOn, DayIs
  <2>3. Day(start) = Day(u)
    BY <1>3, <2>2
  <2>4. start = DayLen * Day(u)
    <3>1. start = DayLen * Day(start) + TimeOfDay(start) /\ DayLen * Day(start) \in Nat
      BY <1>5, DayIs
    <3>2. start = DayLen * Day(start)
      BY <1>5, <3>1
    <3> QED
      BY <2>3, <3>2
  <2>5. u = DayLen * Day(u) + TimeOfDay(u) /\ TimeOfDay(u) \in Nat /\ DayLen * Day(u) \in Nat
    BY <2>1, DayIs
  <2> QED
    BY <1>5, <2>4, <2>5
<1>7. Bucket(tf, t) < Bucket(tf, start)
  <2>1. Bucket(tf, t) \in Nat /\ Bucket(tf, t) <= t /\ Bucket(tf, start) = start
    BY <1>1, <1>5, BucketIs
  <2> QED
    BY <1>1, <1>5, <1>6, <2>1
<1> QED
  BY <1>5, <1>7 DEF SeededBefore, t, start

LEMMA RangeOfBoth ==
  ASSUME NEW q \in Seq(AnyBar), NEW fin \in AtMostOne
  PROVE  /\ q \o fin \in Seq(AnyBar)
         /\ \A i \in DOMAIN (q \o fin) :
              \/ i \in DOMAIN q /\ (q \o fin)[i] = q[i]
              \/ i = Len(q) + 1 /\ (q \o fin)[i] \in Range(fin)
<1>1. fin \in Seq(AnyBar) /\ Len(q) \in Nat /\ DOMAIN q = 1 .. Len(q)
  BY OneOrNone, LenProperties
<1>2. /\ q \o fin \in Seq(AnyBar)
      /\ Len(q \o fin) = Len(q) + Len(fin)
      /\ \A i \in 1 .. Len(q) + Len(fin) :
           (q \o fin)[i] = IF i <= Len(q) THEN q[i] ELSE fin[i - Len(q)]
  BY <1>1, ConcatProperties
<1>3. DOMAIN (q \o fin) = 1 .. Len(q) + Len(fin)
  BY <1>2, LenProperties
<1>4. CASE fin = <<>>
  BY <1>1, <1>2, <1>3, <1>4, NoBar
<1>5. CASE fin # <<>>
  <2>1. PICK b \in AnyBar : fin = <<b>>
    BY <1>5 DEF AtMostOne
  <2>2. Len(fin) = 1 /\ fin[1] = b /\ Range(fin) = {b}
    BY <2>1, OneBar
  <2>3. \A i \in 1 .. Len(q) + 1 : i <= Len(q) \/ (i = Len(q) + 1 /\ i - Len(q) = 1)
    BY <1>1
  <2> QED
    BY <1>1, <1>2, <1>3, <2>2, <2>3
<1> QED
  BY <1>4, <1>5

LEMMA BarsTick ==
  ASSUME TypeOK, BarsInv, NEW s \in Symbols, Tick(s)
  PROVE  SymbolInv(s)'
<1> DEFINE t == Max(trades[s])
           bars == BuildingAfterReset(t)
           vol == Delta(s, t)
<1>1. /\ trades[s] # {} /\ live
      /\ t \in trades[s] /\ t \in Nat /\ trades[s] \subseteq Nat
      /\ \A v \in trades[s] : v <= t
  BY LastTrade DEF Tick
<1>2. seededAt[s] \in Nat \cup {NoSeed}
  BY DEF TypeOK
<1> HIDE DEF t
<1>3. bars \in [Symbols -> [Frames -> AtMostOne]]
      /\ \A tf \in Frames : bars[s][tf] \in {<<>>, building[s][tf]}
  BY DEF BuildingAfterReset, TypeOK, AtMostOne
<1> HIDE DEF bars
<1>4. /\ counted'[s] = Reading(s, t)
      /\ \A tf \in Frames :
           /\ ring'[s][tf] = Capped(ring[s][tf] \o Finished(tf, bars[s][tf], t))
           /\ building'[s][tf] = Grown(tf, bars[s][tf], t, vol, seededAt[s])
      /\ trades'[s] = trades[s] /\ seededAt'[s] = seededAt[s] /\ live' = live
  BY <1>3 DEF Tick, TypeOK, market, seeding, t, bars
<1>5. t \in Reading(s, t) /\ vol \subseteq Reading(s, t) /\ Reading(s, t) \subseteq trades[s]
  BY <1>1 DEF Reading, Delta
<1>6. CountedInv(s)'
  <2>1. ASSUME NEW m \in Reading(s, t), NEW u \in trades[s], Day(u) = Day(m), u <= m
        PROVE  u \in Reading(s, t)
    <3>1. m \in Nat /\ u \in Nat /\ m <= t /\ Day(m) = Day(t)
      BY <1>1, <2>1 DEF Reading
    <3>2. u <= t
      BY <1>1, <2>1, <3>1
    <3> QED
      BY <2>1, <3>1, <3>2 DEF Reading
  <2> QED
    BY <1>4, <1>5, <2>1 DEF CountedInv
<1>7. \A tf \in Frames, u \in trades[s] : Accounted(s, tf, u)'
  BY <1>1, <1>4, <1>5 DEF Accounted
<1>8. ASSUME NEW tf \in Frames
      PROVE  RingInv(s, tf)' /\ BuildingInv(s, tf)' /\ VolumeInv(s, tf)'
  <2> DEFINE old == bars[s][tf]
             fin == Finished(tf, old, t)
             cur == Grown(tf, old, t, vol, seededAt[s])
             q == ring[s][tf]
             both == q \o fin
             here == Bucket(tf, t)
  <2>1. RingInv(s, tf) /\ BuildingInv(s, tf) /\ VolumeInv(s, tf) /\ CountedInv(s)
    BY DEF BarsInv, SymbolInv
  <2>2. old \in AtMostOne /\ Range(old) \subseteq Range(building[s][tf])
    BY <1>3, NoBar
  <2>3. q \in Seq(AnyBar) /\ DOMAIN q = 1 .. Len(q) /\ Len(q) \in Nat
        /\ \A i \in DOMAIN q : q[i] \in AnyBar /\ q[i] \in Range(q)
    <3>1. q \in Seq(AnyBar)
      BY DEF TypeOK
    <3> QED
      BY <3>1, LenProperties, ElementOfSeq DEF Range
  <2>4. here \in Nat
    BY <1>1, BucketIs
  <2>5. \A v \in trades[s] : Bucket(tf, v) <= here /\ Bucket(tf, v) \in Nat
    BY <1>1, BucketsGoOn, BucketIs
  <2>6. fin \in AtMostOne /\ cur \in AtMostOne
    <3>1. vol \in SUBSET Nat
      BY <1>1, <1>5
    <3> HIDE DEF vol, old
    <3> QED
      BY <1>1, <1>2, <2>2, <3>1, GrownIs
  \* The volume is new to every bar there is, if the tick is not older than the seed.
  <2>7. ASSUME NEW r \in Range(q) \cup Range(old), ~r.odd, ~ SeededBefore(s, tf, here)
        PROVE  r.vol \cap vol = {}
    <3> SUFFICES ASSUME NEW u \in r.vol, u \in vol PROVE FALSE
      OBVIOUS
    <3>1. r \in Range(q) \cup Range(building[s][tf])
      BY <2>2, <2>7
    <3>2. u \in trades[s] /\ Accounted(s, tf, u)
      BY <2>1, <2>7, <3>1 DEF VolumeInv
    <3> QED
      BY <1>1, <2>1, <2>7, <3>2, DeltaIsNew DEF t
  \* The bar that is being built now: a new one, after the one before is finished,
  \* or that one with more volume.
  <2>8. \E c \in AnyBar :
          /\ cur = <<c>>
          /\ \/ /\ c.ts = here /\ c.vol = vol /\ (c.odd <=> SeededBefore(s, tf, here))
                /\ Range(fin) \subseteq Range(old) /\ \A b \in Range(fin) : b.ts < here
             \/ \E b \in Range(old) \cap AnyBar :
                  /\ c.ts = b.ts /\ c.vol = b.vol \cup vol /\ c.odd = b.odd
                  /\ fin = <<>>
    <3>1. old = <<>> \/ (old[1] \in AnyBar /\ old = <<old[1]>> /\ Range(old) = {old[1]})
      BY <2>2, OneBar DEF AtMostOne
    <3> DEFINE late == tf \in Seeded /\ seededAt[s] # NoSeed /\ here < Bucket(tf, seededAt[s])
    <3>2. late = SeededBefore(s, tf, here)
      BY DEF SeededBefore
    <3>3. vol \in SUBSET Nat /\ late \in BOOLEAN
      BY <1>1, <1>5
    <3>4. CASE old = <<>> \/ here > old[1].ts
      <4> DEFINE c == Bar(here, vol, late)
      <4>1. cur = <<c>>
        BY <3>4 DEF Grown
      <4>2. c \in AnyBar /\ c.ts = here /\ c.vol = vol /\ (c.odd <=> late)
        <5> HIDE DEF late, vol, here
        <5> QED
          BY <2>4, <3>3 DEF Bar, AnyBar
      <4>3. Range(fin) \subseteq Range(old) /\ \A b \in Range(fin) : b.ts < here
        <5>1. CASE old = <<>>
          <6>1. fin = <<>>
            BY <5>1 DEF Finished
          <6> QED
            BY <6>1, NoBar
        <5>2. CASE old # <<>>
          <6>1. fin = old /\ Range(old) = {old[1]} /\ here > old[1].ts /\ old[1].ts \in Nat
            BY <3>1, <3>4, <5>2 DEF Finished, AnyBar
          <6> QED
            BY <2>4, <6>1
        <5> QED
          BY <5>1, <5>2
      <4> HIDE DEF c, late
      <4> QED
        BY <3>2, <4>1, <4>2, <4>3
    <3>5. CASE ~ (old = <<>> \/ here > old[1].ts)
      <4> DEFINE b == old[1]
                 c == [b EXCEPT !.vol = @ \cup vol]
      <4>1. cur = <<c>> /\ fin = <<>>
        BY <3>5 DEF Grown, Finished
      <4>2. b \in AnyBar /\ b \in Range(old)
        BY <3>1, <3>5
      <4> HIDE DEF b
      <4>3. c \in AnyBar /\ c.ts = b.ts /\ c.vol = b.vol \cup vol /\ c.odd = b.odd
        BY <3>3, <4>2 DEF AnyBar
      <4> HIDE DEF c
      <4> QED
        BY <4>1, <4>2, <4>3
    <3> QED
      BY <3>4, <3>5
  <2>9. PICK c \in AnyBar :
          /\ cur = <<c>>
          /\ \/ /\ c.ts = here /\ c.vol = vol /\ (c.odd <=> SeededBefore(s, tf, here))
                /\ Range(fin) \subseteq Range(old) /\ \A b \in Range(fin) : b.ts < here
             \/ \E b \in Range(old) \cap AnyBar :
                  /\ c.ts = b.ts /\ c.vol = b.vol \cup vol /\ c.odd = b.odd
                  /\ fin = <<>>
    BY <2>8
  <2>10. Range(fin) \subseteq Range(old) /\ \A b \in Range(fin) : b.ts < here
    BY <2>9, NoBar
  <2> HIDE DEF old, fin, cur, q, here, vol
  <2>11. building'[s][tf] = <<c>> /\ Range(building'[s][tf]) = {c} /\ ring'[s][tf] = Capped(both)
    BY <1>4, <2>9, OneBar DEF old, fin, cur, q
  \* A bar that is not odd and not older than the tick's bucket is none of the ring's.
  <2>12. \A r \in Range(q) : ~r.odd => SeededBefore(s, tf, r.ts) \/ r.ts < here
    <3> TAKE r \in Range(q)
    <3>1. PICK i \in DOMAIN q : r = q[i]
      BY DEF Range
    <3>2. r.ts \in Nat
      BY <2>3, <3>1 DEF AnyBar
    <3>3. ~r.odd => SeededBefore(s, tf, r.ts) \/ \E v \in trades[s] : r.ts < Bucket(tf, v)
      BY <2>1, <3>1 DEF RingInv, q
    <3> QED
      BY <2>4, <2>5, <3>2, <3>3
  <2>13. \A r \in Range(q) \cup Range(fin) : Fits(r, c)
    <3> SUFFICES ASSUME NEW r \in Range(q) \cup Range(fin), ~r.odd, ~c.odd
                 PROVE  r.ts < c.ts /\ r.vol \cap c.vol = {}
      BY DEF Fits
    <3>1. CASE /\ c.ts = here /\ c.vol = vol /\ (c.odd <=> SeededBefore(s, tf, here))
      <4>1. ~ SeededBefore(s, tf, here)
        BY <3>1
      <4>2. r.vol \cap vol = {}
        BY <2>7, <2>10, <4>1
      <4>3. r.ts < here
        <5>1. CASE r \in Range(fin)
          BY <2>10, <5>1
        <5>2. CASE r \in Range(q) /\ SeededBefore(s, tf, r.ts)
          <6>1. r.ts \in Nat
            BY <2>3, <5>2 DEF Range, AnyBar
          <6>2. /\ tf \in Seeded /\ seededAt[s] # NoSeed /\ r.ts < Bucket(tf, seededAt[s])
                /\ ~ (here < Bucket(tf, seededAt[s]))
            BY <4>1, <5>2 DEF SeededBefore
          <6>3. Bucket(tf, seededAt[s]) \in Nat
            BY <1>2, <6>2, BucketIs
          <6> QED
            BY <2>4, <6>1, <6>2, <6>3
        <5> QED
          BY <2>12, <5>1, <5>2
      <4> QED
        BY <3>1, <4>2, <4>3
    <3>2. CASE \E b \in Range(old) \cap AnyBar :
                 c.ts = b.ts /\ c.vol = b.vol \cup vol /\ c.odd = b.odd /\ fin = <<>>
      <4>1. PICK b \in Range(old) \cap AnyBar :
                 c.ts = b.ts /\ c.vol = b.vol \cup vol /\ c.odd = b.odd /\ fin = <<>>
        BY <3>2
      <4>2. r \in Range(q)
        BY <4>1, NoBar
      <4>3. b \in Range(building[s][tf]) /\ ~b.odd
        BY <2>2, <4>1
      <4>4. Fits(r, b)
        BY <2>1, <4>2, <4>3 DEF RingInv, Range, q
      <4>5. ~ SeededBefore(s, tf, here)
        <5>1. PICK v \in trades[s] : b.ts = Bucket(tf, v)
          BY <2>1, <4>3 DEF BuildingInv
        <5>2. b.ts <= here /\ b.ts \in Nat
          BY <2>5, <5>1
        <5>3. ~ SeededBefore(s, tf, b.ts)
          BY <2>1, <4>3 DEF BuildingInv
        <5>4. seededAt[s] # NoSeed => Bucket(tf, seededAt[s]) \in Nat
          BY <1>2, BucketIs
        <5> QED
          BY <2>4, <5>2, <5>3, <5>4 DEF SeededBefore
      <4>6. r.vol \cap vol = {}
        BY <2>7, <4>2, <4>5
      <4> QED
        BY <4>1, <4>3, <4>4, <4>6 DEF Fits
    <3> QED
      BY <2>9, <3>1, <3>2
  <2>14. /\ both \in Seq(AnyBar)
         /\ \A i \in DOMAIN both : \/ i \in DOMAIN q /\ both[i] = q[i]
                                   \/ i = Len(q) + 1 /\ both[i] \in Range(fin)
    BY <2>3, <2>6, RangeOfBoth
  <2> HIDE DEF both
  <2>15. \A i \in DOMAIN both : both[i] \in Range(q) \cup Range(fin)
    BY <2>3, <2>14
  <2>16. \A r \in Range(q) \cup Range(fin) : ~r.odd =>
           /\ SeededBefore(s, tf, r.ts) \/ \E v \in trades[s] : r.ts < Bucket(tf, v)
           /\ r.vol \subseteq trades[s]
    <3> TAKE r \in Range(q) \cup Range(fin)
    <3> SUFFICES ASSUME ~r.odd
                 PROVE  /\ SeededBefore(s, tf, r.ts) \/ \E v \in trades[s] : r.ts < Bucket(tf, v)
                        /\ r.vol \subseteq trades[s]
      OBVIOUS
    <3>1. r \in Range(q) \cup Range(building[s][tf])
      BY <2>2, <2>10
    <3>2. r.vol \subseteq trades[s]
      BY <2>1, <3>1 DEF VolumeInv, q
    <3>3. SeededBefore(s, tf, r.ts) \/ r.ts < here
      BY <2>10, <2>12
    <3> QED
      BY <1>1, <3>2, <3>3 DEF here
  <2>17. \A i, j \in DOMAIN both : i < j => Fits(both[i], both[j])
    <3> SUFFICES ASSUME NEW i \in DOMAIN both, NEW j \in DOMAIN both, i < j
                 PROVE  Fits(both[i], both[j])
      OBVIOUS
    <3>1. CASE j \in DOMAIN q /\ both[j] = q[j]
      <4>1. i \in DOMAIN q /\ both[i] = q[i]
        BY <2>3, <2>14, <3>1
      <4> QED
        BY <2>1, <3>1, <4>1 DEF RingInv, q
    <3>2. CASE j = Len(q) + 1 /\ both[j] \in Range(fin)
      <4>1. i \in DOMAIN q /\ both[i] = q[i]
        BY <2>3, <2>14, <3>2
      <4>2. both[j] \in Range(building[s][tf])
        BY <2>2, <2>10, <3>2
      <4> QED
        BY <2>1, <4>1, <4>2 DEF RingInv, q
    <3> QED
      BY <2>14, <3>1, <3>2
  <2> DEFINE kept == Capped(both)
  <2>18. PICK k \in Nat : /\ DOMAIN kept = 1 .. Len(both) - k
                          /\ \A i \in DOMAIN kept : k + i \in DOMAIN both /\ kept[i] = both[k + i]
    BY <2>14, CappedIs
  <2>19. Len(both) \in Nat
    BY <2>14, LenProperties
  <2> HIDE DEF kept
  <2>20. \A i, j \in DOMAIN kept : i < j => k + i < k + j
    BY <2>18, <2>19
  <2>21. \A ts : SeededBefore(s, tf, ts)' <=> SeededBefore(s, tf, ts)
    BY <1>4 DEF SeededBefore
  <2>22. ring'[s][tf] = kept
    BY <2>11 DEF kept
  <2>23. RingInv(s, tf)'
    <3> SUFFICES ASSUME NEW i \in DOMAIN kept
                 PROVE  /\ \A j \in DOMAIN kept : i < j => Fits(kept[i], kept[j])
                        /\ Fits(kept[i], c)
                        /\ ~kept[i].odd => \/ SeededBefore(s, tf, kept[i].ts)
                                           \/ \E v \in trades[s] : kept[i].ts < Bucket(tf, v)
      BY <1>4, <2>11, <2>21, <2>22 DEF RingInv
    <3>1. kept[i] \in Range(q) \cup Range(fin)
      BY <2>15, <2>18
    <3>2. \A j \in DOMAIN kept : i < j => Fits(kept[i], kept[j])
      BY <2>17, <2>18, <2>20
    <3> QED
      BY <2>13, <2>16, <3>1, <3>2
  <2>24. BuildingInv(s, tf)'
    <3>1. \E v \in trades[s] : c.ts = Bucket(tf, v)
      <4>1. CASE c.ts = here
        BY <1>1, <4>1 DEF here
      <4>2. CASE \E b \in Range(old) : c.ts = b.ts
        BY <2>1, <2>2, <4>2 DEF BuildingInv
      <4> QED
        BY <2>9, <4>1, <4>2
    <3>2. SeededBefore(s, tf, c.ts) => c.odd
      <4>1. CASE c.ts = here /\ (c.odd <=> SeededBefore(s, tf, here))
        BY <4>1
      <4>2. CASE \E b \in Range(old) : c.ts = b.ts /\ c.odd = b.odd
        BY <2>1, <2>2, <4>2 DEF BuildingInv
      <4> QED
        BY <2>9, <4>1, <4>2
    <3> QED
      BY <1>4, <2>11, <2>21, <3>1, <3>2 DEF BuildingInv
  <2>25. VolumeInv(s, tf)'
    <3>1. \A r \in Range(kept) : ~r.odd => r.vol \subseteq trades[s]
      BY <2>15, <2>16, <2>18 DEF Range
    <3>2. ~c.odd => c.vol \subseteq trades[s]
      <4>1. vol \subseteq trades[s]
        BY <1>5
      <4>2. \A b \in Range(old) : ~b.odd => b.vol \subseteq trades[s]
        BY <2>1, <2>2 DEF VolumeInv
      <4> QED
        BY <2>9, <4>1, <4>2
    <3> QED
      BY <1>4, <1>7, <2>11, <2>22, <3>1, <3>2 DEF VolumeInv
  <2> QED
    BY <2>23, <2>24, <2>25
<1> QED
  BY <1>6, <1>8 DEF SymbolInv

LEMMA BarsStep ==
  ASSUME TypeOK, SeedInv, BarsInv, [Next]_vars
  PROVE  BarsInv'
<1>1. \A x \in Symbols : SymbolInv(x)
  BY DEF BarsInv
<1>2. CASE \E s \in Symbols : Trade(s)
  <2>1. PICK s \in Symbols : Trade(s)
    BY <1>2
  <2>2. /\ trades' = [trades EXCEPT ![s] = @ \cup {now}] /\ ~ (now \in trades[s])
        /\ UNCHANGED <<live, ring, building, counted, seededAt>>
    BY <2>1 DEF Trade, seeding, store, history
  <2>3. ASSUME NEW x \in Symbols PROVE SymbolInv(x)'
    <3>1. trades'[x] \in {trades[x], trades[x] \cup {now}} /\ trades[x] \subseteq trades'[x]
      BY <2>2 DEF TypeOK
    <3>2. trades'[x] # trades[x] => x = s
      BY <2>2 DEF TypeOK
    <3>3. \A u \in trades'[x] \ trades[x] : \A m \in counted[x] : ~ (u <= m)
      <4> TAKE u \in trades'[x] \ trades[x]
      <4> TAKE m \in counted[x]
      <4>1. x = s /\ u = now
        BY <3>1, <3>2
      <4>2. m \in trades[x]
        BY <1>1 DEF SymbolInv, CountedInv
      <4>3. m \in 0 .. now /\ m # now /\ now \in Nat
        BY <2>2, <4>1, <4>2 DEF TypeOK
      <4> QED
        BY <4>1, <4>3
    <3> QED
      BY <1>1, <2>2, <3>1, <3>3, LeftAlone
  <2> QED
    BY <2>3 DEF BarsInv
<1>3. ASSUME UNCHANGED <<trades, ring, building, seededAt>>,
             counted' = counted \/ counted' = [x \in Symbols |-> {}],
             live' => live \/ counted' = [x \in Symbols |-> {}]
      PROVE  BarsInv'
  <2> SUFFICES ASSUME NEW x \in Symbols PROVE SymbolInv(x)'
    BY DEF BarsInv
  <2> QED
    BY <1>1, <1>3, LeftAlone
<1>4. CASE \/ Elapse \/ Start \/ RefreshDaily \/ SeedDone \/ UNCHANGED vars
           \/ \E s \in Symbols : SeedMissed(s)
  <2>1. UNCHANGED <<trades, ring, building, seededAt>>
    BY <1>4 DEF Elapse, Start, RefreshDaily, BeginSeed, SeedDone, SeedMissed, vars,
                market, store, history
  <2>2. counted' = counted \/ counted' = [x \in Symbols |-> {}]
    BY <1>4 DEF Elapse, Start, RefreshDaily, BeginSeed, SeedDone, SeedMissed, vars, store
  <2>3. live' => live \/ counted' = [x \in Symbols |-> {}]
    BY <1>4 DEF Elapse, Start, RefreshDaily, BeginSeed, SeedDone, SeedMissed, vars, seeding
  <2> QED
    BY <1>3, <2>1, <2>2, <2>3
<1>5. CASE \E s \in Symbols : \E fetched \in BOOLEAN : SeedOne(s, fetched)
  <2>1. PICK s \in Symbols, fetched \in BOOLEAN : SeedOne(s, fetched)
    BY <1>5
  <2>2. SymbolInv(s)'
    BY <2>1, RingSeeded
  <2>3. ASSUME NEW x \in Symbols, x # s PROVE SymbolInv(x)'
    <3>1. /\ trades' = trades /\ live' = live /\ counted' = counted
          /\ ring' = [ring EXCEPT ![s] = SeedBars(s, fetched)]
          /\ building' = [building EXCEPT ![s] = Kept(s)]
          /\ seededAt' = [seededAt EXCEPT ![s] = seedNow]
      BY <2>1 DEF SeedOne, market
    <3>2. ring'[x] = ring[x] /\ building'[x] = building[x] /\ seededAt'[x] = seededAt[x]
      BY <2>3, <3>1 DEF TypeOK
    <3> QED
      BY <1>1, <3>1, <3>2, LeftAlone
  <2> QED
    BY <2>2, <2>3 DEF BarsInv
<1>6. CASE \E s \in Symbols : Tick(s)
  <2>1. PICK s \in Symbols : Tick(s)
    BY <1>6
  <2>2. SymbolInv(s)'
    BY <2>1, BarsTick
  <2>3. ASSUME NEW x \in Symbols, x # s PROVE SymbolInv(x)'
    <3> DEFINE t == Max(trades[s])
               bars == BuildingAfterReset(t)
    <3>1. \A tf \in Frames : bars[x][tf] \in {building[x][tf], <<>>}
      BY DEF BuildingAfterReset
    <3>2. bars \in [Symbols -> [Frames -> AtMostOne]]
      BY DEF BuildingAfterReset, TypeOK, AtMostOne
    <3> HIDE DEF t, bars
    <3>3. /\ trades' = trades /\ live' = live /\ seededAt' = seededAt
          /\ counted' = [counted EXCEPT ![s] = Reading(s, t)]
          /\ \E new : ring' = [ring EXCEPT ![s] = new]
          /\ \E new : building' = [bars EXCEPT ![s] = new]
      BY <2>1 DEF Tick, market, seeding, t, bars
    <3>4. ring'[x] = ring[x] /\ building'[x] = bars[x] /\ counted'[x] = counted[x]
      BY <2>3, <3>2, <3>3 DEF TypeOK
    <3> QED
      BY <1>1, <3>1, <3>3, <3>4, LeftAlone
  <2> QED
    BY <2>2, <2>3 DEF BarsInv
<1> QED
  BY <1>2, <1>4, <1>5, <1>6 DEF Next, Seeding

-----------------------------------------------------------------------------
(* The theorems. *)

StoreInv == TypeOK /\ SeedInv /\ DayInv /\ BarsInv

LEMMA InitStore == ASSUME Init PROVE StoreInv
<1>1. TypeOK
  BY InitTyped
<1>2. SeedInv
  BY DEF Init, SeedInv, NoSeed
<1>3. DayInv
  <2>1. \A s \in Symbols : day[s] = Fresh
    BY DEF Init
  <2> QED
    BY <2>1, FreshOfDay, DayInvIs DEF Init
<1>4. \A s \in Symbols : SymbolInv(s)
  <2> SUFFICES ASSUME NEW s \in Symbols PROVE SymbolInv(s)
    OBVIOUS
  <2>1. CountedInv(s)
    BY DEF Init, CountedInv
  <2>2. ASSUME NEW tf \in Frames
        PROVE  RingInv(s, tf) /\ BuildingInv(s, tf) /\ VolumeInv(s, tf)
    <3>1. ring[s][tf] = <<>> /\ building[s][tf] = <<>>
      BY DEF Init
    <3> QED
      BY <3>1, NoBar DEF RingInv, BuildingInv, VolumeInv
  <2> QED
    BY <2>1, <2>2 DEF SymbolInv
<1> QED
  BY <1>1, <1>2, <1>3, <1>4 DEF StoreInv, BarsInv

LEMMA StoreStep == ASSUME StoreInv, [Next]_vars PROVE StoreInv'
BY TypeStep, SeedStep, DayStep, BarsStep DEF StoreInv

LEMMA StoreHolds == Spec => []StoreInv
<1>1. Init => StoreInv
  BY InitStore
<1>2. StoreInv /\ [Next]_vars => StoreInv'
  BY StoreStep
<1> QED
  BY <1>1, <1>2, PTL DEF Spec

\* Any two bars of an instrument's frame fit, the one being built last.
LEMMA BarsFit ==
  ASSUME StoreInv, NEW s \in Symbols, NEW tf \in Frames,
         NEW i \in DOMAIN Bars2(s, tf), NEW j \in DOMAIN Bars2(s, tf), i < j
  PROVE  Fits(Bars2(s, tf)[i], Bars2(s, tf)[j])
<1> DEFINE q == ring[s][tf]
           last == building[s][tf]
<1>1. q \in Seq(AnyBar) /\ last \in AtMostOne /\ RingInv(s, tf)
  BY DEF StoreInv, TypeOK, BarsInv, SymbolInv, AtMostOne
<1>2. DOMAIN q = 1 .. Len(q) /\ Len(q) \in Nat /\ Bars2(s, tf) = q \o last
  BY <1>1, LenProperties DEF Bars2
<1>3. \A k \in DOMAIN (q \o last) : \/ k \in DOMAIN q /\ (q \o last)[k] = q[k]
                                    \/ k = Len(q) + 1 /\ (q \o last)[k] \in Range(last)
  <2> HIDE DEF q, last
  <2> QED
    BY <1>1, RangeOfBoth
<1> DEFINE all == q \o last
<1>4. i \in DOMAIN all /\ j \in DOMAIN all
  BY <1>2
<1> HIDE DEF all
<1>5. i \in DOMAIN q /\ all[i] = q[i]
  <2>1. \A k \in DOMAIN all :
          \/ k \in DOMAIN q /\ all[k] = q[k]
          \/ k = Len(q) + 1 /\ all[k] \in Range(last)
    BY <1>3 DEF all
  <2>2. ~ (i = Len(q) + 1)
    <3>1. j \in Int /\ j <= Len(q) + 1
      BY <1>2, <1>4, <2>1
    <3> QED
      BY <1>2, <3>1
  <2> QED
    BY <1>4, <2>1, <2>2
<1>6. Fits(all[i], all[j])
  BY <1>1, <1>3, <1>4, <1>5 DEF RingInv, all
<1> QED
  BY <1>2, <1>6 DEF all

\* The day open, the extremes and the opening range are always of the state's day.
THEOREM DayStateHolds == Spec => []DayStateIsToday
<1>1. StoreInv => DayStateIsToday
  BY DEF StoreInv, DayInv
<1> QED
  BY <1>1, StoreHolds, PTL

\* Once an instrument was seeded its day open is the first trade of the day.
THEOREM DayOpenHolds == Spec => []DayOpenIsFirst
<1>1. StoreInv => DayOpenIsFirst
  BY DEF StoreInv, DayInv
<1> QED
  BY <1>1, StoreHolds, PTL

\* The bars of every timeframe are in order, the odd ones apart.
THEOREM BarsInOrder == Spec => []InOrder
<1>1. StoreInv => InOrder
  BY BarsFit DEF InOrder, Fits
<1> QED
  BY <1>1, StoreHolds, PTL

\* No trade is counted in two bars of a timeframe, the odd ones apart.
THEOREM TradesCountedOnce == Spec => []CountedOnce
<1>1. StoreInv => CountedOnce
  <2> SUFFICES ASSUME StoreInv, NEW s \in Symbols, NEW tf \in Frames,
                      NEW i \in DOMAIN Bars2(s, tf), NEW j \in DOMAIN Bars2(s, tf), i # j,
                      ~Bars2(s, tf)[i].odd, ~Bars2(s, tf)[j].odd
               PROVE  Bars2(s, tf)[i].vol \cap Bars2(s, tf)[j].vol = {}
    BY DEF CountedOnce
  <2>1. i \in Int /\ j \in Int
    <3> DEFINE q == ring[s][tf]
               last == building[s][tf]
    <3>1. q \in Seq(AnyBar) /\ last \in AtMostOne
      BY DEF StoreInv, TypeOK, AtMostOne
    <3> HIDE DEF q, last
    <3>2. q \o last \in Seq(AnyBar)
      BY <3>1, RangeOfBoth
    <3>3. DOMAIN (q \o last) \subseteq Int
      <4> DEFINE both == q \o last
      <4> HIDE DEF both
      <4>1. both \in Seq(AnyBar)
        BY <3>2 DEF both
      <4>2. DOMAIN both = 1 .. Len(both) /\ Len(both) \in Nat
        BY <4>1, LenProperties
      <4>3. DOMAIN both \subseteq Int
        BY <4>2
      <4> QED
        BY <4>3 DEF both
    <3> QED
      BY <3>3 DEF Bars2, q, last
  <2>2. CASE i < j
    BY <2>2, BarsFit DEF Fits
  <2>3. CASE j < i
    BY <2>3, BarsFit DEF Fits
  <2> QED
    BY <2>1, <2>2, <2>3
<1> QED
  BY <1>1, StoreHolds, PTL
=============================================================================
