---------------------------- MODULE MCSetupScan ----------------------------
(* Contexts around 20000 points, a round number of either grid.  An ATR of *)
(* 20 points makes the pad of a stop 10 points and the least stop 12; 40   *)
(* points is a lively day.                                                 *)
EXTENDS SetupScan

Mid == 20000
Step10(k) == Mid + 10 * k
Flat1(p) == Bar(p, p, p, p)

\* Every bar on a grid of seven prices ten points apart, or five.
BarsOn(ks) ==
  {Bar(Step10(o), Step10(h), Step10(l), Step10(c)) :
     <<o, h, l, c>> \in {q \in ks \X ks \X ks \X ks :
                           q[3] <= q[1] /\ q[3] <= q[4] /\ q[1] <= q[2] /\ q[4] <= q[2]}}
Wide == BarsOn(-3..3)
Narrow == BarsOn(-2..2)
Prevs == {Bar(Step10(1), Step10(1), Step10(-1), Step10(-1)),
          Bar(Step10(-1), Step10(1), Step10(-1), Step10(1))}

\* Completed 15m bars with a swing high and a swing low.
Swings(h, l) ==
  LET b == Bar(Mid, Mid + 2, Mid - 2, Mid) IN
  <<b, [b EXCEPT !.high = Max({h, Mid + 2})], b, [b EXCEPT !.low = Min({l, Mid - 2})], b, b>>
SomeSwings == {Swings(h, l) : <<h, l>> \in {Step10(1), Step10(3)} \X {Step10(-1), Step10(-4)}}

Plain ==
  [index |-> TRUE, base |-> "NIFTY", atr |-> 20, atr15 |-> 20, ready |-> TRUE,
   volume |-> 200, cur |-> Flat1(Mid), prev |-> Flat1(Mid), look |-> <<>>,
   c15 |-> Swings(Step10(3), Step10(-3)), n5 |-> 80, n60 |-> 60,
   pdh |-> 20120, pdl |-> 19880, pdc |-> 20060, orh |-> <<20040>>, orl |-> <<19960>>,
   orLocked |-> TRUE, vwap |-> None, callWall |-> None, putWall |-> None,
   maxPain |-> None, oiChange |-> 5, oi |-> 600, dayOpen |-> Mid, dayLow |-> 19950,
   vix |-> 15, pcr |-> "NONE", r60 |-> "UP", daily |-> "UP", rsi |-> 50,
   ema21 |-> Mid, ema55 |-> Mid, hourly21 |-> Mid + 1, hourly55 |-> Mid,
   bands |-> [upper |-> Step10(1), mid |-> Mid, lower |-> Step10(-1)], squeezed |-> 8,
   highs |-> [prior |-> Mid, recent |-> Mid, rsi |-> None],
   lows |-> [prior |-> Mid, recent |-> Mid, rsi |-> None],
   cross |-> None, time |-> 640, expiry |-> FALSE, tickAge |-> <<5>>, event |-> FALSE,
   earnings |-> FALSE, indexBias |-> Neutral, direction |-> Neutral,
   back |-> None, edge |-> None]

Days == {<<20120, 19880, 20060>>, <<20030, 19970, 20020>>, <<20090, 19950, 19990>>}
OnDay(ctx, d) == [ctx EXCEPT !.pdh = d[1], !.pdl = d[2], !.pdc = d[3]]

ForLsr ==
  {[Plain EXCEPT !.cur = b, !.c15 = t, !.vwap = v, !.r60 = r] :
     b \in Wide, t \in SomeSwings, v \in {<<Step10(-1)>>, <<Step10(1)>>}, r \in {"UP", "RANGING"}}

ForOrb ==
  {[OnDay(Plain, d) EXCEPT !.cur = Flat1(Mid + 4 * k), !.orh = h, !.orl = l, !.callWall = w] :
     k \in -14..14, h \in {<<20020>>, <<20040>>, None}, l \in {<<19980>>, <<19956>>},
     w \in {None, <<20074>>, <<19920>>}, d \in Days}

ForBreakout ==
  {[OnDay(Plain, d) EXCEPT !.cur = b, !.c15 = t, !.oiChange = o] :
     b \in Narrow, t \in SomeSwings, o \in {-1, 0}, d \in Days}

ForVix ==
  {[Plain EXCEPT !.cur = b, !.prev = p, !.dayOpen = 20400, !.dayLow = w, !.pdc = c,
                 !.r60 = r, !.rsi = s, !.vix = 22] :
     b \in Narrow, p \in Prevs, w \in {19960, 19980}, c \in {19990, 20100},
     r \in {"UP", "DOWN"}, s \in {30, 40}}

\* A bar that rejects, with its levels at most an ATR away on either side.
ForLevels ==
  {[Plain EXCEPT !.cur = b, !.prev = p, !.c15 = t, !.atr = a, !.pcr = c,
                 !.oiChange = 30, !.pdc = Step10(k), !.orh = <<Step10(5)>>, !.orl = <<Step10(-5)>>] :
     b \in Narrow, p \in Prevs, t \in {Swings(Step10(6), Step10(-6)), Swings(Step10(3), Step10(-1))},
     a \in {20, 40}, c \in {"BEARISH", "BULLISH"}, k \in {-5, -2, 2, 5}}

ForTpe ==
  {[Plain EXCEPT !.cur = b, !.c15 = t, !.ema21 = Step10(e), !.ema55 = Step10(e) - 5,
                 !.r60 = r, !.hourly21 = Mid + h, !.rsi = s] :
     b \in Narrow, t \in SomeSwings, e \in {-1, 1}, r \in {"UP", "DOWN"}, h \in {-1, 1},
     s \in {38, 50}}

\* A book with a cluster, and closes on either side of its levels.
ForSrf ==
  {[OnDay(Plain, d) EXCEPT !.cur = b, !.prev = p, !.c15 = Append(t, Flat1(Step10(k)))] :
     b \in Narrow, p \in Prevs, k \in {-4, 0, 4}, d \in Days \cup {<<20026, 19900, 20090>>},
     t \in {Swings(Mid + 24, Mid - 6), Swings(Mid + 6, Mid - 24), Swings(Mid + 15, Mid - 15)}}

Looks == {Bar(Mid, Mid + Max({4 * h, c}), Mid - Max({4 * l, -c}), Mid + c) :
            h \in {0, 4, 8}, l \in {0, 4, 8}, c \in {-8, 0, 8}}
ForFar ==
  {[Plain EXCEPT !.cur = Flat1(Mid + 4 * k), !.look = <<b, q, Flat1(Mid)>>, !.orh = <<Mid + 12>>,
                 !.orl = <<Mid - 12>>, !.c15 = t, !.pdh = h, !.orLocked = o] :
     k \in {-7, -4, -2, 0, 4, 6}, b \in Looks, q \in {Flat1(Mid), Bar(Mid, Mid + 30, Mid - 30, Mid)},
     t \in SomeSwings, h \in {20010, 20120}, o \in BOOLEAN}

ForDiv ==
  {[Plain EXCEPT !.cur = b, !.prev = p, !.rsi = s, !.pdh = 20060, !.pdl = 19940,
                 !.orh = None, !.orl = None, !.orLocked = FALSE,
                 !.highs = [prior |-> Mid, recent |-> Max({b.high, Step10(h)}), rsi |-> <<70>>],
                 !.lows = [prior |-> Mid, recent |-> Min({b.low, Step10(l)}), rsi |-> <<32>>]] :
     b \in Narrow, p \in Prevs, s \in {38, 45, 55, 66}, h \in {-1, 1}, l \in {-1, 1}}

ForQcb ==
  {[OnDay(Plain, d) EXCEPT !.cur = Flat1(Mid + 4 * k), !.bands.mid = Mid + m, !.c15 = t, !.time = u] :
     k \in -10..10, m \in {-8, 0, 8}, t \in SomeSwings, d \in Days, u \in {590, 640}}

\* Where the averages cross, the bar closes beyond both.
ForMac ==
  {ctx \in
     {[OnDay(Plain, d) EXCEPT !.c15 = t, !.r60 = r,
         !.cross = <<[was21 |-> Mid + w, was55 |-> Mid, now21 |-> Mid + n, now55 |-> Mid + m,
                      close |-> Mid + 4 * k, volume |-> v, atr |-> 30]>>] :
        w \in {-1, 1}, n \in {-2, 2}, m \in {-1, 0, 1}, k \in -6..6, v \in {None, <<100>>, <<150>>},
        t \in SomeSwings, r \in {"UP", "DOWN", "RANGING"}, d \in Days} :
   Averages(ctx.cross[1])}

ForEgs ==
  {[OnDay(Plain, d) EXCEPT !.cur = Flat1(Mid + 4 * k), !.maxPain = <<Mid + 50 * p>>, !.atr = a,
                           !.expiry = TRUE, !.time = u] :
     k \in -8..8, p \in {-3, -1, 1, 2}, a \in {20, 40}, u \in {800, 840}, d \in Days}

MCContexts ==
  [setup \in SetupClasses |->
     CASE setup = "LSR" -> ForLsr [] setup = "ORB" -> ForOrb
       [] setup \in {"VSB", "BDS"} -> ForBreakout [] setup = "VIX" -> ForVix
       [] setup \in {"PCR", "OIS"} -> ForLevels [] setup = "TPE" -> ForTpe
       [] setup = "SRF" -> ForSrf [] setup = "FAR" -> ForFar [] setup = "DIV" -> ForDiv
       [] setup = "QCB" -> ForQcb [] setup = "MAC" -> ForMac [] setup = "EGS" -> ForEgs]
LevelContexts ==
  [setup \in SetupClasses |-> IF setup \in UnsidedSetups THEN ForLevels ELSE {}]

(* The tape: each index missing, without a day's open, or on either side   *)
(* of its anchors.                                                         *)
SomeReads ==
  {[open |-> o, last |-> l, ema |-> e, vwap |-> v, pdc |-> p, many |-> m, daily |-> d] :
     o \in {0, Mid}, l \in {Mid - 20, Mid, Mid + 20, Mid + 40}, e \in {Mid - 10, Mid + 30}, v \in {0, Mid + 30},
     p \in {Mid, Mid + 70, Mid - 70}, m \in BOOLEAN, d \in {"UP", "DOWN"}}
Following == {r \in SomeReads : r.pdc > Mid /\ r.daily = "UP" /\ r.open > 0 /\ r.vwap > 0}
Falling == CHOOSE r \in SomeReads : Bias(r) = Short
Maybe(S) == {<<>>} \cup {<<r>> : r \in S}
MCTapes ==
  [reads : [NIFTY : Maybe(SomeReads), BANKNIFTY : Maybe(Following),
            FINNIFTY : Maybe({Falling}), NIFTYNXT50 : {<<>>}],
   flow : {-600, 0, 600}]

(* Legs of three bars between turning points.                              *)
Zigzag(turns) ==
  [i \in 1..(3 * (Len(turns) - 1) + 1) |->
     LET k == (i - 1) \div 3   j == (i - 1) % 3
         next == turns[Min({k + 2, Len(turns)})]
         p == Mid + turns[k + 1] + ((next - turns[k + 1]) * j) \div 3
     IN Bar(p, p + 2, p - 2, p)]
Turns == {0} \X {12, 24} \X {-12, 0} \X {6, 12, 24} \X {-24, -12, -6} \X {-30, 12, 30} \X {0, 36}
MCBars == {Zigzag(t) : t \in Turns}

(* The scores.                                                             *)
Candidate(setup, d, risk, reward, htf, volume) ==
  [setup |-> setup, dir |-> d, entry |-> Mid, sl |-> Mid - Sign(d) * risk,
   tp1 |-> Mid + Sign(d) * reward, tp2 |-> None, type |-> "MARKET", htf |-> htf, volume |-> volume]
Judged(sig, ctx, age, nth) == [sig |-> sig, ctx |-> ctx, age |-> age, nth |-> nth]
Few == [Plain EXCEPT !.c15 = <<>>]
OneOfEach == {"TPE", "OIS", "VSB", "PCR"}
Trends ==
  {Judged(Candidate(s, d, 20, 40, h, 0),
          [Few EXCEPT !.r60 = r, !.daily = y, !.indexBias = i, !.expiry = x], 0, 1) :
     s \in SetupClasses, d \in Sides, h \in BOOLEAN, r \in Regimes, y \in {"UP", "DOWN", "QUIET"},
     i \in Sides \cup {Neutral}, x \in {FALSE}}
Crowds ==
  {Judged(Candidate(s, d, 20, 40, TRUE, 0),
          [Few EXCEPT !.pcr = c, !.oiChange = o, !.back = b, !.vix = v], 0, 1) :
     s \in OneOfEach, d \in Sides, c \in {"NONE", "BEARISH", "BULLISH"}, o \in {-5, 1, 5},
     b \in {None, <<Mid - 5>>, <<Mid>>, <<Mid + 5>>}, v \in {0, 13, 15, 19}}
Extensions ==
  {Judged(Candidate(s, d, 20, w, TRUE, u),
          [Few EXCEPT !.direction = m, !.vwap = v, !.time = t, !.volume = 90, !.edge = e], a, n) :
     s \in OneOfEach, d \in Sides, w \in {30, 60}, u \in {0, 250}, m \in Sides \cup {Neutral},
     v \in {None, <<Mid - 30>>, <<Mid + 50>>}, t \in {600, 700}, e \in {None, <<-90>>},
     a \in {10, 100, 200}, n \in {1, 3}}
Structures ==
  {Judged(Candidate("SRF", d, 20, 40, TRUE, 0), [Plain EXCEPT !.c15 = Zigzag(t), !.atr = a, !.expiry = TRUE], 0, 1) :
     d \in Sides, a \in {10, 40},
     t \in {<<0, 24, -12, 12, -24, 12, 30>>, <<0, 12, -12, 24, -6, 30, 36>>, <<0, 12, 0, 24, -24, -30, 0>>,
            <<0, 24, -12, 6, -24, -30, 0>>, <<0, 24, 0, 30, 6, 36, 0>>, <<0, 6, -12, 12, -12, 6, 0>>}}
NoInputs == <<>>
MCInputs == <<Trends, Crowds, Extensions, Structures>>
=============================================================================
