----------------------------- MODULE Strategies -----------------------------
(***************************************************************************)
(* The stock strategies (src/strategies/): each reads the closes and the   *)
(* volumes of one stock and answers nothing, or a signal with a score and  *)
(* the factors that may break ties.                                        *)
(*                                                                         *)
(* A row is [open, close, volume] of one day; 0 stands for a missing       *)
(* price and a negative volume for a missing one.  Ratios are whole        *)
(* thousandths, rounded down; averages are compared through their sums,    *)
(* without rounding.  The windows the code names by their length in days   *)
(* are shortened by Days; the tests on the number of rows are kept.        *)
(* Reasons and display fields are left out.                                *)
(***************************************************************************)
EXTENDS Integers, FiniteSets, SequencesExt

CONSTANT Days   \* Days[n]: the length that stands for n days, n as in the code

ASSUME DaysAssumption ==
  /\ \A n \in {5, 14, 20, 50, 60, 120, 200} : n \in DOMAIN Days /\ Days[n] \in Nat \ {0}
  /\ Days[20] >= 2

-----------------------------------------------------------------------------
(* Indicators of a sequence of closes c, oldest first.                     *)

Thousand == 1000
Change(new, old) == (new * Thousand) \div old - Thousand
Larger(a, b) == IF a >= b THEN a ELSE b
Smaller(a, b) == IF a <= b THEN a ELSE b
Clamp(x, low, high) == Larger(low, Smaller(high, x))
Total(s) == FoldLeft(LAMBDA a, b : a + b, 0, s)
Highest(s) == FoldLeft(Larger, s[1], s)
Lowest(s) == FoldLeft(Smaller, s[1], s)
Window(s, n) == SubSeq(s, Larger(1, Len(s) - n + 1), Len(s))

Closes(h) == LET some == SelectSeq(h, LAMBDA r : r.close > 0)
             IN [i \in DOMAIN some |-> some[i].close]
HasClose(rows) == \E i \in DOMAIN rows : rows[i].close > 0
Traded(h) == SelectSeq(h, LAMBDA r : r.close > 0 /\ r.volume >= 0)
AsOf(rows) == LET known == {i \in DOMAIN rows : rows[i].close > 0}
              IN CHOOSE i \in known : \A j \in known : j <= i
Volumes(h) == [i \in DOMAIN h |-> h[i].volume]

Momentum(c, n) == Change(Last(c), c[Len(c) - Days[n]])
Average(c, n) == Total(Window(c, Days[n]))          \* times Days[n]
Above(c, n) == Last(c) * Days[n] > Average(c, n)
Below(c, n) == Last(c) * Days[n] < Average(c, n)

(* The largest r with r * r <= n, for n below 2^28.                        *)
SquareRoot(n) ==
  LET bits == [i \in 1..14 |-> 2^(14 - i)]
  IN FoldLeft(LAMBDA r, b : IF (r + b) * (r + b) <= n THEN r + b ELSE r, 0, bits)

(* The sample deviation of the last returns; there is none of one return.  *)
Variance(n, total, squares) == (n * squares - total * total) \div (n * (n - 1))
Deviation(s) == SquareRoot(Variance(Len(s), Total(s), Total([i \in DOMAIN s |-> s[i] * s[i]])))
Volatility(c) == Deviation(Window([i \in 1..Len(c) - 1 |-> Change(c[i + 1], c[i])], Days[20]))

(* Where the close lies between the low and the high of its window.        *)
Within(x, low, high) == IF high = low THEN Thousand ELSE ((x - low) * Thousand) \div (high - low)
BreakoutStrength(c) == Within(Last(c), Lowest(Window(c, Days[20])), Highest(Window(c, Days[20])))

(* The distance to the highest of the closes before the last.              *)
Breakout(c, n) == Change(Last(c), Highest(Window(Front(c), Days[n])))

(* Recent over usual volume; a stock without usual volume has none.        *)
Ratio(recent, usual, none) ==
  IF usual <= 0 THEN none ELSE (recent * Days[20] * Thousand) \div (usual * Days[5])
VolumeRatio(v, none) == Ratio(Total(Window(v, Days[5])), Total(Window(v, Days[20])), none)

Share(gains, losses) == IF losses = 0 THEN Thousand ELSE (Thousand * gains) \div (gains + losses)
Gains(c) == Total([i \in 1..Len(c) - 1 |-> Larger(c[i + 1] - c[i], 0)])
Losses(c) == Total([i \in 1..Len(c) - 1 |-> Larger(c[i] - c[i + 1], 0)])
Rsi(c) == Share(Gains(Window(c, Days[14] + 1)), Losses(Window(c, Days[14] + 1)))

-----------------------------------------------------------------------------
(* The strategies.  A score counts hundred-thousandths.                    *)

Nothing == [signal |-> "NONE"]
Answer(ticker, signal, score, tie) ==
  [ticker |-> ticker, signal |-> signal, score |-> score, tie |-> tie]
Signal(buy, avoid) == IF buy THEN "BUY" ELSE IF avoid THEN "AVOID" ELSE "WAIT"
Weight(yes) == IF yes THEN Thousand ELSE 0

(* c are the closes of a stock and v the volumes of the same days; a       *)
(* strategy that reads volumes is given only the days that have one.       *)
Baseline(ticker, c) ==
  LET score == Cardinality({f \in {5, 20} : Momentum(c, f) > 0}) + (IF Above(c, 20) THEN 1 ELSE 0)
  IN IF Len(c) < Days[20] + 1 \/ Len(c) < Days[5] + 1 THEN Nothing
     ELSE Answer(ticker, Signal(score = 3, score = 0), score, [long |-> Momentum(c, 20)])

MomentumDays == <<Days[20] + 1, Days[60] + 1, Days[120] + 1, Days[50]>>
Long(c) == Len(c) >= Highest(MomentumDays)

MomentumV2(ticker, c) ==
  LET up == Above(c, 50)
      signal == Signal(Momentum(c, 60) > 0 /\ Momentum(c, 120) > 0 /\ up,
                       Momentum(c, 60) <= 0 /\ Momentum(c, 120) <= 0 /\ ~up)
      score == 20 * Momentum(c, 20) + 30 * Momentum(c, 60) + 30 * Momentum(c, 120)
                 + 20 * Weight(up) - 50 * Volatility(c)
  IN IF Long(c) THEN Answer(ticker, signal, score, [m120 |-> Momentum(c, 120)]) ELSE Nothing

AggressiveMomentum(ticker, c, v) ==
  LET up == Above(c, 50)  strength == BreakoutStrength(c)
      signal == Signal(Momentum(c, 20) > 0 /\ Momentum(c, 60) > 0 /\ up /\ strength >= 700,
                       Momentum(c, 20) < 0 /\ Momentum(c, 60) < 0 /\ ~up)
      confirmed == Clamp(VolumeRatio(v, Thousand) - Thousand, -Thousand, Thousand)
      score == 30 * Momentum(c, 20) + 30 * Momentum(c, 60) + 15 * Momentum(c, 120)
                 + 15 * strength + 10 * confirmed - 25 * Volatility(c)
  IN IF Long(c) THEN Answer(ticker, signal, score, [m120 |-> Momentum(c, 120)]) ELSE Nothing

(* Compared with the closes b of a benchmark, which may be missing.        *)
RelativeStrength(ticker, c, b) ==
  LET up == Above(c, 50)
      ahead(n) == Momentum(c, n) - Momentum(b, n)
      signal == Signal(Momentum(c, 20) > 0 /\ Momentum(c, 60) > 0 /\ ahead(60) > 0 /\ up,
                       Momentum(c, 20) < 0 /\ Momentum(c, 60) < 0 /\ ahead(60) < 0 /\ ~up)
      score == 20 * Momentum(c, 20) + 20 * Momentum(c, 60) + 10 * Momentum(c, 120)
                 + 20 * ahead(20) + 20 * ahead(60) + 10 * Weight(up) - 50 * Volatility(c)
  IN IF Long(c) /\ Long(b)
     THEN Answer(ticker, signal, score, [rs60 |-> ahead(60), m120 |-> Momentum(c, 120)]) ELSE Nothing

BreakoutDays == <<Days[20] + 1, Days[60] + 1, Days[50]>>

BreakoutVolume(ticker, c, v) ==
  LET up == Above(c, 50)  broke == Breakout(c, 20)
      ratio == VolumeRatio(v, 0)
      signal == Signal(/\ broke >= -20 /\ Momentum(c, 20) > 0 /\ Momentum(c, 60) > 0
                       /\ up /\ ratio >= 800,
                       broke < 0 /\ Momentum(c, 20) < 0 /\ Momentum(c, 60) < 0 /\ ~up)
      confirmed == Clamp(ratio - Thousand, -Thousand, Thousand)
      score == 25 * broke + 20 * Breakout(c, 60) + 20 * Momentum(c, 20) + 15 * Momentum(c, 60)
                 + 10 * confirmed + 10 * Weight(up) - 50 * Volatility(c)
  IN IF Len(c) < Highest(BreakoutDays) THEN Nothing
     ELSE Answer(ticker, signal, score, [break20 |-> broke])

(* Breakout Volume, refused when volatile or far above its average, and    *)
(* ranked by score over volatility.                                        *)
Controlled(base, c) ==
  LET refused == Volatility(c) >= 35 \/ 5 * Last(c) * Days[50] >= 6 * Average(c, 50)
  IN IF base = Nothing THEN Nothing
     ELSE [base EXCEPT !.signal = IF @ = "BUY" /\ refused THEN "WAIT" ELSE @,
                       !.score = (100 * @) \div Larger(Volatility(c), 10)]

(* Credit for a close below its average, complete at `full' thousandths.   *)
Pullback(c, n, full) ==
  LET depth == Thousand - (Last(c) * Days[n] * Thousand) \div Average(c, n)
  IN Clamp((Larger(0, depth) * Thousand) \div full, 0, Thousand)
Oversold(rsi) == Clamp(((500 - rsi) * Thousand) \div 400, 0, Thousand)
Stabilized(m) == Clamp(Thousand - (Larger(m + 10, -m - 10) * Thousand) \div 50, 0, Thousand)

Reverted(ticker, c, rsi, vol) ==
  LET avoid == ~Above(c, 200) \/ Momentum(c, 20) <= -200 \/ vol >= 50
      buy == /\ Below(c, 20) /\ rsi >= 250 /\ rsi <= 450
             /\ Momentum(c, 5) <= 10 /\ Momentum(c, 20) > -80
      score == 25 * Pullback(c, 20, 50) + 25 * Oversold(rsi) + 15 * Pullback(c, 50, 80)
                 + 15 * Stabilized(Momentum(c, 5)) + 20 * Weight(Above(c, 200)) - 60 * vol
  IN Answer(ticker, IF avoid THEN "AVOID" ELSE Signal(buy, FALSE), score, [rsi |-> -rsi])

MeanReversion(ticker, c) ==
  LET needed == <<Days[200], Days[50], Days[14] + 1, Days[20] + 1, Days[5] + 1>>
  IN IF Len(c) < Highest(needed) THEN Nothing ELSE Reverted(ticker, c, Rsi(c), Volatility(c))

-----------------------------------------------------------------------------
(* The registry: names, the benchmark a strategy prefers, and whether it   *)
(* is shown on the dashboard.                                              *)

Registered == {"Baseline", "Momentum V2", "Aggressive Momentum V1", "Relative Strength Momentum V1",
               "Breakout Volume V1", "Mean Reversion V1", "Controlled Breakout V1"}
LiveStrategies == Registered \ {"Controlled Breakout V1"}
PreferredBenchmark(name) == IF name = "Relative Strength Momentum V1" THEN {"QQQ"} ELSE {}

(* invoke_analyze: only Relative Strength is handed the benchmark; a       *)
(* missing one is the empty history.                                       *)
Analyze(name, ticker, h, benchmark) ==
  LET c == Closes(Traded(h))  v == Volumes(Traded(h))
  IN CASE name = "Baseline" -> Baseline(ticker, Closes(h))
       [] name = "Momentum V2" -> MomentumV2(ticker, Closes(h))
       [] name = "Aggressive Momentum V1" -> AggressiveMomentum(ticker, c, v)
       [] name = "Relative Strength Momentum V1" -> RelativeStrength(ticker, Closes(h), Closes(benchmark))
       [] name = "Mean Reversion V1" -> MeanReversion(ticker, Closes(h))
       [] name = "Breakout Volume V1" -> BreakoutVolume(ticker, c, v)
       [] name = "Controlled Breakout V1" -> Controlled(BreakoutVolume(ticker, c, v), c)

(* rank_key: the score, then a factor that some other strategies' results  *)
(* do not have.                                                            *)
TieFactor(name) ==
  CASE name = "Baseline" -> "long"
    [] name \in {"Momentum V2", "Aggressive Momentum V1"} -> "m120"
    [] name = "Relative Strength Momentum V1" -> "rs60"
    [] name \in {"Breakout Volume V1", "Controlled Breakout V1"} -> "break20"
    [] name = "Mean Reversion V1" -> "rsi"
    [] name = "CASH" -> "none"

RankedAbove(r, s, factor) ==
  LET tie(x) == IF factor = "none" THEN 0 ELSE x.tie[factor]
  IN r.score > s.score \/ (r.score = s.score /\ tie(r) > tie(s))

(* list.sort of the BUYs by rank_key, descending and stable: each takes    *)
(* the place of the first it ranks above.                                  *)
Inserted(s, r, behind) == InsertAt(s, IF behind = {} THEN Len(s) + 1 ELSE Min(behind), r)
Ranked(results, factor) ==
  LET place(s, r) == IF r.signal # "BUY" THEN s
                     ELSE Inserted(s, r, {i \in DOMAIN s : RankedAbove(r, s[i], factor)})
  IN FoldLeft(place, <<>>, results)
=============================================================================
