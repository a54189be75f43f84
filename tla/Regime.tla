------------------------------- MODULE Regime -------------------------------
(***************************************************************************)
(* What the research reads off the whole market: the regime of SPY and QQQ *)
(* (src/market/regime.py), the strategies it calls for                     *)
(* (src/market/strategy_selector.py), the breadth of a universe            *)
(* (src/market/breadth.py) and how many positions to hold                  *)
(* (src/benchmarking/participation.py).                                    *)
(*                                                                         *)
(* Price data map a ticker to its rows by day; a day without prices is a   *)
(* row of zeros.  Confidences, reasons and the median momentum, which no   *)
(* decision reads, are left out.                                           *)
(***************************************************************************)
EXTENDS Strategies

(* mutant: the day itself is read as well.                                 *)
BeforeInclusive(rows, date) == SubSeq(rows, 1, date)

Before(rows, date) == SubSeq(rows, 1, date - 1)
HasRows(rows) == \E i \in DOMAIN rows : rows[i].open > 0 \/ rows[i].close > 0

(* benchmark_coverage_error: both ends and every gap within the tolerance. *)
Covered(rows, first, last, tolerance) ==
  LET valid == {d \in first..last : rows[d].open > 0 /\ rows[d].close > 0}
      near(d) == \E o \in valid : o > d /\ o - d <= tolerance
  IN /\ \E d \in valid : d - first <= tolerance
     /\ \A d \in valid : last - d <= tolerance \/ near(d)

-----------------------------------------------------------------------------
(* One index, and the regime of both; NONE when a history is too short.    *)

RegimeDays == <<Days[200], Days[60] + 1, Days[20] + 1>>
Index(c) ==
  [strong |-> Above(c, 50) /\ Average(c, 50) * Days[200] > Average(c, 200) * Days[50],
   below |-> Below(c, 50) \/ Below(c, 200),
   above |-> Above(c, 200),
   up |-> Momentum(c, 20) > 0 /\ Momentum(c, 60) > 0,
   down |-> Momentum(c, 20) < 0 /\ Momentum(c, 60) < 0,
   flat |-> \A n \in {20, 60} : Momentum(c, n) > -20 /\ Momentum(c, n) < 20,
   volatility |-> Volatility(c)]

Classify(spy, qqq) ==
  IF spy.volatility + qqq.volatility >= 2 * 20 THEN "HIGH_VOLATILITY"
  ELSE IF spy.strong /\ qqq.strong /\ spy.up /\ qqq.up THEN "STRONG_UPTREND"
  ELSE IF (spy.below \/ qqq.below) /\ (spy.down \/ qqq.down) THEN "DOWNTREND"
  ELSE IF ~(spy.flat /\ qqq.flat) /\ spy.above /\ qqq.above THEN "WEAK_UPTREND"
  ELSE "SIDEWAYS"

RegimeOf(spy, qqq) ==
  IF Len(Closes(spy)) < Highest(RegimeDays) \/ Len(Closes(qqq)) < Highest(RegimeDays) THEN "NONE"
  ELSE Classify(Index(Closes(spy)), Index(Closes(qqq)))

-----------------------------------------------------------------------------
(* The strategies a regime calls for, the first registered one of which is *)
(* followed; a regime that calls for none means cash, no regime Baseline.  *)

Preferred(regime) ==
  CASE regime = "STRONG_UPTREND" ->
         <<"Aggressive Momentum V1", "Breakout Volume V1", "Relative Strength Momentum V1">>
    [] regime = "WEAK_UPTREND" ->
         <<"Momentum V2", "Relative Strength Momentum V1", "Mean Reversion V1">>
    [] regime = "SIDEWAYS" -> <<"Mean Reversion V1", "Baseline">>
    [] regime = "HIGH_VOLATILITY" -> <<"Momentum V2">>
    [] OTHER -> <<>>

Available(names) == {i \in DOMAIN names : names[i] \in Registered}
Delegate(regime) ==
  LET names == Preferred(regime)
  IN IF regime = "NONE" THEN "Baseline" ELSE IF names = <<>> THEN "CASH"
     ELSE IF Available(names) = {} THEN "Baseline" ELSE names[Min(Available(names))]

-----------------------------------------------------------------------------
(* The members of a universe with a full history before a date, and how    *)
(* many of them are above their average or rising.                         *)

BreadthDays == <<Days[200], Days[20] + 1>>
Measured(data, universe, date) ==
  {t \in universe : Len(Closes(Before(data[t], date))) >= Highest(BreadthDays)}

Breadth(data, universe, date) ==
  LET measured == Measured(data, universe, date)
      closes == [t \in measured |-> Closes(Before(data[t], date))]
  IN [members |-> Cardinality(universe), measured |-> Cardinality(measured),
      above |-> Cardinality({t \in measured : Above(closes[t], 50)}),
      rising |-> Cardinality({t \in measured : Momentum(closes[t], 20) > 0})]

(* How many candidates Adaptive Participation holds: none when the data do *)
(* not suffice (-1: an error, never an empty portfolio), 0, 2 or 5.        *)
Participation(regime, indices, b) ==
  LET few(n) == 100 * n < 40 * b.measured
      less(n) == 100 * n < 60 * b.measured
      unknown == regime = "NONE" \/ b.measured = 0 \/ 100 * b.measured < 80 * b.members
      off == regime = "DOWNTREND" \/ (few(b.above) /\ few(b.rising))
      half == \/ regime \in {"HIGH_VOLATILITY", "SIDEWAYS"}
              \/ \E i \in DOMAIN indices : ~indices[i].above
              \/ less(b.above) \/ less(b.rising)
  IN IF unknown THEN -1 ELSE IF off THEN 0 ELSE IF half THEN 2 ELSE 5
=============================================================================
