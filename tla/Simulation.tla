----------------------------- MODULE Simulation -----------------------------
(***************************************************************************)
(* The weekly portfolio simulation: run_backtest of a registered strategy  *)
(* (src/backtesting/engine.py) and run_portfolio_simulation of any method  *)
(* (src/benchmarking/simulation.py), which trades through the same         *)
(* functions.                                                              *)
(*                                                                         *)
(* One step is one trading day.  Shares and money are whole units: a       *)
(* purchase and a fee round down where the code keeps fractions.           *)
(***************************************************************************)
EXTENDS Regime

CONSTANTS
  Stocks,        \* the stocks, in the order of the holdings
  Members,       \* Members[d]: the universe on day d, in its order
  StartDate, EndDate, WeekLength, Tolerance,
  StartCash, MaxPosition, MinPrice,
  FeeRate,       \* in hundredths
  Trims,         \* "rebalance_market_value" rather than "initial_allocation"
  Predict(_),    \* the fitted pipeline's score of closes, negative for none
  Feeds,         \* the prices the loader may return
  Methods        \* the methods that may be simulated: [kind, name, top]

ASSUME SimulationAssumption ==
  /\ {StartDate, EndDate, WeekLength, StartCash, MaxPosition} \subseteq Nat \ {0}
  /\ {Tolerance, MinPrice, FeeRate} \subseteq Nat /\ StartDate < EndDate /\ Trims \in BOOLEAN
  /\ Stocks \in Seq(ToSet(Stocks)) /\ \A i, j \in DOMAIN Stocks : Stocks[i] = Stocks[j] => i = j
  /\ \A d \in StartDate..EndDate : Members[d] \in Seq(ToSet(Stocks))
  /\ \A m \in Methods : /\ m.kind \in {"strategy", "learned", "switching", "adaptive"}
                         /\ m.top \in Nat /\ (m.kind = "strategy" => m.name \in Registered)
  /\ \A feed \in Feeds :
       /\ feed \in [{"SPY", "QQQ"} \cup ToSet(Stocks) ->
                     Seq([open : Nat, close : Nat, volume : Int])]
       /\ \A t \in DOMAIN feed : Len(feed[t]) = EndDate

VARIABLES
  data,     \* ticker -> rows by day, as loaded
  method,   \* the method under research
  stage,    \* "load", "retry", "run", "done", "failed", "unavailable"
  date,     \* the next day to simulate
  book      \* cash, shares, trades and the portfolio's value by day

simVars == <<data, method, stage, date, book>>

-----------------------------------------------------------------------------
(* Prices: those loaded, or any others a selection might be asked on.      *)

Present(r) == r.open > 0 \/ r.close > 0
TradePrice(prices, t, d) == prices[t][d].open
ValuationPrice(t, d) == LET rows == SubSeq(data[t], 1, d)
                        IN IF HasClose(rows) THEN rows[AsOf(rows)].close ELSE 0

-----------------------------------------------------------------------------
(* Ranking: only rows before the date, and the date's open.                *)

Eligible(prices, t, d) ==
  /\ HasRows(prices[t])
  /\ TradePrice(prices, t, d) > 0 /\ TradePrice(prices, t, d) >= MinPrice

(* A strategy's results, with its preferred benchmark or the one given.    *)
Observed(prices, name, universe, d, benchmark) ==
  LET preferred == {b \in PreferredBenchmark(name) : HasRows(prices[b])}
      relative == prices[IF preferred = {} THEN benchmark ELSE CHOOSE b \in preferred : TRUE]
      analyzed(t) == Analyze(name, t, Before(prices[t], d), Before(relative, d))
  IN [i \in DOMAIN universe |->
       IF Eligible(prices, universe[i], d) THEN analyzed(universe[i]) ELSE Nothing]

(* MLRankingStrategy: every stock the pipeline can score is a candidate.   *)
FeatureDays == <<Days[200], Days[120] + 1>>
RegimeUpTo(prices, until) ==
  RegimeOf(SubSeq(prices["SPY"], 1, until), SubSeq(prices["QQQ"], 1, until))
Scored(prices, t, d) ==
  LET rows == Before(prices[t], d)
  IN IF \/ ~HasClose(rows) \/ RegimeUpTo(prices, AsOf(rows)) = "NONE"
        \/ Len(Closes(rows)) < Highest(FeatureDays) \/ Predict(Closes(rows)) < 0
     THEN Nothing ELSE Answer(t, "BUY", Predict(Closes(rows)), [none |-> 0])

(* RegimeSwitchingStrategy: the delegate of the day of the stock's last    *)
(* close analyzes it; the delegate chosen last ranks all of them.          *)
DelegateAt(prices, until) ==
  IF ~HasRows(prices["SPY"]) \/ ~HasRows(prices["QQQ"]) THEN "Baseline"
  ELSE Delegate(RegimeUpTo(prices, until))
DelegateOf(prices, name, t, rows) ==
  LET relative == IF PreferredBenchmark(name) = {} THEN <<>>
                  ELSE SubSeq(prices["QQQ"], 1, AsOf(rows))
  IN IF name = "CASH" THEN Answer(t, "WAIT", 0, [none |-> 0]) ELSE Analyze(name, t, rows, relative)
Switched(prices, t, d) ==
  LET rows == Before(prices[t], d)
  IN IF HasClose(rows) THEN DelegateOf(prices, DelegateAt(prices, AsOf(rows)), t, rows) ELSE Nothing

(* The places in the universe of the stocks that were given to a delegate. *)
Analyzed(prices, universe, d) ==
  {i \in DOMAIN universe : /\ Eligible(prices, universe[i], d)
                           /\ HasClose(Before(prices[universe[i]], d))}
LastDelegate(prices, t, d) == DelegateAt(prices, AsOf(Before(prices[t], d)))
SwitchFactor(prices, universe, d) ==
  LET asked == Analyzed(prices, universe, d)
      last == CHOOSE i \in asked : \A j \in asked : j <= i
  IN IF asked = {} THEN "none" ELSE TieFactor(LastDelegate(prices, universe[last], d))

-----------------------------------------------------------------------------
(* What a program holds after ranking: the stocks selected, or an error.   *)

Universe(d) == Members[d]
Error == <<"error">>
Tickers_(results) == [i \in DOMAIN results |-> results[i].ticker]
First(s, n) == SubSeq(s, 1, Smaller(n, Len(s)))

StrategySelects(prices, name, d) ==
  Tickers_(Ranked(Observed(prices, name, Universe(d), d, "SPY"), TieFactor(name)))

(* A candidate without the ranking factor ends the run with a KeyError.    *)
RankedBy(results, factor) ==
  LET unranked(r) == r.signal = "BUY" /\ factor \notin DOMAIN r.tie \cup {"none"}
  IN IF \E i \in DOMAIN results : unranked(results[i])
     THEN Error ELSE Tickers_(Ranked(results, factor))
SwitchSelects(prices, d) ==
  LET universe == Universe(d)
      results == [i \in DOMAIN universe |->
        IF Eligible(prices, universe[i], d) THEN Switched(prices, universe[i], d) ELSE Nothing]
  IN RankedBy(results, SwitchFactor(prices, universe, d))

Count(prices, regime, spy, qqq, d) ==
  IF regime = "NONE" THEN -1
  ELSE Participation(regime, <<Index(spy), Index(qqq)>>, Breadth(prices, ToSet(Universe(d)), d))
Adaptive(prices, count, d) ==
  IF count = -1 THEN Error ELSE First(StrategySelects(prices, "Controlled Breakout V1", d), count)
AdaptiveSelects(prices, d) ==
  LET spy == Before(prices["SPY"], d)  qqq == Before(prices["QQQ"], d)
  IN Adaptive(prices, Count(prices, RegimeOf(spy, qqq), Closes(spy), Closes(qqq), d), d)

LearnedSelects(prices, d) ==
  LET universe == Universe(d)
      results == [i \in DOMAIN universe |->
        IF Eligible(prices, universe[i], d) THEN Scored(prices, universe[i], d) ELSE Nothing]
  IN Tickers_(Ranked(results, "none"))

(* top = 0 buys every candidate, as run_backtest does.                     *)
Top(tickers) == IF method.top = 0 \/ tickers = Error THEN tickers ELSE First(tickers, method.top)
Selects(prices, d) ==
  CASE method.kind = "strategy" -> Top(StrategySelects(prices, method.name, d))
    [] method.kind = "learned" -> Top(LearnedSelects(prices, d))
    [] method.kind = "switching" -> Top(SwitchSelects(prices, d))
    [] method.kind = "adaptive" -> AdaptiveSelects(prices, d)

-----------------------------------------------------------------------------
(* Money                                                                   *)

EmptyBook ==
  [cash |-> StartCash, shares |-> [t \in ToSet(Stocks) |-> 0], trades |-> <<>>, worth |-> <<>>]
Fee(amount) == (amount * FeeRate) \div 100
Order(t, shares, price, fee) == [ticker |-> t, shares |-> shares, price |-> price, fee |-> fee]

(* Stocks no longer selected are sold, and perhaps a position above the    *)
(* limit is trimmed; a stock without an open that day cannot be traded.    *)
Sell(b, t, d, selected) ==
  LET price == TradePrice(data, t, d)
      target == IF t \notin ToSet(selected) THEN 0
                ELSE IF Trims THEN Smaller(b.shares[t], MaxPosition \div price) ELSE b.shares[t]
      sold == b.shares[t] - target
  IN IF price = 0 \/ sold = 0 THEN b
     ELSE [b EXCEPT !.cash = @ + sold * price - Fee(sold * price), !.shares[t] = target,
                    !.trades = Append(@, Order(t, -sold, price, Fee(sold * price)))]

(* mutant: what cash affords is reckoned without the fee.                  *)
BuyBeforeFee(b, t, d) ==
  LET price == TradePrice(data, t, d)
      bought == Smaller(MaxPosition \div price - b.shares[t], b.cash \div price)
      cost == bought * price
  IN IF price = 0 \/ b.shares[t] * price >= MaxPosition \/ bought <= 0 THEN b
     ELSE [b EXCEPT !.cash = @ - cost - Fee(cost), !.shares[t] = @ + bought,
                    !.trades = Append(@, Order(t, bought, price, Fee(cost)))]

Buy(b, t, d) ==
  LET price == TradePrice(data, t, d)
      wanted == MaxPosition \div price - b.shares[t]
      bought == Smaller(wanted, (100 * b.cash) \div (price * (100 + FeeRate)))
      cost == bought * price
  IN IF price = 0 \/ b.shares[t] * price >= MaxPosition \/ bought <= 0 THEN b
     ELSE [b EXCEPT !.cash = @ - cost - Fee(cost), !.shares[t] = @ + bought,
                    !.trades = Append(@, Order(t, bought, price, Fee(cost)))]

Rebalance(b, d, selected) ==
  LET sold == FoldLeft(LAMBDA x, t : Sell(x, t, d, selected), b, Stocks)
  IN FoldLeft(LAMBDA x, t : Buy(x, t, d), sold, selected)

Worth(b, d) ==
  b.cash + Total([i \in DOMAIN Stocks |-> b.shares[Stocks[i]] * ValuationPrice(Stocks[i], d)])

-----------------------------------------------------------------------------
(* The run                                                                 *)

SimulationDates == {d \in StartDate..EndDate : Present(data["SPY"][d])}
FirstDate == CHOOSE d \in SimulationDates : \A e \in SimulationDates : d <= e
Week(d) == (d - 1) \div WeekLength
IsRebalance(d) == \A e \in SimulationDates : e < d => Week(e) < Week(d)

SimInit ==
  /\ data \in Feeds /\ method \in Methods
  /\ stage = "load" /\ date = StartDate
  /\ book = EmptyBook

(* download_backtest_data: a benchmark with gaps is loaded once more.      *)
Load ==
  /\ stage \in {"load", "retry"}
  /\ IF Covered(data["SPY"], StartDate, EndDate, Tolerance)
     THEN /\ stage' = IF TradePrice(data, "SPY", FirstDate) > 0 THEN "run" ELSE "failed"
          /\ UNCHANGED data
     ELSE IF stage = "retry" THEN stage' = "unavailable" /\ UNCHANGED data
     ELSE stage' = "retry" /\ \E feed \in Feeds : data' = [data EXCEPT !["SPY"] = feed["SPY"]]
  /\ UNCHANGED <<method, date, book>>

Skip ==
  /\ stage = "run" /\ date <= EndDate /\ date \notin SimulationDates
  /\ date' = date + 1 /\ UNCHANGED <<data, method, stage, book>>

(* One day: the first of a week rebalances, every day is valued.           *)
Valued(b, d) == [b EXCEPT !.worth = Append(@, Worth(b, d))]
AfterDay(d, selected) ==
  Valued(IF IsRebalance(d) THEN Rebalance(book, d, selected) ELSE book, d)
Day(selected) ==
  /\ IF selected = Error
     THEN stage' = "failed" /\ UNCHANGED <<date, book>>
     ELSE /\ book' = AfterDay(date, selected)
          /\ date' = date + 1 /\ UNCHANGED stage
  /\ UNCHANGED <<data, method>>

Simulate ==
  /\ stage = "run" /\ date \in SimulationDates
  /\ Day(IF IsRebalance(date) THEN Selects(data, date) ELSE <<>>)

Finish ==
  /\ stage = "run" /\ date > EndDate
  /\ stage' = "done" /\ UNCHANGED <<data, method, date, book>>

SimNext == Load \/ Skip \/ Simulate \/ Finish

SimSpec == SimInit /\ [][SimNext]_simVars

-----------------------------------------------------------------------------
(* Attributed profit: sales, less purchases, and what is still held.       *)
Paid(trade) == trade.shares * trade.price
Cost(trade) == Paid(trade) + trade.fee
Attribution(t, d) ==
  LET cost(trade) == IF trade.ticker = t THEN Cost(trade) ELSE 0
  IN book.shares[t] * ValuationPrice(t, d)
       - Total([i \in DOMAIN book.trades |-> cost(book.trades[i])])
=============================================================================
