------------------------ MODULE SimulationProperties ------------------------
(***************************************************************************)
(* What the weekly simulation promises: about its money, about the prices  *)
(* a selection may read, and about the strategy that ranks it.             *)
(***************************************************************************)
EXTENDS Simulation

(* The shape of the loaded prices and of the portfolio.                    *)
SimTypeOK ==
  /\ data \in [{"SPY", "QQQ"} \cup ToSet(Stocks) -> Seq([open : Nat, close : Nat, volume : Int])]
  /\ method \in Methods /\ date \in StartDate..EndDate + 1
  /\ stage \in {"load", "retry", "run", "done", "failed", "unavailable"}
  /\ book.cash \in Nat /\ book.shares \in [ToSet(Stocks) -> Nat]
  /\ book.trades \in Seq([ticker : ToSet(Stocks), shares : Int \ {0}, price : Nat \ {0}, fee : Nat])
  /\ book.worth \in Seq(Nat)

(* Money is neither made nor lost between the trades, the cash, and the    *)
(* position attribution the simulation reports on any last date: the       *)
(* attributed profits add up to the portfolio's gain, cash never goes      *)
(* below zero after fees, and no purchase exceeds the position limit.      *)
MoneyConserved ==
  LET past == {d \in SimulationDates : d < date}
      latest == CHOOSE d \in past : \A e \in past : e <= d
      costs == [i \in DOMAIN book.trades |-> Cost(book.trades[i])]
  IN /\ book.cash >= 0 /\ book.cash + Total(costs) = StartCash
     /\ \A i \in DOMAIN book.trades : Paid(book.trades[i]) <= MaxPosition
     /\ stage \in {"run", "done"} /\ past # {} =>
          Total([i \in DOMAIN Stocks |-> Attribution(Stocks[i], latest)]) = Last(book.worth) - StartCash

(* What the prices would be if only the rows before today and today's      *)
(* opens were known, and today's closes were other ones.                   *)
Hidden ==
  [t \in DOMAIN data |-> [i \in DOMAIN data[t] |->
     IF i < date THEN data[t][i]
     ELSE [open |-> IF i = date THEN data[t][i].open ELSE 0,
           close |-> IF i = date /\ data[t][i].close > 0 THEN 2 * data[t][i].close ELSE 0, volume |-> 0]]]

(* Whether an index has rows at all is asked of the whole load.            *)
Begun == \A b \in {"SPY", "QQQ"} : HasRows(data[b]) => HasRows(Before(data[b], date))

(* Once the indices have begun, a rebalance selects the same stocks in the *)
(* same order whatever today's closes and the days to come: strategies,    *)
(* benchmark, regime, breadth and learned scores all stop before the date. *)
NoLookAhead ==
  stage = "run" /\ date \in SimulationDates /\ IsRebalance(date) /\ Begun =>
    Selects(data, date) = Selects(Hidden, date)

(* Every candidate of one rebalance comes from the same delegate, as the   *)
(* docstring of RegimeSwitchingStrategy says.                              *)
SameDelegate ==
  stage = "run" /\ date \in SimulationDates /\ IsRebalance(date) /\ method.kind = "switching" =>
    LET asked == Analyzed(data, Universe(date), date)
        delegate(i) == LastDelegate(data, Universe(date)[i], date)
    IN \A i, j \in asked : delegate(i) = delegate(j)
=============================================================================
