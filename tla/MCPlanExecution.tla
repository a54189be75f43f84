-------------------------- MODULE MCPlanExecution --------------------------
(* Small instances of PlanExecution for TLC.                                *)
EXTENDS PlanExecution, TLC

CONSTANTS t1, t2, s1, s2

OneTicker == {t1}
TwoTickers == {t1, t2}
TwoSessions == {s1, s2}
Symmetry == Permutations(TwoSessions)

OnePrice == {4}
TwoPrices == {2, 4}
FourOnly == {4}
Nothing == {}
EightOnly == {8}
CashForms == {0, 4, 8}
TwelveOnly == {12}

OneHolding == {{[ticker |-> t1, dir |-> "LONG", entry |-> 4, qty |-> 1]}}
TwoHoldings ==
  {{[ticker |-> t1, dir |-> d, entry |-> 4, qty |-> 1]} : d \in {"LONG", "SHORT"}}
=============================================================================
