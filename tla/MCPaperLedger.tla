--------------------------- MODULE MCPaperLedger ---------------------------
(* A small instance of PaperLedger for TLC: two symbols, both directions,   *)
(* a price below the minimum, forms that balance and forms that do not.     *)
EXTENDS PaperLedger

CONSTANTS t1, t2

MCTickers == {t1, t2}
MCPrices == {1, 2, 4}
MCAllocations == {4, 8}
MCCapitals == {8}
MCFormCash == {0, 4, 8}
MCPortfolios ==
  {{}, {[ticker |-> t1, dir |-> "LONG", entry |-> 2, qty |-> 2]},
   {[ticker |-> t1, dir |-> "LONG", entry |-> 2, qty |-> 2],
    [ticker |-> t2, dir |-> "SHORT", entry |-> 4, qty |-> 1]}}
=============================================================================
