---------------------------- MODULE PaperLedger ----------------------------
(***************************************************************************)
(* The paper-trading ledger: the account row, the open lots and the closed *)
(* trades one SQLite file holds (src/paper_trading/storage.py), with the   *)
(* accounting checks of src/paper_trading/ledger.py and the exposure       *)
(* arithmetic of src/paper_trading/portfolio.py.                           *)
(*                                                                         *)
(* Every write of the ledger is one BEGIN IMMEDIATE transaction, so each   *)
(* is one step here: a function from the ledger before to the ledger       *)
(* after, committed only if the accounting assertion at its end accepts.   *)
(* Money is counted in whole units.  Where the code compares floats within *)
(* a tolerance, the model compares integers.                               *)
(***************************************************************************)
EXTENDS Integers, FiniteSets, FiniteSetsExt

CONSTANTS
  Tickers,            \* symbols that can be traded
  Prices,             \* the prices a quote or an entry can have
  Allocations,        \* the capital one purchase can commit
  InitialCapital,     \* cash and starting capital of a fresh ledger
  Capitals,           \* starting capitals a snapshot form can state
  Portfolios,         \* sets of holdings a snapshot form can list
  FormCash,           \* cash a snapshot form can state
  MinStockPrice,      \* config.MIN_STOCK_PRICE
  MaxPositionValue,   \* config.MAX_POSITION_VALUE
  MaxPositions        \* bound: open lots ever created

Directions == {"LONG", "SHORT"}

(* Rows of open_positions and closed_trades; a closed trade repeats the     *)
(* columns of the lot it closed.                                            *)
Lot == [id : Nat \ {0}, ticker : Tickers, dir : Directions, entry : Prices,
        qty : Nat, alloc : Nat \ {0}]
Trade == [id : Nat \ {0}, lot : Lot, exit : Prices, pnl : Int]

(* A holding of a snapshot form, as parse_holdings accepts it. *)
Holding == [ticker : Tickers, dir : Directions, entry : Prices, qty : Nat \ {0}]

ASSUME PriceAssumption == Prices \subseteq Nat \ {0}
ASSUME AllocationAssumption ==
  /\ Allocations \subseteq Nat \ {0}
  /\ \A a \in Allocations, p \in Prices : a % p = 0   \* quantities stay whole
ASSUME CapitalAssumption ==
  /\ InitialCapital \in Nat \ {0}
  /\ Capitals \subseteq Nat \ {0}
  /\ FormCash \subseteq Nat
  /\ \A hs \in Portfolios : hs \subseteq Holding /\ IsFiniteSet(hs)
ASSUME LimitAssumption == {MinStockPrice, MaxPositionValue, MaxPositions} \subseteq Nat

VARIABLE
  ledger   \* [cash, starting, realized, open, closed, next]

-----------------------------------------------------------------------------
(* Profit and value of one lot, and the sums the code keeps re-deriving. *)

(* The profit of `qty` shares entered at `entry` and left at `exit`. *)
Pnl(dir, entry, exit, qty) ==
  IF dir = "LONG" THEN (exit - entry) * qty ELSE (entry - exit) * qty

(* What a lot is worth at `price`, as the dashboard values it. *)
UnrealizedPnl(lot, price) == Pnl(lot.dir, lot.entry, price, lot.qty)
MarketValueAtCost(lot, price) ==     \* mutant: every lot valued like a SHORT reserve
  lot.alloc
MarketValue(lot, price) ==
  IF lot.dir = "LONG" THEN lot.qty * price ELSE lot.alloc + UnrealizedPnl(lot, price)

(* Its share of gross exposure: both directions count their notional. *)
Exposure(lot, price) == lot.qty * price

Allocated(lots) == MapThenSumSet(LAMBDA l : l.alloc, lots)
Realized(trades) == MapThenSumSet(LAMBDA t : t.pnl, trades)
Gross(lots, marks) == MapThenSumSet(LAMBDA l : Exposure(l, marks[l.ticker]), lots)

(* A mark is the quote of a ticker; a ticker without one is not in DOMAIN marks. *)
Marks == UNION {[D -> Prices] : D \in SUBSET Tickers}
Priced(lots, marks) == \A l \in lots : l.ticker \in DOMAIN marks

Remaining(L, marks) ==
  LET left == L.starting - Gross(L.open, marks) IN IF left > 0 THEN left ELSE 0

-----------------------------------------------------------------------------
(* ledger.assert_accounting_consistent: what every transaction must satisfy *)
(* before it commits. Marks play no part in it.                            *)

RowIntegrity(L) ==
  /\ \A l \in L.open \union {t.lot : t \in L.closed} :
        /\ l.entry > 0 /\ l.qty > 0
        /\ l.alloc = l.entry * l.qty
  /\ \A t \in L.closed : t.pnl = Pnl(t.lot.dir, t.lot.entry, t.exit, t.lot.qty)

CashIdentity(L) == L.cash + Allocated(L.open) = L.starting + L.realized
RealizedIdentity(L) == L.realized = Realized(L.closed)

Consistent(L) ==
  /\ L.starting > 0
  /\ RowIntegrity(L)
  /\ CashIdentity(L)
  /\ RealizedIdentity(L)

-----------------------------------------------------------------------------
(* open_position *)

OpenAllowedOnCredit(L, ticker, dir, price, alloc, marks) ==  \* mutant: no cash check
  /\ price >= MinStockPrice
  /\ Priced(L.open, marks)
  /\ alloc <= Remaining(L, marks)

OpenAllowedAtCost(L, ticker, dir, price, alloc, marks) ==  \* mutant: lots count at cost
  LET sameLots == {l \in L.open : l.ticker = ticker /\ l.dir = dir}
  IN /\ price >= MinStockPrice
     /\ alloc <= L.cash
     /\ dir = "LONG" => Allocated(sameLots) + alloc <= MaxPositionValue
     /\ Allocated(L.open) + alloc <= L.starting

OpenAllowed(L, ticker, dir, price, alloc, marks) ==
  LET sameLots == {l \in L.open : l.ticker = ticker /\ l.dir = dir}
  IN /\ price >= MinStockPrice
     /\ alloc <= L.cash
     /\ dir = "LONG" => /\ Priced(sameLots, marks)
                        /\ Gross(sameLots, marks) + alloc <= MaxPositionValue
     /\ Priced(L.open, marks)
     /\ alloc <= Remaining(L, marks)

NewLot(L, ticker, dir, price, alloc) ==
  [id |-> L.next, ticker |-> ticker, dir |-> dir, entry |-> price,
   qty |-> alloc \div price, alloc |-> alloc]

(* Row ids are AUTOINCREMENT: `next` only grows, an id is never used twice. *)
AfterOpen(L, ticker, dir, price, alloc) ==
  [L EXCEPT !.open = @ \union {NewLot(L, ticker, dir, price, alloc)},
            !.next = @ + 1,
            !.cash = @ - alloc]

OpenPosition(ticker, dir, price, alloc, marks) ==
  /\ ledger.next <= MaxPositions
  /\ OpenAllowed(ledger, ticker, dir, price, alloc, marks)
  /\ ledger' = AfterOpen(ledger, ticker, dir, price, alloc)
  /\ Consistent(ledger')

-----------------------------------------------------------------------------
(* close_position: never refused for exposure or solvency. *)

OpenLot(L, id) == CHOOSE l \in L.open : l.id = id
IsOpen(L, id) == \E l \in L.open : l.id = id
NextTrade(L) == Cardinality(L.closed) + 1

AfterCloseAsLong(L, id, price) ==     \* mutant: a SHORT exit booked as a LONG one
  LET lot == OpenLot(L, id)
      pnl == Pnl("LONG", lot.entry, price, lot.qty)
  IN [L EXCEPT !.closed = @ \union {[id |-> NextTrade(L), lot |-> lot,
                                     exit |-> price, pnl |-> pnl]},
               !.open = @ \ {lot},
               !.cash = @ + lot.alloc + pnl,
               !.realized = @ + pnl]

AfterCloseFreeingId(L, id, price) ==  \* mutant: the row id can be used again
  LET lot == OpenLot(L, id)
      pnl == Pnl(lot.dir, lot.entry, price, lot.qty)
  IN [L EXCEPT !.closed = @ \union {[id |-> NextTrade(L), lot |-> lot,
                                     exit |-> price, pnl |-> pnl]},
               !.open = @ \ {lot},
               !.next = id,
               !.cash = @ + lot.alloc + pnl,
               !.realized = @ + pnl]

AfterClose(L, id, price) ==
  LET lot == OpenLot(L, id)
      pnl == Pnl(lot.dir, lot.entry, price, lot.qty)
  IN [L EXCEPT !.closed = @ \union {[id |-> NextTrade(L), lot |-> lot,
                                     exit |-> price, pnl |-> pnl]},
               !.open = @ \ {lot},
               !.cash = @ + lot.alloc + pnl,
               !.realized = @ + pnl]

ClosePosition(id, price) ==
  /\ IsOpen(ledger, id)
  /\ ledger' = AfterClose(ledger, id, price)
  /\ Consistent(ledger')

-----------------------------------------------------------------------------
(* replace_account_snapshot: cash, starting capital and holdings come from *)
(* the form, realized profit and closed trades stay.  The form was checked *)
(* against an earlier state of the ledger, so it need not balance now.     *)

Snapshot == [cash : Int, starting : Nat \ {0}, holdings : SUBSET Holding]

HoldingLots(L, holdings, base) ==
  {[id |-> base[h], ticker |-> h.ticker, dir |-> h.dir, entry |-> h.entry, qty |-> h.qty,
    alloc |-> h.entry * h.qty] : h \in holdings}

NumberingsFromOne(L, holdings) ==     \* mutant: ids start over, as without AUTOINCREMENT
  {f \in [holdings -> 1 .. Cardinality(holdings)] :
     \A g, h \in holdings : f[g] = f[h] => g = h}

(* The order in which the rows get their ids: any numbering of the holdings. *)
Numberings(L, holdings) ==
  {f \in [holdings -> L.next .. L.next + Cardinality(holdings) - 1] :
     \A g, h \in holdings : f[g] = f[h] => g = h}

(* The test of the form that the user reviews before confirming             *)
(* (account_setup.preview_account_snapshot): against the ledger of then.    *)
Cost(holdings) == MapThenSumSet(LAMBDA h : h.entry * h.qty, holdings)
CanSave(L, form) == form.cash + Cost(form.holdings) = form.starting + L.realized

AfterReplaceBeside(L, form, base) ==  \* mutant: the old lots are not deleted
  [L EXCEPT !.cash = form.cash,
            !.starting = form.starting,
            !.open = @ \union HoldingLots(L, form.holdings, base),
            !.next = @ + Cardinality(form.holdings)]

AfterReplaceFromScratch(L, form, base) ==  \* mutant: closed trades are dropped too
  [L EXCEPT !.cash = form.cash,
            !.starting = form.starting,
            !.closed = {},
            !.open = HoldingLots(L, form.holdings, base),
            !.next = @ + Cardinality(form.holdings)]

AfterReplace(L, form, base) ==
  [L EXCEPT !.cash = form.cash,
            !.starting = form.starting,
            !.open = HoldingLots(L, form.holdings, base),
            !.next = @ + Cardinality(form.holdings)]

ReplaceAccountSnapshot(form) ==
  /\ ledger.next + Cardinality(form.holdings) <= MaxPositions + 1
  /\ \E base \in Numberings(ledger, form.holdings) :
        ledger' = AfterReplace(ledger, form, base)
  /\ Consistent(ledger')

-----------------------------------------------------------------------------
LedgerInit ==
  ledger = [cash |-> InitialCapital, starting |-> InitialCapital, realized |-> 0,
            open |-> {}, closed |-> {}, next |-> 1]

Open == \E t \in Tickers, d \in Directions, p \in Prices, a \in Allocations, m \in Marks :
          OpenPosition(t, d, p, a, m)
Close == \E l \in ledger.open, p \in Prices : ClosePosition(l.id, p)
Replace == \E c \in FormCash, k \in Capitals, hs \in Portfolios :
             ReplaceAccountSnapshot([cash |-> c, starting |-> k, holdings |-> hs])

LedgerNext == Open \/ Close \/ Replace
LedgerSpec == LedgerInit /\ [][LedgerNext]_ledger

-----------------------------------------------------------------------------
(* Properties *)

LedgerTypeOK ==
  /\ ledger \in [cash : Int, starting : Nat \ {0}, realized : Int, open : SUBSET Lot,
                 closed : SUBSET Trade, next : Nat \ {0}]
  /\ \A l \in ledger.open \union {t.lot : t \in ledger.closed} : l.id < ledger.next
  /\ \A k, l \in ledger.open : k.id = l.id => k = l

(* The preview of a snapshot form and the audit that ends its transaction   *)
(* are two computations of different values, made at different times        *)
(* (account_setup.preview_account_snapshot, storage.replace_account_        *)
(* snapshot).  On every ledger they agree on every form: a form the user    *)
(* was shown as balanced is refused only if realized profit moved since,    *)
(* and no other form gets in.                                               *)
PreviewPredictsAudit ==
  \A c \in FormCash, k \in Capitals, hs \in Portfolios :
    LET form == [cash |-> c, starting |-> k, holdings |-> hs]
    IN \A base \in Numberings(ledger, hs) :
         CanSave(ledger, form) <=> Consistent(AfterReplace(ledger, form, base))

(* A lot can be closed at every price: the accounting assertion at the end  *)
(* of close_position never rolls an exit back, whatever was traded before   *)
(* ("Closing is always allowed").                                           *)
CloseNeverRefused ==
  \A l \in ledger.open, p \in Prices : Consistent(AfterClose(ledger, l.id, p))

(* What lots are worth together, and their profit so far. *)
Worth(lots, marks) == MapThenSumSet(LAMBDA l : MarketValue(l, marks[l.ticker]), lots)
Unrealized(lots, marks) == MapThenSumSet(LAMBDA l : UnrealizedPnl(l, marks[l.ticker]), lots)

(* Whatever the market does, equity added up from its parts (cash, LONG     *)
(* market value, SHORT reserve and SHORT profit) is equity added up from    *)
(* profit (starting capital, realized, unrealized): the audit panel cannot  *)
(* report a failed equity identity on a ledger these transactions built.    *)
EquityIdentity ==
  \A marks \in [Tickers -> Prices] :
    LET long == {l \in ledger.open : l.dir = "LONG"}
        short == ledger.open \ long
    IN ledger.cash + Worth(long, marks) + Allocated(short) + Unrealized(short, marks)
         = ledger.starting + ledger.realized + Unrealized(ledger.open, marks)

(* Only a losing SHORT can overdraw the account: no purchase and no LONG    *)
(* exit ever takes cash below zero (open_position's cash check, made inside *)
(* the transaction that debits).                                            *)
OnlyShortLossOverdraws ==
  [][(ledger'.cash < 0 /\ ledger'.cash < ledger.cash) =>
       \E t \in ledger'.closed \ ledger.closed : t.lot.dir = "SHORT" /\ t.pnl < 0]_ledger

(* Closed-trade history is append-only: no later open, close or snapshot    *)
(* rewrites or drops a closed trade, and its row id stays its own           *)
(* ("Closed-trade history and its realized P&L are kept").                  *)
HistoryKept ==
  [][/\ ledger.closed \subseteq ledger'.closed
     /\ \A s, t \in ledger'.closed : s.id = t.id => s = t]_ledger
=============================================================================
