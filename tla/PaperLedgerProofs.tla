------------------------- MODULE PaperLedgerProofs -------------------------
(* Proofs about the paper ledger: its rows keep their types, row ids stay   *)
(* unique and are never used again, and closed trades are never rewritten.  *)
EXTENDS PaperLedger, FiniteSums

(* What every ledger transaction does to the rows: ids only grow, closed    *)
(* trades stay, and a lot it inserts has an id no earlier row had.          *)
LedgerGrows ==
  /\ ledger.next <= ledger'.next
  /\ ledger.closed \subseteq ledger'.closed
  /\ \A l \in ledger'.open : l \in ledger.open \/ l.id >= ledger.next

(* Closed-trade ids count the closed trades, so they are distinct. *)
TradeIdsOK ==
  /\ IsFiniteSet(ledger.closed)
  /\ \A t \in ledger.closed : t.id <= Cardinality(ledger.closed)
  /\ \A s, t \in ledger.closed : s.id = t.id => s = t

LedgerInv == LedgerTypeOK /\ TradeIdsOK

LedgerRow == [cash : Int, starting : Nat \ {0}, realized : Int, open : SUBSET Lot,
              closed : SUBSET Trade, next : Nat \ {0}]

(* Whole shares: the quantity bought with an allocation is a natural number. *)
LEMMA QuantityIsNat == ASSUME NEW a \in Nat, NEW p \in Nat \ {0} PROVE a \div p \in Nat
  OBVIOUS

LEMMA ProductIsPositive ==
  ASSUME NEW a \in Nat \ {0}, NEW b \in Nat \ {0} PROVE a * b \in Nat \ {0}
  OBVIOUS

LEMMA PnlIsInt ==
  ASSUME NEW d, NEW e \in Nat, NEW x \in Nat, NEW q \in Nat PROVE Pnl(d, e, x, q) \in Int
  BY DEF Pnl

LEMMA LedgerInitInv == LedgerInit => LedgerInv
  <1> SUFFICES ASSUME LedgerInit PROVE LedgerInv
    OBVIOUS
  <1>1. LedgerTypeOK
    BY CapitalAssumption DEF LedgerInit, LedgerTypeOK
  <1>2. TradeIdsOK
    BY FS_EmptySet DEF LedgerInit, TradeIdsOK
  <1> QED BY <1>1, <1>2 DEF LedgerInv

(* A purchase inserts one lot with the next id. *)
LEMMA OpenStep ==
  ASSUME LedgerInv, NEW t \in Tickers, NEW d \in Directions, NEW p \in Prices,
         NEW a \in Nat \ {0}, NEW m, OpenPosition(t, d, p, a, m)
  PROVE  LedgerInv' /\ LedgerGrows
  <1> DEFINE lot == NewLot(ledger, t, d, p, a)
  <1>1. lot \in Lot /\ lot.id = ledger.next
    BY QuantityIsNat, PriceAssumption
    DEF LedgerInv, LedgerTypeOK, NewLot, Lot
  <1>2. /\ ledger'.open = ledger.open \union {lot}
        /\ ledger'.next = ledger.next + 1
        /\ ledger'.closed = ledger.closed
        /\ ledger' \in LedgerRow
    <2>1. ledger \in LedgerRow /\ a \in Nat
      BY AllocationAssumption DEF LedgerInv, LedgerTypeOK, LedgerRow
    <2>2. ledger' = [cash |-> ledger.cash - a, starting |-> ledger.starting,
                     realized |-> ledger.realized, open |-> ledger.open \union {lot},
                     closed |-> ledger.closed, next |-> ledger.next + 1]
      BY <2>1 DEF OpenPosition, AfterOpen, LedgerRow
    <2> HIDE DEF lot
    <2> QED BY <1>1, <2>1, <2>2 DEF LedgerRow
  <1>3. LedgerTypeOK'
    <2> HIDE DEF lot
    <2> QED BY <1>1, <1>2 DEF LedgerInv, LedgerTypeOK, LedgerRow, Lot, Trade
  <1> HIDE DEF lot
  <1> QED BY <1>1, <1>2, <1>3 DEF LedgerInv, LedgerTypeOK, TradeIdsOK, LedgerGrows

(* A close moves one lot to the closed trades. *)
LEMMA CloseStep ==
  ASSUME LedgerInv, NEW id, NEW p \in Prices, ClosePosition(id, p)
  PROVE  /\ LedgerInv' /\ LedgerGrows
         /\ \E t \in ledger'.closed : t.id = NextTrade(ledger) /\ t.lot \in ledger.open
                                      /\ t.lot.id = id
  <1> DEFINE lot == OpenLot(ledger, id)
             pnl == Pnl(lot.dir, lot.entry, p, lot.qty)
             trade == [id |-> NextTrade(ledger), lot |-> lot, exit |-> p, pnl |-> pnl]
             n == Cardinality(ledger.closed)
  <1>1. lot \in ledger.open /\ lot.id = id /\ lot \in Lot
    BY DEF ClosePosition, IsOpen, OpenLot, LedgerInv, LedgerTypeOK
  <1>2. n \in Nat /\ NextTrade(ledger) = n + 1
    BY FS_CardinalityType DEF LedgerInv, TradeIdsOK, NextTrade
  <1>3. pnl \in Int
    BY <1>1, PnlIsInt, PriceAssumption DEF Lot
  <1>4. trade \in Trade /\ trade \notin ledger.closed
    BY <1>1, <1>2, <1>3 DEF Trade, LedgerInv, TradeIdsOK
  <1>5. /\ ledger'.open = ledger.open \ {lot}
        /\ ledger'.next = ledger.next
        /\ ledger'.closed = ledger.closed \union {trade}
        /\ ledger' \in LedgerRow
    <2>1. ledger \in LedgerRow /\ lot.alloc \in Nat
      BY <1>1 DEF LedgerInv, LedgerTypeOK, LedgerRow, Lot
    <2>2. ledger' = [cash |-> ledger.cash + lot.alloc + pnl, starting |-> ledger.starting,
                     realized |-> ledger.realized + pnl, open |-> ledger.open \ {lot},
                     closed |-> ledger.closed \union {trade}, next |-> ledger.next]
      BY <2>1 DEF ClosePosition, AfterClose, LedgerRow
    <2> HIDE DEF lot, pnl, trade
    <2> QED BY <1>1, <1>3, <1>4, <2>1, <2>2 DEF LedgerRow
  <1>6. LedgerTypeOK'
    <2>1. trade.lot = lot
      OBVIOUS
    <2> HIDE DEF lot, pnl, trade
    <2> QED BY <1>1, <1>5, <2>1 DEF LedgerInv, LedgerTypeOK, LedgerRow
  <1>7. IsFiniteSet(ledger'.closed) /\ Cardinality(ledger'.closed) = n + 1
    <2>1. IsFiniteSet(ledger.closed) /\ trade \notin ledger.closed
      BY <1>4 DEF LedgerInv, TradeIdsOK
    <2>2. ledger'.closed = ledger.closed \union {trade}
      BY <1>5
    <2> HIDE DEF trade
    <2> QED BY <2>1, <2>2, FS_AddElement
  <1>8. TradeIdsOK'
    <2>1. trade.id = n + 1
      BY <1>2
    <2>2. \A t \in ledger.closed : t.id \in Nat
      BY DEF LedgerInv, LedgerTypeOK, Trade
    <2>3. \A t \in ledger.closed : t.id <= n
      BY DEF LedgerInv, TradeIdsOK
    <2>4. \A s, t \in ledger.closed : s.id = t.id => s = t
      BY DEF LedgerInv, TradeIdsOK
    <2>5. ledger'.closed = ledger.closed \union {trade}
      BY <1>5
    <2> HIDE DEF trade, n
    <2>6. \A t \in ledger'.closed : t.id <= n + 1
      BY <1>2, <2>1, <2>2, <2>3, <2>5
    <2>7. \A s, t \in ledger'.closed : s.id = t.id => s = t
      BY <1>2, <2>1, <2>2, <2>3, <2>4, <2>5
    <2> QED BY <1>7, <2>6, <2>7 DEF TradeIdsOK
  <1>9. trade.id = NextTrade(ledger) /\ trade.lot = lot
    OBVIOUS
  <1> HIDE DEF lot, pnl, trade
  <1> QED BY <1>1, <1>5, <1>6, <1>8, <1>9 DEF LedgerInv, LedgerTypeOK, LedgerGrows

(* A snapshot replaces the open lots by lots with new ids. *)
LEMMA ReplaceStep ==
  ASSUME LedgerInv, NEW form \in [cash : FormCash, starting : Capitals, holdings : Portfolios],
         ReplaceAccountSnapshot(form)
  PROVE  LedgerInv' /\ LedgerGrows
  <1> DEFINE n == Cardinality(form.holdings)
  <1>1. n \in Nat /\ form.holdings \subseteq Holding
    BY CapitalAssumption, FS_CardinalityType
  <1>2. PICK base \in Numberings(ledger, form.holdings) :
          ledger' = AfterReplace(ledger, form, base)
    BY DEF ReplaceAccountSnapshot
  <1> DEFINE lots == HoldingLots(ledger, form.holdings, base)
  <1>3. /\ base \in [form.holdings -> ledger.next .. ledger.next + n - 1]
        /\ \A g, h \in form.holdings : base[g] = base[h] => g = h
    BY DEF Numberings
  <1>4. \A h \in form.holdings : h.entry * h.qty \in Nat \ {0}
    <2> TAKE h \in form.holdings
    <2>1. h.entry \in Nat \ {0} /\ h.qty \in Nat \ {0}
      BY <1>1, PriceAssumption DEF Holding
    <2> QED BY <2>1, ProductIsPositive
  <1>5. lots \subseteq Lot /\ \A l \in lots : l.id \in ledger.next .. ledger.next + n - 1
    BY <1>1, <1>3, <1>4 DEF HoldingLots, Lot, Holding, LedgerInv, LedgerTypeOK
  <1>6. \A k, l \in lots : k.id = l.id => k = l
    BY <1>3 DEF HoldingLots
  <1>7. /\ ledger'.open = lots
        /\ ledger'.next = ledger.next + n
        /\ ledger'.closed = ledger.closed
        /\ ledger' \in LedgerRow
    <2>1. ledger \in LedgerRow
      BY DEF LedgerInv, LedgerTypeOK, LedgerRow
    <2>2. ledger' = [cash |-> form.cash, starting |-> form.starting,
                     realized |-> ledger.realized, open |-> lots,
                     closed |-> ledger.closed, next |-> ledger.next + n]
      BY <1>2, <2>1 DEF AfterReplace, LedgerRow
    <2>3. form.cash \in Nat /\ form.starting \in Nat \ {0}
      BY CapitalAssumption
    <2> HIDE DEF lots, n
    <2> QED BY <1>1, <1>5, <2>1, <2>2, <2>3 DEF LedgerRow
  <1>8. LedgerTypeOK'
    <2> HIDE DEF lots, n
    <2> QED BY <1>1, <1>5, <1>6, <1>7 DEF LedgerInv, LedgerTypeOK, LedgerRow, Lot, Trade
  <1> HIDE DEF lots, n
  <1> QED BY <1>1, <1>5, <1>7, <1>8 DEF LedgerInv, LedgerTypeOK, TradeIdsOK, LedgerGrows

LEMMA LedgerNextInv ==
  ASSUME LedgerInv, LedgerNext PROVE LedgerInv' /\ LedgerGrows
  <1>1. CASE Open
    BY <1>1, OpenStep, AllocationAssumption DEF Open
  <1>2. CASE Close
    BY <1>2, CloseStep DEF Close
  <1>3. CASE Replace
    <2>1. PICK c \in FormCash, k \in Capitals, hs \in Portfolios :
            ReplaceAccountSnapshot([cash |-> c, starting |-> k, holdings |-> hs])
      BY <1>3 DEF Replace
    <2> QED BY <2>1, ReplaceStep
  <1> QED BY <1>1, <1>2, <1>3 DEF LedgerNext

LEMMA LedgerStutter == ASSUME LedgerInv, UNCHANGED ledger PROVE LedgerInv'
  BY DEF LedgerInv, LedgerTypeOK, TradeIdsOK

(* The inductive invariant of the ledger. *)
THEOREM LedgerInvariant == LedgerSpec => []LedgerInv
  <1>1. LedgerInit => LedgerInv
    BY LedgerInitInv
  <1>2. LedgerInv /\ [LedgerNext]_ledger => LedgerInv'
    BY LedgerNextInv, LedgerStutter
  <1> QED BY <1>1, <1>2, PTL DEF LedgerSpec

(* Rows of the ledger are well typed and open-lot ids are unique, for every *)
(* set of symbols, prices, allocations and snapshot forms (storage.py).     *)
THEOREM LedgerTypeCorrect == LedgerSpec => []LedgerTypeOK
  <1>1. LedgerInv => LedgerTypeOK
    BY DEF LedgerInv
  <1> QED BY <1>1, LedgerInvariant, PTL

(* Closed-trade history is append-only and its row ids stay unique, whatever *)
(* opens, closes and snapshot replacements follow (storage.py).              *)
THEOREM ClosedHistoryIsKept == LedgerSpec => HistoryKept
  <1>1. LedgerInv /\ LedgerInv' /\ [LedgerNext]_ledger =>
          [/\ ledger.closed \subseteq ledger'.closed
           /\ \A s, t \in ledger'.closed : s.id = t.id => s = t]_ledger
    BY LedgerNextInv DEF LedgerInv, TradeIdsOK, LedgerGrows
  <1> QED BY <1>1, LedgerInvariant, PTL DEF LedgerSpec, HistoryKept

-----------------------------------------------------------------------------
(* Cash *)

(* The quantity of a lot at its exit price is never negative. *)
LEMMA LongExitReturns ==
  ASSUME NEW e \in Nat, NEW x \in Nat, NEW q \in Nat
  PROVE  e * q + (x - e) * q >= 0
  <1>1. e * q + (x - e) * q = x * q
    OBVIOUS
  <1>2. x * q >= 0
    OBVIOUS
  <1> QED BY <1>1, <1>2

LEMMA OpenSpendsCash ==
  ASSUME LedgerInv, NEW t \in Tickers, NEW d \in Directions, NEW p \in Prices,
         NEW a \in Nat \ {0}, NEW m, OpenPosition(t, d, p, a, m)
  PROVE  ledger'.cash >= 0
  <1>1. ledger.cash \in Int /\ a <= ledger.cash
    BY DEF OpenPosition, OpenAllowed, LedgerInv, LedgerTypeOK
  <1>2. ledger'.cash = ledger.cash - a
    BY DEF OpenPosition, AfterOpen, LedgerInv, LedgerTypeOK
  <1> QED BY <1>1, <1>2

LEMMA CloseMovesCash ==
  ASSUME LedgerInv, NEW id, NEW p \in Prices, ClosePosition(id, p),
         ledger'.cash < ledger.cash
  PROVE  \E t \in ledger'.closed \ ledger.closed : t.lot.dir = "SHORT" /\ t.pnl < 0
  <1> DEFINE lot == OpenLot(ledger, id)
             pnl == Pnl(lot.dir, lot.entry, p, lot.qty)
             trade == [id |-> NextTrade(ledger), lot |-> lot, exit |-> p, pnl |-> pnl]
  <1>1. lot \in Lot
    BY DEF ClosePosition, IsOpen, OpenLot, LedgerInv, LedgerTypeOK
  <1>2. pnl \in Int /\ lot.alloc \in Nat /\ lot.entry \in Nat /\ lot.qty \in Nat /\ p \in Nat
    BY <1>1, PnlIsInt, PriceAssumption DEF Lot
  <1>3. /\ ledger'.closed = ledger.closed \union {trade}
        /\ ledger'.cash = ledger.cash + lot.alloc + pnl
    BY DEF ClosePosition, AfterClose, LedgerInv, LedgerTypeOK
  <1>4. trade \notin ledger.closed
    <2>1. Cardinality(ledger.closed) \in Nat
      BY FS_CardinalityType DEF LedgerInv, TradeIdsOK
    <2>2. \A t \in ledger.closed : t.id \in Nat /\ t.id <= Cardinality(ledger.closed)
      BY DEF LedgerInv, LedgerTypeOK, TradeIdsOK, Trade
    <2>3. trade.id = Cardinality(ledger.closed) + 1
      BY DEF NextTrade
    <2> HIDE DEF trade
    <2> QED BY <2>1, <2>2, <2>3
  <1>5. lot.alloc = lot.entry * lot.qty      \* the accounting assertion
    <2>1. trade \in ledger'.closed /\ trade.lot = lot
      BY <1>3
    <2>2. RowIntegrity(ledger')
      BY DEF ClosePosition, Consistent
    <2> HIDE DEF trade, lot
    <2> QED BY <2>1, <2>2 DEF RowIntegrity
  <1>6. pnl < 0
    <2>1. ledger.cash \in Int
      BY DEF LedgerInv, LedgerTypeOK
    <2> HIDE DEF pnl, lot, trade
    <2> QED BY <1>2, <1>3, <2>1
  <1>7. lot.dir = "SHORT"
    <2>1. ASSUME lot.dir = "LONG" PROVE FALSE
      <3>1. pnl = (p - lot.entry) * lot.qty
        BY <2>1 DEF Pnl
      <3>2. lot.alloc + pnl >= 0
        BY <1>2, <1>5, <3>1, LongExitReturns
      <3>3. ledger.cash \in Int
        BY DEF LedgerInv, LedgerTypeOK
      <3> HIDE DEF pnl, lot, trade
      <3> QED BY <1>2, <1>3, <3>2, <3>3
    <2>2. lot.dir \in Directions
      BY <1>1 DEF Lot
    <2> HIDE DEF lot
    <2> QED BY <2>1, <2>2 DEF Directions
  <1>8. trade.lot = lot /\ trade.pnl = pnl
    OBVIOUS
  <1> HIDE DEF lot, pnl, trade
  <1> QED BY <1>3, <1>4, <1>6, <1>7, <1>8

LEMMA ReplaceKeepsCashPositive ==
  ASSUME LedgerInv, NEW form \in [cash : FormCash, starting : Capitals, holdings : Portfolios],
         ReplaceAccountSnapshot(form)
  PROVE  ledger'.cash >= 0
  <1>1. PICK base \in Numberings(ledger, form.holdings) :
          ledger' = AfterReplace(ledger, form, base)
    BY DEF ReplaceAccountSnapshot
  <1>2. ledger'.cash = form.cash
    BY <1>1 DEF AfterReplace, LedgerInv, LedgerTypeOK
  <1>3. form.cash \in Nat
    BY CapitalAssumption
  <1> QED BY <1>2, <1>3

(* No purchase, no snapshot and no LONG exit takes cash below zero: only a   *)
(* losing SHORT does, at any prices and limits (storage.open_position,       *)
(* close_position).                                                          *)
THEOREM OnlyShortLossesOverdraw == LedgerSpec => OnlyShortLossOverdraws
  <1>1. LedgerInv /\ [LedgerNext]_ledger =>
          [(ledger'.cash < 0 /\ ledger'.cash < ledger.cash) =>
             \E t \in ledger'.closed \ ledger.closed : t.lot.dir = "SHORT" /\ t.pnl < 0]_ledger
    <2> SUFFICES ASSUME LedgerInv, LedgerNext, ledger'.cash < 0, ledger'.cash < ledger.cash
                 PROVE  \E t \in ledger'.closed \ ledger.closed :
                          t.lot.dir = "SHORT" /\ t.pnl < 0
      OBVIOUS
    <2>1. ledger'.cash \in Int
      BY LedgerNextInv DEF LedgerInv, LedgerTypeOK
    <2>2. CASE Open
      <3>1. ledger'.cash >= 0
        BY <2>2, OpenSpendsCash, AllocationAssumption DEF Open
      <3> QED BY <2>1, <3>1
    <2>3. CASE Close
      BY <2>3, CloseMovesCash DEF Close
    <2>4. CASE Replace
      <3>1. PICK c \in FormCash, k \in Capitals, hs \in Portfolios :
              ReplaceAccountSnapshot([cash |-> c, starting |-> k, holdings |-> hs])
        BY <2>4 DEF Replace
      <3>2. ledger'.cash >= 0
        BY <3>1, ReplaceKeepsCashPositive
      <3> QED BY <2>1, <3>2
    <2> QED BY <2>2, <2>3, <2>4 DEF LedgerNext
  <1> QED BY <1>1, LedgerInvariant, PTL DEF LedgerSpec, OnlyShortLossOverdraws

-----------------------------------------------------------------------------
(* The folds of the ledger are such sums.                                   *)
LEMMA AllocatedIsSum ==
  ASSUME NEW S, IsFiniteSet(S), NEW g, \A x \in S : g[x] = x.alloc
  PROVE  Allocated(S) = Sum(g, S)
  <1> DEFINE Fold(F) == F = [s \in SUBSET S |->
                IF s = {} THEN 0 ELSE Taken(s).alloc + F[s \ {Taken(s)}]]
  <1>1. Allocated(S) = (CHOOSE F : Fold(F))[S]
    BY DEF Allocated, MapThenSumSet, MapThenFoldSet, Taken
  <1>2. ASSUME NEW F
        PROVE  Fold(F) <=> Sums(g, S, F)
    <2>1. \A s \in SUBSET S : s # {} => g[Taken(s)] = Taken(s).alloc
      BY DEF Taken
    <2> QED BY <2>1 DEF Sums
  <1> HIDE DEF Fold
  <1>3. PICK F : Sums(g, S, F) /\ Sum(g, S) = F[S]
    BY SumIs
  <1>4. Fold(CHOOSE G : Fold(G))
    BY <1>2, <1>3
  <1>5. Sums(g, S, CHOOSE G : Fold(G))
    BY <1>2, <1>4
  <1> QED BY <1>1, <1>3, <1>5, SumsAgree

LEMMA RealizedIsSum ==
  ASSUME NEW S, IsFiniteSet(S), NEW g, \A x \in S : g[x] = x.pnl
  PROVE  Realized(S) = Sum(g, S)
  <1> DEFINE Fold(F) == F = [s \in SUBSET S |->
                IF s = {} THEN 0 ELSE Taken(s).pnl + F[s \ {Taken(s)}]]
  <1>1. Realized(S) = (CHOOSE F : Fold(F))[S]
    BY DEF Realized, MapThenSumSet, MapThenFoldSet, Taken
  <1>2. ASSUME NEW F
        PROVE  Fold(F) <=> Sums(g, S, F)
    <2>1. \A s \in SUBSET S : s # {} => g[Taken(s)] = Taken(s).pnl
      BY DEF Taken
    <2> QED BY <2>1 DEF Sums
  <1> HIDE DEF Fold
  <1>3. PICK F : Sums(g, S, F) /\ Sum(g, S) = F[S]
    BY SumIs
  <1>4. Fold(CHOOSE G : Fold(G))
    BY <1>2, <1>3
  <1>5. Sums(g, S, CHOOSE G : Fold(G))
    BY <1>2, <1>4
  <1> QED BY <1>1, <1>3, <1>5, SumsAgree

LEMMA WorthIsSum ==
  ASSUME NEW S, IsFiniteSet(S), NEW marks, NEW g, \A x \in S : g[x] = MarketValue(x, marks[x.ticker])
  PROVE  Worth(S, marks) = Sum(g, S)
  <1> DEFINE Fold(F) == F = [s \in SUBSET S |->
                IF s = {} THEN 0 ELSE MarketValue(Taken(s), marks[Taken(s).ticker]) + F[s \ {Taken(s)}]]
  <1>1. Worth(S, marks) = (CHOOSE F : Fold(F))[S]
    BY DEF Worth, MapThenSumSet, MapThenFoldSet, Taken
  <1>2. ASSUME NEW F
        PROVE  Fold(F) <=> Sums(g, S, F)
    <2>1. \A s \in SUBSET S : s # {} => g[Taken(s)] = MarketValue(Taken(s), marks[Taken(s).ticker])
      BY DEF Taken
    <2> QED BY <2>1 DEF Sums
  <1> HIDE DEF Fold
  <1>3. PICK F : Sums(g, S, F) /\ Sum(g, S) = F[S]
    BY SumIs
  <1>4. Fold(CHOOSE G : Fold(G))
    BY <1>2, <1>3
  <1>5. Sums(g, S, CHOOSE G : Fold(G))
    BY <1>2, <1>4
  <1> QED BY <1>1, <1>3, <1>5, SumsAgree

LEMMA UnrealizedIsSum ==
  ASSUME NEW S, IsFiniteSet(S), NEW marks, NEW g, \A x \in S : g[x] = UnrealizedPnl(x, marks[x.ticker])
  PROVE  Unrealized(S, marks) = Sum(g, S)
  <1> DEFINE Fold(F) == F = [s \in SUBSET S |->
                IF s = {} THEN 0 ELSE UnrealizedPnl(Taken(s), marks[Taken(s).ticker]) + F[s \ {Taken(s)}]]
  <1>1. Unrealized(S, marks) = (CHOOSE F : Fold(F))[S]
    BY DEF Unrealized, MapThenSumSet, MapThenFoldSet, Taken
  <1>2. ASSUME NEW F
        PROVE  Fold(F) <=> Sums(g, S, F)
    <2>1. \A s \in SUBSET S : s # {} => g[Taken(s)] = UnrealizedPnl(Taken(s), marks[Taken(s).ticker])
      BY DEF Taken
    <2> QED BY <2>1 DEF Sums
  <1> HIDE DEF Fold
  <1>3. PICK F : Sums(g, S, F) /\ Sum(g, S) = F[S]
    BY SumIs
  <1>4. Fold(CHOOSE G : Fold(G))
    BY <1>2, <1>3
  <1>5. Sums(g, S, CHOOSE G : Fold(G))
    BY <1>2, <1>4
  <1> QED BY <1>1, <1>3, <1>5, SumsAgree

LEMMA GrossIsSum ==
  ASSUME NEW S, IsFiniteSet(S), NEW marks, NEW g, \A x \in S : g[x] = Exposure(x, marks[x.ticker])
  PROVE  Gross(S, marks) = Sum(g, S)
  <1> DEFINE Fold(F) == F = [s \in SUBSET S |->
                IF s = {} THEN 0 ELSE Exposure(Taken(s), marks[Taken(s).ticker]) + F[s \ {Taken(s)}]]
  <1>1. Gross(S, marks) = (CHOOSE F : Fold(F))[S]
    BY DEF Gross, MapThenSumSet, MapThenFoldSet, Taken
  <1>2. ASSUME NEW F
        PROVE  Fold(F) <=> Sums(g, S, F)
    <2>1. \A s \in SUBSET S : s # {} => g[Taken(s)] = Exposure(Taken(s), marks[Taken(s).ticker])
      BY DEF Taken
    <2> QED BY <2>1 DEF Sums
  <1> HIDE DEF Fold
  <1>3. PICK F : Sums(g, S, F) /\ Sum(g, S) = F[S]
    BY SumIs
  <1>4. Fold(CHOOSE G : Fold(G))
    BY <1>2, <1>3
  <1>5. Sums(g, S, CHOOSE G : Fold(G))
    BY <1>2, <1>4
  <1> QED BY <1>1, <1>3, <1>5, SumsAgree

-----------------------------------------------------------------------------
(* The accounting identities *)

LEMMA AllocatedTakes ==
  ASSUME NEW S \in SUBSET Lot, IsFiniteSet(S)
  PROVE  /\ Allocated(S) \in Int
         /\ \A x \in S : Allocated(S) = x.alloc + Allocated(S \ {x})
  <1> DEFINE g == [x \in S |-> x.alloc]
  <1>1. \A x \in S : g[x] = x.alloc /\ g[x] \in Int
    BY DEF Lot
  <1> HIDE DEF g
  <1>2. Allocated(S) = Sum(g, S)
    BY <1>1, AllocatedIsSum
  <1>3. Sum(g, S) \in Int /\ \A x \in S : Sum(g, S) = g[x] + Sum(g, S \ {x})
    BY <1>1, SumTakes
  <1>4. ASSUME NEW x \in S
        PROVE  Allocated(S \ {x}) = Sum(g, S \ {x})
    <2>1. IsFiniteSet(S \ {x}) /\ \A y \in S \ {x} : g[y] = y.alloc
      BY <1>1, FS_RemoveElement
    <2> QED BY <2>1, AllocatedIsSum
  <1> QED BY <1>1, <1>2, <1>3, <1>4

LEMMA RealizedAdds ==
  ASSUME NEW S \in SUBSET Trade, IsFiniteSet(S), NEW t \in Trade, t \notin S
  PROVE  Realized(S) \in Int /\ Realized(S \cup {t}) = Realized(S) + t.pnl
  <1> DEFINE g == [x \in S \cup {t} |-> x.pnl]
  <1>1. \A x \in S \cup {t} : g[x] = x.pnl /\ g[x] \in Int
    BY DEF Trade
  <1> HIDE DEF g
  <1>2. IsFiniteSet(S \cup {t}) /\ (S \cup {t}) \ {t} = S
    BY FS_AddElement
  <1>3. Realized(S) = Sum(g, S) /\ Realized(S \cup {t}) = Sum(g, S \cup {t})
    BY <1>1, <1>2, RealizedIsSum
  <1>4. Sum(g, S) \in Int
    BY <1>1, SumTakes
  <1>5. Sum(g, S \cup {t}) = g[t] + Sum(g, (S \cup {t}) \ {t})
    BY <1>1, <1>2, SumTakes
  <1>6. g[t] = t.pnl /\ t.pnl \in Int
    BY <1>1
  <1>7. Realized(S \cup {t}) = t.pnl + Realized(S)
    BY <1>2, <1>3, <1>5, <1>6
  <1>8. Realized(S) \in Int
    BY <1>3, <1>4
  <1> QED BY <1>6, <1>7, <1>8

(* Every transaction commits only a ledger whose accounts agree.            *)
BooksInv == IsFiniteSet(ledger.open) /\ Consistent(ledger)

LEMMA BooksInit == LedgerInit => BooksInv
  <1> SUFFICES ASSUME LedgerInit PROVE BooksInv
    OBVIOUS
  <1>1. /\ ledger.open = {} /\ ledger.closed = {} /\ ledger.realized = 0
        /\ ledger.cash = ledger.starting /\ ledger.starting \in Nat \ {0}
    BY CapitalAssumption DEF LedgerInit
  <1>2. Allocated({}) = 0 /\ Realized({}) = 0
    <2> DEFINE g == [x \in {} |-> 0]
    <2>1. IsFiniteSet({}) /\ \A x \in {} : g[x] = x.alloc /\ g[x] = x.pnl
      BY FS_EmptySet
    <2> HIDE DEF g
    <2>2. Allocated({}) = Sum(g, {}) /\ Realized({}) = Sum(g, {})
      BY <2>1, AllocatedIsSum, RealizedIsSum
    <2> QED BY <2>2, SumOfNone
  <1>3. RowIntegrity(ledger)
    BY <1>1 DEF RowIntegrity
  <1>4. CashIdentity(ledger) /\ RealizedIdentity(ledger)
    BY <1>1, <1>2 DEF CashIdentity, RealizedIdentity
  <1> QED BY <1>1, <1>3, <1>4, FS_EmptySet DEF BooksInv, Consistent

LEMMA BooksOpen ==
  ASSUME LedgerInv, BooksInv, NEW t, NEW d, NEW p, NEW a, NEW m, OpenPosition(t, d, p, a, m)
  PROVE  BooksInv'
  <1>1. IsFiniteSet(ledger.open) /\ ledger \in LedgerRow
    BY DEF BooksInv, LedgerInv, LedgerTypeOK, LedgerRow
  <1> DEFINE lot == NewLot(ledger, t, d, p, a)
  <1>2. ledger'.open = ledger.open \cup {lot}
    BY <1>1 DEF OpenPosition, AfterOpen, LedgerRow
  <1> HIDE DEF lot
  <1>3. IsFiniteSet(ledger'.open)
    BY <1>1, <1>2, FS_AddElement
  <1> QED BY <1>3 DEF OpenPosition, BooksInv, Consistent,
            RowIntegrity, CashIdentity, RealizedIdentity

LEMMA BooksClose ==
  ASSUME LedgerInv, BooksInv, NEW id, NEW p, ClosePosition(id, p)
  PROVE  BooksInv'
  <1>1. IsFiniteSet(ledger.open) /\ ledger \in LedgerRow
    BY DEF BooksInv, LedgerInv, LedgerTypeOK, LedgerRow
  <1> DEFINE lot == OpenLot(ledger, id)
  <1>2. ledger'.open = ledger.open \ {lot}
    BY <1>1 DEF ClosePosition, AfterClose, LedgerRow
  <1> HIDE DEF lot
  <1>3. IsFiniteSet(ledger'.open)
    BY <1>1, <1>2, FS_RemoveElement
  <1> QED BY <1>3 DEF ClosePosition, BooksInv, Consistent,
            RowIntegrity, CashIdentity, RealizedIdentity

LEMMA BooksReplace ==
  ASSUME LedgerInv, NEW form, form.holdings \in Portfolios, ReplaceAccountSnapshot(form)
  PROVE  BooksInv'
  <1> DEFINE hs == form.holdings
  <1>1. ledger \in LedgerRow /\ IsFiniteSet(hs)
    BY CapitalAssumption DEF LedgerInv, LedgerTypeOK, LedgerRow
  <1>2. PICK base : ledger' = AfterReplace(ledger, form, base)
    BY DEF ReplaceAccountSnapshot
  <1>3. ledger'.open = HoldingLots(ledger, hs, base)
    BY <1>1, <1>2 DEF AfterReplace, LedgerRow
  <1> HIDE DEF hs
  <1> DEFINE lots == HoldingLots(ledger, hs, base)
             row == [h \in hs |-> [id |-> base[h], ticker |-> h.ticker, dir |-> h.dir,
                       entry |-> h.entry, qty |-> h.qty, alloc |-> h.entry * h.qty]]
  <1>4. row \in Surjection(hs, lots)
    BY DEF HoldingLots, Surjection
  <1> HIDE DEF row, lots
  <1>5. IsFiniteSet(lots)
    BY <1>1, <1>4, FS_Surjection
  <1> QED BY <1>3, <1>5 DEF ReplaceAccountSnapshot, BooksInv, Consistent,
            RowIntegrity, CashIdentity, RealizedIdentity, lots

LEMMA BooksStep ==
  ASSUME LedgerInv, BooksInv, LedgerNext PROVE BooksInv'
  <1>1. CASE Open
    BY <1>1, BooksOpen DEF Open
  <1>2. CASE Close
    BY <1>2, BooksClose DEF Close
  <1>3. CASE Replace
    <2>1. PICK c \in FormCash, k \in Capitals, hs \in Portfolios :
            ReplaceAccountSnapshot([cash |-> c, starting |-> k, holdings |-> hs])
      BY <1>3 DEF Replace
    <2> DEFINE form == [cash |-> c, starting |-> k, holdings |-> hs]
    <2>2. form.holdings \in Portfolios /\ ReplaceAccountSnapshot(form)
      BY <2>1
    <2> HIDE DEF form
    <2> QED BY <2>2, BooksReplace
  <1> QED BY <1>1, <1>2, <1>3 DEF LedgerNext

LEMMA BooksStutter == ASSUME BooksInv, UNCHANGED ledger PROVE BooksInv'
  BY DEF BooksInv, Consistent, RowIntegrity, CashIdentity, RealizedIdentity

(* What every action asserts before it commits, so it holds between actions; *)
(* the promises below need it as their hypothesis.                          *)
LEMMA BooksAlways == LedgerSpec => []BooksInv
  <1>1. LedgerInv /\ BooksInv /\ [LedgerNext]_ledger => BooksInv'
    BY BooksStep, BooksStutter
  <1> QED BY <1>1, BooksInit, LedgerInvariant, PTL DEF LedgerSpec

LEMMA CostIsSum ==
  ASSUME NEW S, IsFiniteSet(S), NEW g, \A h \in S : g[h] = h.entry * h.qty
  PROVE  Cost(S) = Sum(g, S)
  <1> DEFINE Fold(F) == F = [s \in SUBSET S |->
                IF s = {} THEN 0 ELSE Taken(s).entry * Taken(s).qty + F[s \ {Taken(s)}]]
  <1>1. Cost(S) = (CHOOSE F : Fold(F))[S]
    BY DEF Cost, MapThenSumSet, MapThenFoldSet, Taken
  <1>2. ASSUME NEW F
        PROVE  Fold(F) <=> Sums(g, S, F)
    <2>1. \A s \in SUBSET S : s # {} => g[Taken(s)] = Taken(s).entry * Taken(s).qty
      BY DEF Taken
    <2> QED BY <2>1 DEF Sums
  <1> HIDE DEF Fold
  <1>3. PICK F : Sums(g, S, F) /\ Sum(g, S) = F[S]
    BY SumIs
  <1>4. Fold(CHOOSE G : Fold(G))
    BY <1>2, <1>3
  <1>5. Sums(g, S, CHOOSE G : Fold(G))
    BY <1>2, <1>4
  <1> QED BY <1>1, <1>3, <1>5, SumsAgree

(* The lots of a form hold what its holdings cost, however the rows are     *)
(* numbered: different holdings become different lots.                      *)
LEMMA LotsCostTheirHoldings ==
  ASSUME NEW hs \in SUBSET Holding, IsFiniteSet(hs),
         NEW base \in Numberings(ledger, hs)
  PROVE  Allocated(HoldingLots(ledger, hs, base)) = Cost(hs)
  <1> DEFINE lots == HoldingLots(ledger, hs, base)
             cost == [h \in hs |-> h.entry * h.qty]
             row == [h \in hs |-> [id |-> base[h], ticker |-> h.ticker, dir |-> h.dir,
                       entry |-> h.entry, qty |-> h.qty, alloc |-> h.entry * h.qty]]
             of == [l \in lots |-> CHOOSE h \in hs : row[h] = l]
             alloc == [l \in lots |-> l.alloc]
  <1>1. row \in Surjection(hs, lots)
    BY DEF HoldingLots, Surjection
  <1>2. IsFiniteSet(lots)
    <2> HIDE DEF row, lots
    <2> QED BY <1>1, FS_Surjection
  <1>3. \A g, h \in hs : row[g] = row[h] => g = h
    <2>1. \A g, h \in hs : base[g] = base[h] => g = h
      BY DEF Numberings
    <2>2. \A h \in hs : row[h].id = base[h]
      OBVIOUS
    <2> HIDE DEF row
    <2> QED BY <2>1, <2>2
  <1>4. ASSUME NEW h \in hs
        PROVE  /\ row[h] \in lots /\ alloc[row[h]] = cost[h] /\ cost[h] \in Int
               /\ cost[h] = h.entry * h.qty
    <2>1. h.entry \in Nat /\ h.qty \in Nat
      BY PriceAssumption DEF Holding
    <2> QED BY <2>1 DEF HoldingLots
  <1>5. \A l \in lots : \E h \in hs : l = row[h]
    BY DEF HoldingLots
  <1>6. \A l \in lots : alloc[l] = l.alloc
    OBVIOUS
  <1>7. \A l \in lots : of[l] \in hs /\ row[of[l]] = l
    <2> HIDE DEF row
    <2> QED BY <1>5
  <1> HIDE DEF lots, cost, row, of, alloc
  <1>8. \A l \in lots : alloc[l] \in Int
    BY <1>4, <1>5
  <1>9. ASSUME NEW h \in hs
        PROVE  Sum(Part(alloc, of, lots, h), lots) = cost[h]
    <2> DEFINE p == Part(alloc, of, lots, h)
    <2>1. of[row[h]] = h
      BY <1>3, <1>4, <1>7
    <2>2. p[row[h]] = cost[h]
      BY <1>4, <2>1 DEF Part
    <2>3. \A l \in lots : l # row[h] => p[l] = 0
      BY <1>7 DEF Part
    <2> HIDE DEF p
    <2>4. Sum(p, lots) = p[row[h]]
      BY <1>2, <1>4, <2>2, <2>3, SumOfOne
    <2> QED BY <2>2, <2>4 DEF p
  <1>10. Sum([h \in hs |-> Sum(Part(alloc, of, lots, h), lots)], hs) = Sum(alloc, lots)
    BY <1>2, <1>7, <1>8, SumByClass
  <1> DEFINE parts == [h \in hs |-> Sum(Part(alloc, of, lots, h), lots)]
  <1>11. \A h \in hs : parts[h] = cost[h]
    BY <1>9
  <1>12. Sum(parts, hs) = Sum(alloc, lots)
    BY <1>10
  <1> HIDE DEF parts
  <1>13. Sum(parts, hs) = Sum(cost, hs)
    BY <1>11, SumSame
  <1>14. Allocated(lots) = Sum(alloc, lots)
    BY <1>2, <1>6, AllocatedIsSum
  <1>15. Cost(hs) = Sum(cost, hs)
    BY <1>4, CostIsSum
  <1> QED BY <1>12, <1>13, <1>14, <1>15 DEF lots

LEMMA PreviewAgrees ==
  ASSUME LedgerInv, BooksInv, NEW c \in FormCash, NEW k \in Capitals, NEW hs \in Portfolios,
         NEW form, form = [cash |-> c, starting |-> k, holdings |-> hs],
         NEW base \in Numberings(ledger, hs)
  PROVE  CanSave(ledger, form) <=> Consistent(AfterReplace(ledger, form, base))
  <1> DEFINE L == AfterReplace(ledger, form, base)
             lots == HoldingLots(ledger, hs, base)
  <1>1. /\ ledger \in LedgerRow /\ hs \in SUBSET Holding /\ IsFiniteSet(hs)
        /\ c \in Nat /\ k \in Nat \ {0}
    BY CapitalAssumption DEF LedgerInv, LedgerTypeOK, LedgerRow
  <1>2. form.cash = c /\ form.starting = k /\ form.holdings = hs
    OBVIOUS
  <1>3. /\ L.cash = c /\ L.starting = k /\ L.realized = ledger.realized
        /\ L.open = lots /\ L.closed = ledger.closed
    BY <1>1, <1>2 DEF AfterReplace, LedgerRow
  <1>4. Allocated(lots) = Cost(hs)
    BY <1>1, LotsCostTheirHoldings
  <1>5. ASSUME NEW l \in lots
        PROVE  l.entry > 0 /\ l.qty > 0 /\ l.alloc = l.entry * l.qty
    <2>1. PICK h \in hs : l = [id |-> base[h], ticker |-> h.ticker, dir |-> h.dir,
                                entry |-> h.entry, qty |-> h.qty, alloc |-> h.entry * h.qty]
      BY DEF HoldingLots
    <2>2. h.entry \in Nat \ {0} /\ h.qty \in Nat \ {0}
      BY <1>1, PriceAssumption DEF Holding
    <2> QED BY <2>1, <2>2
  <1>6. RowIntegrity(ledger) /\ RealizedIdentity(ledger)
    BY DEF BooksInv, Consistent
  <1> HIDE DEF L, lots
  <1>7. RowIntegrity(L)
    BY <1>3, <1>5, <1>6 DEF RowIntegrity
  <1>8. RealizedIdentity(L)
    BY <1>3, <1>6 DEF RealizedIdentity
  <1>9. CashIdentity(L) <=> CanSave(ledger, form)
    BY <1>2, <1>3, <1>4 DEF CashIdentity, CanSave
  <1> QED BY <1>1, <1>3, <1>7, <1>8, <1>9 DEF Consistent, L

(* A form is committed exactly when its preview, on the same ledger, would  *)
(* pass it, for any symbols, prices, forms, holdings and numberings         *)
(* (account_setup.preview_account_snapshot, storage.replace_account_        *)
(* snapshot).                                                               *)
THEOREM PreviewsPredictAudits == LedgerSpec => []PreviewPredictsAudit
  <1>1. LedgerInv /\ BooksInv => PreviewPredictsAudit
    BY PreviewAgrees DEF PreviewPredictsAudit
  <1> QED BY <1>1, LedgerInvariant, BooksAlways, PTL

LEMMA ClosesConsistently ==
  ASSUME LedgerInv, BooksInv, NEW l \in ledger.open, NEW p \in Prices
  PROVE  Consistent(AfterClose(ledger, l.id, p))
  <1> DEFINE pnl == Pnl(l.dir, l.entry, p, l.qty)
             trade == [id |-> NextTrade(ledger), lot |-> l, exit |-> p, pnl |-> pnl]
             L == AfterClose(ledger, l.id, p)
  <1>1. /\ ledger \in LedgerRow /\ l \in Lot /\ IsFiniteSet(ledger.open) /\ IsFiniteSet(ledger.closed)
        /\ ledger.open \in SUBSET Lot /\ ledger.closed \in SUBSET Trade
        /\ ledger.cash \in Int /\ ledger.starting \in Nat /\ ledger.realized \in Int
    BY DEF BooksInv, LedgerInv, LedgerTypeOK, LedgerRow, TradeIdsOK
  <1>2. OpenLot(ledger, l.id) = l
    BY DEF OpenLot, LedgerInv, LedgerTypeOK
  <1>3. pnl \in Int /\ l.alloc \in Int
    BY <1>1, PnlIsInt, PriceAssumption DEF Lot
  <1>4. trade \in Trade /\ trade \notin ledger.closed
    <2>1. Cardinality(ledger.closed) \in Nat /\ NextTrade(ledger) = Cardinality(ledger.closed) + 1
      BY <1>1, FS_CardinalityType DEF NextTrade
    <2> QED BY <1>1, <1>3, <2>1 DEF Trade, LedgerInv, TradeIdsOK
  <1>5. /\ L.starting = ledger.starting /\ L.open = ledger.open \ {l}
        /\ L.closed = ledger.closed \cup {trade}
        /\ L.cash = ledger.cash + l.alloc + pnl /\ L.realized = ledger.realized + pnl
    BY <1>1, <1>2 DEF AfterClose, LedgerRow
  <1>6. trade.lot = l /\ trade.pnl = pnl /\ trade.exit = p
    OBVIOUS
  <1>7. /\ ledger.starting > 0 /\ RowIntegrity(ledger)
        /\ CashIdentity(ledger) /\ RealizedIdentity(ledger)
    BY DEF BooksInv, Consistent
  <1>8. pnl = Pnl(l.dir, l.entry, p, l.qty)
    OBVIOUS
  <1> HIDE DEF pnl, trade, L
  <1>9. RowIntegrity(L)
    <2>1. L.open \cup {t.lot : t \in L.closed} \subseteq ledger.open \cup {t.lot : t \in ledger.closed}
      BY <1>5, <1>6
    <2>2. \A t \in L.closed : t.pnl = Pnl(t.lot.dir, t.lot.entry, t.exit, t.lot.qty)
      BY <1>5, <1>6, <1>7, <1>8 DEF RowIntegrity
    <2> QED BY <1>7, <2>1, <2>2 DEF RowIntegrity
  <1>10. CashIdentity(L)
    <2>1. /\ Allocated(ledger.open) = l.alloc + Allocated(ledger.open \ {l})
          /\ ledger.cash + Allocated(ledger.open) = ledger.starting + ledger.realized
      BY <1>1, <1>7, AllocatedTakes DEF CashIdentity
    <2>2. Allocated(ledger.open \ {l}) \in Int
      BY <1>1, AllocatedTakes, FS_RemoveElement
    <2> QED BY <1>1, <1>3, <1>5, <2>1, <2>2 DEF CashIdentity
  <1>11. RealizedIdentity(L)
    BY <1>1, <1>4, <1>5, <1>6, <1>7, RealizedAdds DEF RealizedIdentity
  <1> QED BY <1>5, <1>7, <1>9, <1>10, <1>11 DEF Consistent, L

(* No exit is ever rolled back by the accounting assertion at its end, at   *)
(* any price and after any history (storage.close_position).                *)
THEOREM ClosesAreNeverRefused == LedgerSpec => []CloseNeverRefused
  <1>1. LedgerInv /\ BooksInv => CloseNeverRefused
    BY ClosesConsistently DEF CloseNeverRefused
  <1> QED BY <1>1, LedgerInvariant, BooksAlways, PTL

(* A lot's worth is its cost and its profit so far.                         *)
LEMMA LotWorth ==
  ASSUME LedgerInv, BooksInv, NEW l \in ledger.open, l.dir = "LONG", NEW x \in Nat
  PROVE  MarketValue(l, x) = l.alloc + UnrealizedPnl(l, x)
  <1>1. l.entry \in Nat /\ l.qty \in Nat /\ l.alloc = l.entry * l.qty
    BY PriceAssumption DEF LedgerInv, LedgerTypeOK, Lot, BooksInv, Consistent, RowIntegrity
  <1>2. x * l.qty = l.entry * l.qty + (x - l.entry) * l.qty /\ l.qty * x = x * l.qty
    BY <1>1
  <1> QED BY <1>1, <1>2 DEF MarketValue, UnrealizedPnl, Pnl

LEMMA EquityAddsUp ==
  ASSUME LedgerInv, BooksInv PROVE EquityIdentity
  <1> SUFFICES ASSUME NEW marks \in [Tickers -> Prices],
                      NEW long, NEW short, long = {l \in ledger.open : l.dir = "LONG"},
                      short = ledger.open \ long
               PROVE  ledger.cash + Worth(long, marks) + Allocated(short) + Unrealized(short, marks)
                        = ledger.starting + ledger.realized + Unrealized(ledger.open, marks)
    BY DEF EquityIdentity
  <1> DEFINE alloc == [l \in ledger.open |-> l.alloc]
             gain == [l \in ledger.open |-> UnrealizedPnl(l, marks[l.ticker])]
             worth == [l \in long |-> MarketValue(l, marks[l.ticker])]
  <1>1. /\ ledger.open \in SUBSET Lot /\ IsFiniteSet(ledger.open)
        /\ ledger.cash \in Int /\ ledger.starting \in Int /\ ledger.realized \in Int
    BY DEF LedgerInv, LedgerTypeOK, BooksInv
  <1>2. /\ long \subseteq ledger.open /\ short \subseteq ledger.open
        /\ long \cup short = ledger.open /\ long \cap short = {}
    OBVIOUS
  <1>3. IsFiniteSet(long) /\ IsFiniteSet(short)
    BY <1>1, <1>2, FS_Subset
  <1>4. ASSUME NEW l \in ledger.open
        PROVE  /\ alloc[l] = l.alloc /\ alloc[l] \in Int
               /\ gain[l] = UnrealizedPnl(l, marks[l.ticker]) /\ gain[l] \in Int
    <2>1. l \in Lot /\ marks[l.ticker] \in Nat
      BY <1>1, PriceAssumption DEF Lot
    <2>2. UnrealizedPnl(l, marks[l.ticker]) \in Int
      BY <2>1, PnlIsInt, PriceAssumption DEF Lot, UnrealizedPnl
    <2> QED BY <2>1, <2>2 DEF Lot
  <1>5. ASSUME NEW l \in long
        PROVE  /\ worth[l] = MarketValue(l, marks[l.ticker])
               /\ worth[l] = alloc[l] + gain[l]
    <2>1. l \in ledger.open /\ l.dir = "LONG" /\ marks[l.ticker] \in Nat
      BY <1>1, PriceAssumption DEF Lot
    <2> QED BY <1>4, <2>1, LotWorth
  <1> HIDE DEF alloc, gain, worth
  <1>6. /\ Worth(long, marks) = Sum(worth, long)
        /\ Allocated(short) = Sum(alloc, short) /\ Allocated(ledger.open) = Sum(alloc, ledger.open)
        /\ Unrealized(short, marks) = Sum(gain, short)
        /\ Unrealized(ledger.open, marks) = Sum(gain, ledger.open)
    <2>1. Worth(long, marks) = Sum(worth, long)
      BY <1>3, <1>5, WorthIsSum
    <2>2. Allocated(short) = Sum(alloc, short) /\ Allocated(ledger.open) = Sum(alloc, ledger.open)
      BY <1>1, <1>2, <1>3, <1>4, AllocatedIsSum
    <2>3. \A l \in short : gain[l] = UnrealizedPnl(l, marks[l.ticker])
      BY <1>2, <1>4
    <2>4. Unrealized(short, marks) = Sum(gain, short)
      BY <1>3, <2>3, UnrealizedIsSum
    <2>5. Unrealized(ledger.open, marks) = Sum(gain, ledger.open)
      BY <1>1, <1>4, UnrealizedIsSum
    <2> QED BY <2>1, <2>2, <2>4, <2>5
  <1>7. Sum(worth, long) = Sum(alloc, long) + Sum(gain, long)
    BY <1>2, <1>3, <1>4, <1>5, SumPlus
  <1>8. /\ Sum(alloc, long \cup short) = Sum(alloc, long) + Sum(alloc, short)
        /\ Sum(gain, long \cup short) = Sum(gain, long) + Sum(gain, short)
    BY <1>2, <1>3, <1>4, SumSplit
  <1>9. /\ Sum(alloc, long) \in Int /\ Sum(alloc, short) \in Int
        /\ Sum(gain, long) \in Int /\ Sum(gain, short) \in Int
    BY <1>2, <1>3, <1>4, SumTakes
  <1>10. ledger.cash + Sum(alloc, ledger.open) = ledger.starting + ledger.realized
    BY <1>6 DEF BooksInv, Consistent, CashIdentity
  <1>11. /\ Sum(alloc, ledger.open) = Sum(alloc, long) + Sum(alloc, short)
         /\ Sum(gain, ledger.open) = Sum(gain, long) + Sum(gain, short)
    BY <1>2, <1>8
  <1>12. ledger.cash + (Sum(alloc, long) + Sum(alloc, short)) = ledger.starting + ledger.realized
    BY <1>10, <1>11
  <1> DEFINE allocLong == Sum(alloc, long)
             gainLong == Sum(gain, long)
             worthLong == Worth(long, marks)
             allocShort == Allocated(short)
             gainShort == Unrealized(short, marks)
             gainAll == Unrealized(ledger.open, marks)
  <1>13. /\ worthLong = allocLong + gainLong /\ gainAll = gainLong + gainShort
         /\ ledger.cash + (allocLong + allocShort) = ledger.starting + ledger.realized
         /\ {allocLong, gainLong, allocShort, gainShort} \subseteq Int
    BY <1>6, <1>7, <1>9, <1>11, <1>12
  <1> HIDE DEF allocLong, gainLong, worthLong, allocShort, gainShort, gainAll
  <1>14. ledger.cash + worthLong + allocShort + gainShort
           = ledger.starting + ledger.realized + gainAll
    BY <1>1, <1>13
  <1> QED BY <1>14 DEF worthLong, allocShort, gainShort, gainAll

(* Equity added up from its parts is equity added up from profit, whatever  *)
(* the marks, for any number of lots (portfolio.py, the audit panel).       *)
THEOREM EquityIsOne == LedgerSpec => []EquityIdentity
  <1>1. LedgerInv /\ BooksInv => EquityIdentity
    BY EquityAddsUp
  <1> QED BY <1>1, LedgerInvariant, BooksAlways, PTL
-----------------------------------------------------------------------------
(* Exposure *)

LEMMA MarkIsPrice ==
  ASSUME NEW m \in Marks, NEW t \in DOMAIN m PROVE m[t] \in Prices /\ m[t] \in Nat \ {0}
  <1>1. PICK D \in SUBSET Tickers : m \in [D -> Prices]
    BY DEF Marks
  <1> QED BY <1>1, PriceAssumption

LEMMA GrossAdds ==
  ASSUME NEW S \in SUBSET Lot, IsFiniteSet(S), NEW m \in Marks, Priced(S, m),
         NEW lot \in Lot, lot \notin S, lot.ticker \in DOMAIN m
  PROVE  /\ Gross(S, m) \in Int
         /\ Gross(S \cup {lot}, m) = Gross(S, m) + Exposure(lot, m[lot.ticker])
  <1> DEFINE g == [x \in S \cup {lot} |-> Exposure(x, m[x.ticker])]
  <1>1. ASSUME NEW x \in S \cup {lot}
        PROVE  g[x] = Exposure(x, m[x.ticker]) /\ g[x] \in Int
    <2>1. x \in Lot /\ x.ticker \in DOMAIN m
      BY DEF Priced
    <2>2. m[x.ticker] \in Nat /\ x.qty \in Nat
      BY <2>1, MarkIsPrice DEF Lot
    <2> QED BY <2>2 DEF Exposure
  <1> HIDE DEF g
  <1>2. IsFiniteSet(S \cup {lot}) /\ (S \cup {lot}) \ {lot} = S
    BY FS_AddElement
  <1>3. Gross(S, m) = Sum(g, S) /\ Gross(S \cup {lot}, m) = Sum(g, S \cup {lot})
    BY <1>1, <1>2, GrossIsSum
  <1>4. Sum(g, S) \in Int
    BY <1>1, SumTakes
  <1>5. Sum(g, S \cup {lot}) = g[lot] + Sum(g, (S \cup {lot}) \ {lot})
    BY <1>1, <1>2, SumTakes
  <1>6. g[lot] = Exposure(lot, m[lot.ticker]) /\ g[lot] \in Int
    BY <1>1
  <1>7. Gross(S \cup {lot}, m) = Exposure(lot, m[lot.ticker]) + Gross(S, m)
    BY <1>2, <1>3, <1>5, <1>6
  <1>8. Gross(S, m) \in Int /\ Exposure(lot, m[lot.ticker]) \in Int
    BY <1>3, <1>4, <1>6
  <1> QED BY <1>7, <1>8

(* A purchase leaves the book within the capacity, and the symbol's LONG    *)
(* lots within their cap, at the quotes it was made with.                   *)
PurchaseFits(t, m) ==
  LET bought == {l \in ledger'.open : l.dir = "LONG" /\ l.ticker = t}
  IN /\ Priced(ledger'.open, m)
     /\ Gross(ledger'.open, m) <= ledger'.starting
     /\ Gross(bought, m) <= MaxPositionValue

LEMMA OpenFits ==
  ASSUME LedgerInv, BooksInv, NEW t \in Tickers, NEW m \in Marks, t \in DOMAIN m,
         NEW a \in Nat \ {0}, OpenPosition(t, "LONG", m[t], a, m)
  PROVE  PurchaseFits(t, m)
  <1> DEFINE lot == NewLot(ledger, t, "LONG", m[t], a)
             same == {l \in ledger.open : l.ticker = t /\ l.dir = "LONG"}
             bought == {l \in ledger'.open : l.dir = "LONG" /\ l.ticker = t}
  <1>1. /\ ledger \in LedgerRow /\ ledger.open \in SUBSET Lot /\ IsFiniteSet(ledger.open)
        /\ ledger.starting \in Nat
    BY DEF BooksInv, LedgerInv, LedgerTypeOK, LedgerRow
  <1>0. m[t] \in Prices /\ m[t] \in Nat \ {0}
    BY MarkIsPrice
  <1>2. /\ lot \in Lot /\ lot.ticker = t /\ lot.dir = "LONG" /\ lot.entry = m[t] /\ lot.alloc = a
        /\ lot.id = ledger.next
    <2>1. a \div m[t] \in Nat /\ ledger.next \in Nat \ {0}
      BY <1>0, QuantityIsNat DEF LedgerInv, LedgerTypeOK
    <2> QED BY <1>0, <2>1 DEF NewLot, Lot, Directions
  <1>3. ledger'.open = ledger.open \cup {lot} /\ ledger'.starting = ledger.starting
    BY <1>1 DEF OpenPosition, AfterOpen, LedgerRow
  <1> HIDE DEF lot
  <1>4. lot \notin ledger.open
    BY <1>2 DEF LedgerInv, LedgerTypeOK
  <1>5. Exposure(lot, m[t]) = a
    <2>1. lot.alloc = lot.entry * lot.qty
      BY <1>3 DEF OpenPosition, Consistent, RowIntegrity
    <2>2. lot.qty \in Nat
      BY <1>2 DEF Lot
    <2> QED BY <1>0, <1>2, <2>1, <2>2 DEF Exposure
  <1>6. Priced(ledger.open, m) /\ a <= Remaining(ledger, m) /\ Gross(same, m) + a <= MaxPositionValue
    BY DEF OpenPosition, OpenAllowed
  <1>7. bought = same \cup {lot}
    BY <1>2, <1>3
  <1>8. same \in SUBSET Lot /\ IsFiniteSet(same) /\ Priced(same, m) /\ lot \notin same
    BY <1>1, <1>4, <1>6, FS_Subset DEF Priced
  <1> HIDE DEF same, bought
  <1>9. /\ Gross(ledger.open, m) \in Int
        /\ Gross(ledger'.open, m) = Gross(ledger.open, m) + a
    BY <1>1, <1>2, <1>3, <1>4, <1>5, <1>6, GrossAdds
  <1>10. Gross(bought, m) = Gross(same, m) + a
    BY <1>2, <1>5, <1>7, <1>8, GrossAdds
  <1>11. Gross(ledger'.open, m) <= ledger'.starting
    <2>1. Remaining(ledger, m) = IF ledger.starting - Gross(ledger.open, m) > 0
                                 THEN ledger.starting - Gross(ledger.open, m) ELSE 0
      BY DEF Remaining
    <2> DEFINE e == Gross(ledger.open, m)
    <2>2. e \in Int /\ a \in Nat \ {0} /\ ledger.starting \in Nat
          /\ a <= (IF ledger.starting - e > 0 THEN ledger.starting - e ELSE 0)
      BY <1>1, <1>6, <1>9, <2>1
    <2> HIDE DEF e
    <2>3. e + a <= ledger.starting
      BY <2>2
    <2> QED BY <1>3, <1>9, <2>3 DEF e
  <1>12. Gross(bought, m) <= MaxPositionValue
    BY <1>6, <1>10
  <1>13. Priced(ledger'.open, m)
    BY <1>2, <1>3, <1>6 DEF Priced
  <1> QED BY <1>11, <1>12, <1>13 DEF PurchaseFits, bought
=============================================================================
