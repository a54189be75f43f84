------------------------ MODULE PlanExecutionProofs ------------------------
(* Proofs about sessions sharing the ledger and its plans: what a plan's    *)
(* recommendation can and cannot do, for any number of sessions, plans and  *)
(* lots, any prices and any interleaving.                                   *)
EXTENDS PlanExecution, PaperLedgerProofs

OnRow == {"chosen", "loaded", "claimed", "quoted", "traded", "failed"}
Claiming == {"claimed", "quoted", "traded", "failed"}
Untraded == {"claimed", "quoted", "failed"}

(* The lots whose ids are remembered somewhere. *)
PlannedLots == UNION {plans[p].lots : p \in 1 .. Len(plans)}
ScannedLots == UNION {read[s].lots : s \in {x \in Sessions : pc[x] = "scanning"}}
Known == ledger.open \union PlannedLots \union ScannedLots

WorkInv ==
  \A s \in Sessions :
    /\ pc[s] \in OnRow => rec[s] \in Rows
    /\ pc[s] = "ordered" => rec[s] \in Row
    /\ pc[s] \in {"quoted", "ordered"} =>
         marks[s] \in Marks /\ rec[s].ticker \in DOMAIN marks[s]

(* A remembered id means one lot, and is never handed out again. *)
KnownInv ==
  /\ \A l \in Known : l.id < ledger.next
  /\ \A k, l \in Known : k.id = l.id => k = l

RowInv ==
  \A r \in Rows :
    /\ r.plan \in 1 .. Len(plans)
    /\ r.action # "BUY" => r.lot \in plans[r.plan].lots

(* A claim is EXECUTING and held by one session. *)
ClaimInv ==
  /\ \A s \in Sessions : pc[s] \in Claiming => status[rec[s]] = "EXECUTING"
  /\ \A s, u \in Sessions :
       (pc[s] \in Claiming /\ pc[u] \in Claiming /\ rec[s] = rec[u]) => s = u

TradeInv ==
  /\ \A a \in recorded : a.row \in Rows /\ status[a.row] \in {"EXECUTING", "EXECUTED"}
  /\ \A s \in Sessions : pc[s] \in Untraded => \A a \in recorded : a.row # rec[s]
  /\ \A s \in Sessions : pc[s] = "traded" => \E a \in recorded : a.row = rec[s]
  /\ \A r \in Rows : status[r] = "EXECUTED" => \E a \in recorded : a.row = r
  /\ OneTradePerRecommendation

(* A chosen row of a plan that is still latest and unflagged was chosen on  *)
(* the book the ledger still has.                                           *)
BookInv ==
  \A s \in Sessions :
    (/\ pc[s] = "chosen" /\ rec[s].plan = Len(plans)
     /\ ~plans[Len(plans)].flagged) =>
       /\ plans[Len(plans)].cash = ledger.cash
       /\ plans[Len(plans)].lots = ledger.open

IInv ==
  /\ TypeOK /\ TradeIdsOK /\ WorkInv /\ KnownInv /\ RowInv
  /\ ClaimInv /\ TradeInv /\ ExitClosesReviewedLot /\ BookInv /\ BooksInv

-----------------------------------------------------------------------------
LEMMA InitIInv == Init => IInv
  <1> SUFFICES ASSUME Init PROVE IInv
    OBVIOUS
  <1>1. LedgerInv /\ ledger.open = {} /\ ledger.closed = {}
    BY LedgerInitInv DEF Init, LedgerInit
  <1>2. plans \in Seq(Plan) /\ Len(plans) = 0 /\ Rows = {}
    BY DEF Init, Rows
  <1>3. \A s \in Sessions : pc[s] = "idle" /\ ReadTypeOK(s)
    BY DEF Init, ReadTypeOK
  <1>4. TypeOK
    BY <1>1, <1>2, <1>3 DEF Init, TypeOK, Rows, LedgerInv, States
  <1>5. KnownInv
    BY <1>1, <1>2, <1>3 DEF KnownInv, Known, PlannedLots, ScannedLots
  <1>6. WorkInv /\ RowInv /\ ClaimInv /\ BookInv
    BY <1>2, <1>3 DEF WorkInv, RowInv, ClaimInv, BookInv, OnRow, Claiming
  <1>7. TradeInv /\ ExitClosesReviewedLot
    BY <1>2, <1>3 DEF Init, TradeInv, ExitClosesReviewedLot, OneTradePerRecommendation, Untraded
  <1>8. BooksInv
    BY BooksInit DEF Init
  <1> QED BY <1>1, <1>4, <1>5, <1>6, <1>7, <1>8 DEF IInv, LedgerInv

(* Ledger transactions of a session: the ledger invariants survive and ids  *)
(* grow; a step that changes the ledger flags the latest plan.              *)
LEMMA TradeMoves ==
  ASSUME TypeOK, TradeIdsOK, WorkInv, NEW s \in Sessions,
         pc[s] \in {"quoted", "ordered"},
         OpenByRow(rec[s], marks[s]) \/ CloseByRow(rec[s], marks[s])
  PROVE  LedgerInv' /\ LedgerGrows /\ FlagLatest
  <1> DEFINE r == rec[s]  m == marks[s]
  <1>1. LedgerInv
    BY DEF TypeOK, LedgerInv
  <1>2. r \in Row /\ m \in Marks /\ r.ticker \in DOMAIN m
    BY DEF WorkInv, TypeOK, OnRow
  <1>3. m[r.ticker] \in Prices
    BY <1>2 DEF Marks
  <1>4. r.ticker \in Tickers /\ r.alloc \in Nat \ {0}
    BY <1>2 DEF Row
  <1>5. CASE OpenByRow(r, m)
    BY <1>1, <1>3, <1>4, <1>5, OpenStep DEF OpenByRow, Directions
  <1>6. CASE CloseByRow(r, m)
    BY <1>1, <1>3, <1>6, CloseStep DEF CloseByRow
  <1> QED BY <1>5, <1>6

LEMMA SnapshotMoves ==
  ASSUME TypeOK, TradeIdsOK, NEW s \in Sessions, ApplySnapshot(s)
  PROVE  LedgerInv' /\ LedgerGrows /\ FlagLatest
  <1>1. LedgerInv /\ read[s] \in Form
    BY DEF TypeOK, LedgerInv, ApplySnapshot, ReadTypeOK
  <1> QED BY <1>1, ReplaceStep DEF ApplySnapshot, Form

LEMMA LedgerMoves ==
  ASSUME TypeOK, TradeIdsOK, WorkInv, NEW s \in Sessions, Step(s)
  PROVE  /\ LedgerInv' /\ LedgerGrows
         /\ ledger' = ledger \/ FlagLatest
  <1>1. CASE UNCHANGED ledger
    <2>1. LedgerInv
      BY DEF TypeOK, LedgerInv
    <2> QED BY <1>1, <2>1, LedgerStutter DEF LedgerGrows, LedgerInv, LedgerTypeOK
  <1>2. CASE RecordTrade(s)
    BY <1>2, TradeMoves DEF RecordTrade, GoTo
  <1>3. CASE CommitOrder(s)
    BY <1>3, TradeMoves DEF CommitOrder
  <1>4. CASE ApplySnapshot(s)
    BY <1>4, SnapshotMoves
  <1> QED BY <1>1, <1>2, <1>3, <1>4
       DEF Step, Execute, ReadAccount, ReadHoldings, SavePlan, Choose, Dismiss,
           LoadRecommendation, Claim, FetchSnapshot, TradeFails, ReleaseClaim, Finish,
           PlaceOrder, PreviewSnapshot, Drop, Abandon

(* Saved plans: none is dropped or rewritten, only SavePlan appends one,    *)
(* and a step that flags leaves the latest flagged.                         *)
LEMMA FlagMoves ==
  ASSUME plans \in Seq(Plan), FlagLatest
  PROVE  /\ plans' \in Seq(Plan) /\ Len(plans') = Len(plans)
         /\ \A p \in 1 .. Len(plans) :
              /\ plans'[p].lots = plans[p].lots /\ plans'[p].cash = plans[p].cash
              /\ plans[p].flagged => plans'[p].flagged
         /\ plans # <<>> => plans'[Len(plans)].flagged
  <1>1. CASE plans = <<>>
    BY <1>1 DEF FlagLatest
  <1>2. CASE plans # <<>>
    <2> DEFINE n == Len(plans)
    <2>1. n \in 1 .. n /\ n \in Nat /\ plans[n] \in Plan
      BY <1>2
    <2>2. plans' = [plans EXCEPT ![n] = [plans[n] EXCEPT !.flagged = TRUE]]
      BY <1>2 DEF FlagLatest, Latest
    <2>3. [plans[n] EXCEPT !.flagged = TRUE] \in Plan
      BY <2>1 DEF Plan
    <2>4. plans' \in Seq(Plan) /\ Len(plans') = n
      BY <2>1, <2>2, <2>3
    <2>5. plans'[n].flagged /\ plans'[n].lots = plans[n].lots /\ plans'[n].cash = plans[n].cash
      BY <2>1, <2>2 DEF Plan
    <2>6. \A p \in 1 .. n : p # n => plans'[p] = plans[p]
      BY <2>2
    <2> QED BY <2>4, <2>5, <2>6
  <1> QED BY <1>1, <1>2

LEMMA SaveMoves ==
  ASSUME TypeOK, NEW s \in Sessions, SavePlan(s)
  PROVE  /\ plans' \in Seq(Plan) /\ Len(plans') = Len(plans) + 1
         /\ \A p \in 1 .. Len(plans) : plans'[p] = plans[p]
         /\ plans'[Len(plans')].lots = read[s].lots
         /\ \E rows \in Proposals(Len(plans) + 1, read[s].lots) :
              status' = [r \in Rows \union rows |-> IF r \in Rows THEN status[r] ELSE "OPEN"]
  <1> DEFINE plan == [flagged |-> FALSE, cash |-> read[s].cash,
                      starting |-> read[s].starting, lots |-> read[s].lots]
  <1>1. plan \in Plan /\ plan.lots = read[s].lots
    BY DEF TypeOK, ReadTypeOK, SavePlan, Plan
  <1>2. plans \in Seq(Plan) /\ plans' = Append(plans, plan)
    BY DEF TypeOK, SavePlan
  <1> HIDE DEF plan
  <1>3. /\ plans' \in Seq(Plan) /\ Len(plans') = Len(plans) + 1
        /\ \A p \in 1 .. Len(plans) : plans'[p] = plans[p]
        /\ plans'[Len(plans')] = plan
    BY <1>1, <1>2
  <1> QED BY <1>1, <1>3 DEF SavePlan, Latest

LEMMA PlanMoves ==
  ASSUME TypeOK, TradeIdsOK, WorkInv, NEW s \in Sessions, Step(s)
  PROVE  /\ plans' \in Seq(Plan)
         /\ \/ plans' = plans
            \/ FlagLatest /\ Len(plans') = Len(plans)
            \/ SavePlan(s) /\ Len(plans') = Len(plans) + 1
         /\ \A p \in 1 .. Len(plans) :
              /\ plans'[p].lots = plans[p].lots /\ plans'[p].cash = plans[p].cash
              /\ plans[p].flagged => plans'[p].flagged
  <1>0. plans \in Seq(Plan)
    BY DEF TypeOK
  <1>1. CASE UNCHANGED plans
    BY <1>0, <1>1
  <1>2. CASE FlagLatest
    BY <1>0, <1>2, FlagMoves
  <1>3. CASE SavePlan(s)
    BY <1>3, SaveMoves
  <1> QED BY <1>1, <1>2, <1>3
       DEF Step, Execute, ReadAccount, ReadHoldings, Choose, Dismiss,
           LoadRecommendation, Claim, FetchSnapshot, TradeFails, ReleaseClaim, Finish,
           PlaceOrder, PreviewSnapshot, Drop, Abandon, RecordTrade, CommitOrder,
           ApplySnapshot, OpenByRow, CloseByRow

-----------------------------------------------------------------------------
(* The rows a plan can save. *)
LEMMA BuyRowType ==
  ASSUME NEW p \in Nat, NEW t \in Tickers, NEW a \in Allocations
  PROVE  BuyRow(p, t, a) \in Row /\ BuyRow(p, t, a).plan = p /\ BuyRow(p, t, a).action = "BUY"
  <1>1. a \in Nat \ {0}
    BY AllocationAssumption
  <1> QED BY <1>1 DEF BuyRow, Row, Actions

LEMMA HoldingRowType ==
  ASSUME NEW p \in Nat, NEW act \in {"REVIEW EXIT", "KEEP"}, NEW l \in Lot
  PROVE  /\ HoldingRow(p, act, l) \in Row
         /\ HoldingRow(p, act, l).plan = p /\ HoldingRow(p, act, l).lot = l
  <1>1. l.ticker \in Tickers /\ l.alloc \in Nat \ {0}
    BY DEF Lot
  <1> QED BY <1>1 DEF HoldingRow, Row, Actions

LEMMA BuyListRows ==
  ASSUME NEW p \in Nat, NEW buys \in BuyLists(p), NEW r \in buys
  PROVE  r \in Row /\ r.plan = p /\ r.action = "BUY"
  <1>1. PICK t \in Tickers, a \in Allocations : r = BuyRow(p, t, a)
    BY DEF BuyLists, BuyRows
  <1> QED BY <1>1, BuyRowType

LEMMA ReviewRows ==
  ASSUME NEW p \in Nat, NEW lots \in SUBSET Lot, NEW rows \in Reviews(p, lots), NEW r \in rows
  PROVE  r \in Row /\ r.plan = p /\ r.lot \in lots
  <1>1. \A act \in {"REVIEW EXIT", "KEEP"}, l \in lots :
          LET h == HoldingRow(p, act, l) IN h \in Row /\ h.plan = p /\ h.lot \in lots
    BY HoldingRowType
  <1>2. \E act \in {"REVIEW EXIT", "KEEP"}, l \in lots : r = HoldingRow(p, act, l)
    <2>1. PICK review \in [lots -> {"REVIEW EXIT", "KEEP"}] :
            rows = {HoldingRow(p, review[l], l) : l \in lots}
      BY DEF Reviews
    <2>2. PICK l \in lots : r = HoldingRow(p, review[l], l)
      BY <2>1
    <2> QED BY <2>2
  <1> QED BY <1>1, <1>2

LEMMA ProposalRows ==
  ASSUME NEW p \in Nat, NEW lots \in SUBSET Lot, NEW rows \in Proposals(p, lots)
  PROVE  /\ rows \subseteq Row
         /\ \A r \in rows : r.plan = p /\ (r.action # "BUY" => r.lot \in lots)
  <1>1. PICK buys \in BuyLists(p), held \in Reviews(p, lots) : rows = buys \union held
    BY DEF Proposals
  <1> QED BY <1>1, BuyListRows, ReviewRows

(* A step changes the status of at most one row, and only SavePlan adds rows. *)
LEMMA StatusMoves ==
  ASSUME TypeOK, RowInv, WorkInv, NEW s \in Sessions, Step(s)
  PROVE  /\ Rows \subseteq Rows' /\ Rows' \subseteq Row
         /\ status' \in [Rows' -> {"OPEN", "EXECUTING", "EXECUTED", "DISMISSED"}]
         /\ \A r \in Rows' \ Rows :
              /\ status'[r] = "OPEN" /\ SavePlan(s) /\ r.plan = Len(plans')
              /\ r.action # "BUY" => r.lot \in plans'[r.plan].lots
         /\ \A r \in Rows : r # rec[s] => status'[r] = status[r]
  <1>0. status \in [Rows -> {"OPEN", "EXECUTING", "EXECUTED", "DISMISSED"}] /\ Rows \subseteq Row
    BY DEF TypeOK
  <1>1. CASE UNCHANGED status
    BY <1>0, <1>1 DEF Rows
  <1>2. CASE \E v \in {"EXECUTING", "EXECUTED", "DISMISSED", "OPEN"} :
               status' = [status EXCEPT ![rec[s]] = v]
    BY <1>0, <1>2 DEF Rows
  <1>3. CASE SavePlan(s)
    <2>1. PICK rows \in Proposals(Len(plans) + 1, read[s].lots) :
            status' = [r \in Rows \union rows |-> IF r \in Rows THEN status[r] ELSE "OPEN"]
      BY <1>3, SaveMoves
    <2>2. Len(plans) + 1 \in Nat /\ read[s].lots \in SUBSET Lot
      <3>1. plans \in Seq(Plan) /\ ReadTypeOK(s) /\ pc[s] = "scanning"
        BY <1>3 DEF TypeOK, SavePlan
      <3>2. read[s].lots \in SUBSET Lot
        BY <3>1 DEF ReadTypeOK
      <3>3. Len(plans) \in Nat
        BY <3>1
      <3> QED BY <3>2, <3>3
    <2>3. /\ rows \subseteq Row
          /\ \A r \in rows : r.plan = Len(plans) + 1 /\ (r.action # "BUY" => r.lot \in read[s].lots)
      BY <2>2, ProposalRows
    <2>4. Rows' = Rows \union rows
      BY <2>1 DEF Rows
    <2>5. Len(plans') = Len(plans) + 1 /\ plans'[Len(plans')].lots = read[s].lots
      BY <1>3, SaveMoves
    <2> QED BY <1>0, <1>3, <2>1, <2>3, <2>4, <2>5
  <1> QED BY <1>1, <1>2, <1>3
       DEF Step, Execute, ReadAccount, ReadHoldings, Choose, Dismiss,
           LoadRecommendation, Claim, FetchSnapshot, TradeFails, ReleaseClaim, Finish,
           PlaceOrder, PreviewSnapshot, Drop, Abandon, RecordTrade, CommitOrder,
           ApplySnapshot

-----------------------------------------------------------------------------
(* The sessions' own variables. *)

LEMMA QuotesAreMarks ==
  ASSUME TypeOK, NEW t \in Tickers, NEW m \in Quotes(t)
  PROVE  m \in Marks /\ t \in DOMAIN m
  <1> DEFINE D == {t} \union {l.ticker : l \in ledger.open}
  <1>1. \A l \in ledger.open : l.ticker \in Tickers
    BY DEF TypeOK, LedgerTypeOK, Lot
  <1>2. D \in SUBSET Tickers
    BY <1>1
  <1>3. m \in [D -> Prices]
    BY DEF Quotes
  <1> HIDE DEF D
  <1>4. m \in Marks /\ DOMAIN m = D
    BY <1>2, <1>3 DEF Marks
  <1> QED BY <1>4 DEF D

(* Sessions other than the one that steps keep what they hold. *)
LEMMA OthersKeep ==
  ASSUME TypeOK, NEW s \in Sessions, Step(s), NEW u \in Sessions, u # s
  PROVE  pc'[u] = pc[u] /\ read'[u] = read[u] /\ rec'[u] = rec[u] /\ marks'[u] = marks[u]
  BY DEF TypeOK, Step, Execute, ReadAccount, ReadHoldings, SavePlan, Choose, Dismiss,
         LoadRecommendation, Claim, FetchSnapshot, TradeFails, ReleaseClaim, Finish,
         PlaceOrder, PreviewSnapshot, Drop, Abandon, RecordTrade, CommitOrder,
         ApplySnapshot, GoTo, Idle

(* Where one step takes a session, and what it holds there. *)
LEMMA Moves ==
  ASSUME TypeOK, WorkInv, RowInv, NEW s \in Sessions, Step(s)
  PROVE  /\ pc'[s] \in States
         /\ pc'[s] \in OnRow => rec'[s] \in Rows /\ rec'[s] \in Row
         /\ rec'[s] \in Row \union {None}
         /\ pc'[s] = "ordered" => rec'[s] \in Row
         /\ marks'[s] \in Marks \union {None}
         /\ pc'[s] \in {"quoted", "ordered"} =>
              marks'[s] \in Marks /\ rec'[s].ticker \in DOMAIN marks'[s]
         /\ ReadTypeOK(s)'
  <1> USE DEF GoTo
  <1>0. Rows \subseteq Row /\ rec[s] \in Row \union {None} /\ marks[s] \in Marks \union {None}
    BY DEF TypeOK
  <1>1. CASE Idle(s)
    BY <1>1 DEF Idle, TypeOK, States, OnRow, ReadTypeOK
  <1>2. CASE ReadAccount(s)
    <2>1. ledger.cash \in Int /\ ledger.starting \in Nat \ {0}
      BY DEF TypeOK, LedgerTypeOK
    <2> QED BY <1>0, <1>2, <2>1 DEF ReadAccount, TypeOK, States, OnRow, ReadTypeOK
  <1>3. CASE ReadHoldings(s)
    <2>1. read[s] \in [cash : Int, starting : Nat \ {0}]
      BY <1>3 DEF ReadHoldings, TypeOK, ReadTypeOK
    <2>2. ledger.open \in SUBSET Lot
      BY DEF TypeOK, LedgerTypeOK
    <2> QED BY <1>0, <1>3, <2>1, <2>2 DEF ReadHoldings, TypeOK, States, OnRow, ReadTypeOK
  <1>4. CASE Choose(s)
    BY <1>0, <1>4 DEF Choose, TypeOK, States, OnRow, ReadTypeOK
  <1>5. CASE /\ pc[s] \in OnRow
             /\ pc' \in {[pc EXCEPT ![s] = x] : x \in {"loaded", "claimed", "traded", "failed"}}
             /\ UNCHANGED <<read, rec, marks>>
    BY <1>0, <1>5 DEF TypeOK, WorkInv, States, OnRow, ReadTypeOK
  <1>6. CASE FetchSnapshot(s)
    <2>1. rec[s] \in Rows /\ rec[s] \in Row
      BY <1>0, <1>6 DEF FetchSnapshot, WorkInv, OnRow
    <2>2. rec[s].ticker \in Tickers
      BY <2>1 DEF Row
    <2>3. PICK m \in Quotes(rec[s].ticker) : marks' = [marks EXCEPT ![s] = m]
      BY <1>6 DEF FetchSnapshot
    <2>4. m \in Marks /\ rec[s].ticker \in DOMAIN m
      BY <2>2, QuotesAreMarks
    <2> QED BY <1>0, <1>6, <2>1, <2>3, <2>4 DEF FetchSnapshot, TypeOK, States, OnRow, ReadTypeOK
  <1>7. CASE PlaceOrder(s)
    <2>1. /\ pc' = [pc EXCEPT ![s] = "ordered"]
          /\ UNCHANGED read
      BY <1>7 DEF PlaceOrder
    <2>2. rec'[s] \in Row /\ marks'[s] \in Marks /\ rec'[s].ticker \in DOMAIN marks'[s]
      <3>1. CASE \E t \in Tickers, a \in ManualOrders : \E m \in Quotes(t) :
                   /\ rec' = [rec EXCEPT ![s] = BuyRow(0, t, a)]
                   /\ marks' = [marks EXCEPT ![s] = m]
        <4>1. PICK t \in Tickers, a \in ManualOrders : \E m \in Quotes(t) :
                   /\ rec' = [rec EXCEPT ![s] = BuyRow(0, t, a)]
                   /\ marks' = [marks EXCEPT ![s] = m]
          BY <3>1
        <4>2. BuyRow(0, t, a) \in Row /\ BuyRow(0, t, a).ticker = t
          BY BuyRowType, SessionAssumption DEF BuyRow
        <4> QED BY <4>1, <4>2, QuotesAreMarks DEF TypeOK
      <3>2. CASE \E l \in ledger.open, p \in Prices :
                   /\ rec' = [rec EXCEPT ![s] = HoldingRow(0, "REVIEW EXIT", l)]
                   /\ marks' = [marks EXCEPT ![s] = [t \in {l.ticker} |-> p]]
        <4>1. PICK l \in ledger.open, p \in Prices :
                   /\ rec' = [rec EXCEPT ![s] = HoldingRow(0, "REVIEW EXIT", l)]
                   /\ marks' = [marks EXCEPT ![s] = [t \in {l.ticker} |-> p]]
          BY <3>2
        <4>2. l \in Lot /\ l.ticker \in Tickers
          BY DEF TypeOK, LedgerTypeOK, Lot
        <4>3. HoldingRow(0, "REVIEW EXIT", l) \in Row
              /\ HoldingRow(0, "REVIEW EXIT", l).ticker = l.ticker
          BY <4>2, HoldingRowType DEF HoldingRow
        <4>4. [t \in {l.ticker} |-> p] \in Marks
          <5>1. {l.ticker} \in SUBSET Tickers /\ [t \in {l.ticker} |-> p] \in [{l.ticker} -> Prices]
            BY <4>2
          <5> QED BY <5>1 DEF Marks
        <4> QED BY <4>1, <4>3, <4>4 DEF TypeOK
      <3> QED BY <1>7, <3>1, <3>2 DEF PlaceOrder
    <2> QED BY <2>1, <2>2 DEF TypeOK, States, OnRow, ReadTypeOK
  <1>8. CASE PreviewSnapshot(s)
    <2>1. read'[s] \in Form
      <3>1. PICK c \in FormCash, k \in Capitals, hs \in Portfolios :
              read' = [read EXCEPT ![s] = [cash |-> c, starting |-> k, holdings |-> hs]]
        BY <1>8 DEF PreviewSnapshot
      <3>2. read'[s] = [cash |-> c, starting |-> k, holdings |-> hs]
        BY <3>1 DEF TypeOK
      <3> QED BY <3>2 DEF Form
    <2> QED BY <1>0, <1>8, <2>1 DEF PreviewSnapshot, TypeOK, States, OnRow, ReadTypeOK
  <1> QED BY <1>1, <1>2, <1>3, <1>4, <1>5, <1>6, <1>7, <1>8
       DEF Step, Execute, SavePlan, Dismiss, LoadRecommendation, Claim, TradeFails,
           ReleaseClaim, Finish, Drop, Abandon, RecordTrade, CommitOrder, ApplySnapshot, OnRow

LEMMA RecordedType ==
  ASSUME TypeOK, TradeIdsOK, WorkInv, NEW s \in Sessions, Step(s)
  PROVE  /\ recorded' \subseteq [row : Row, kind : {"OPEN", "CLOSE"}, id : Nat \ {0}]
         /\ \/ recorded' = recorded
            \/ /\ RecordTrade(s)
               /\ \E a : a.row = rec[s] /\ recorded' = recorded \union {a}
  <1>0. recorded \subseteq [row : Row, kind : {"OPEN", "CLOSE"}, id : Nat \ {0}]
    BY DEF TypeOK
  <1>1. CASE UNCHANGED recorded
    BY <1>0, <1>1
  <1>2. CASE RecordTrade(s)
    <2>1. rec[s] \in Row
      BY <1>2 DEF RecordTrade, GoTo, WorkInv, OnRow, TypeOK
    <2>2. ledger.next \in Nat \ {0} /\ NextTrade(ledger) \in Nat \ {0}
      BY FS_CardinalityType DEF TypeOK, LedgerTypeOK, TradeIdsOK, NextTrade
    <2>3. PICK k \in {"OPEN", "CLOSE"}, i \in Nat \ {0} :
            recorded' = recorded \union {[row |-> rec[s], kind |-> k, id |-> i]}
      BY <1>2, <2>2 DEF RecordTrade
    <2> QED BY <1>0, <1>2, <2>1, <2>3
  <1> QED BY <1>1, <1>2
       DEF Step, Execute, ReadAccount, ReadHoldings, SavePlan, Choose, Dismiss,
           LoadRecommendation, Claim, FetchSnapshot, TradeFails, ReleaseClaim, Finish,
           PlaceOrder, PreviewSnapshot, Drop, Abandon, CommitOrder, ApplySnapshot

LEMMA TypeStep ==
  ASSUME IInv, NEW s \in Sessions, Step(s)
  PROVE  TypeOK' /\ TradeIdsOK' /\ WorkInv'
  <1>0. TypeOK /\ TradeIdsOK /\ WorkInv /\ RowInv
    BY DEF IInv
  <1>1. LedgerTypeOK' /\ TradeIdsOK'
    BY <1>0, LedgerMoves DEF LedgerInv
  <1>2. plans' \in Seq(Plan)
    BY <1>0, PlanMoves
  <1>3. /\ Rows \subseteq Rows' /\ Rows' \subseteq Row
        /\ status' \in [Rows' -> {"OPEN", "EXECUTING", "EXECUTED", "DISMISSED"}]
    BY <1>0, StatusMoves
  <1>4. recorded' \subseteq [row : Row, kind : {"OPEN", "CLOSE"}, id : Nat \ {0}]
    BY <1>0, RecordedType
  <1>5. \A u \in Sessions :
          /\ pc'[u] \in States /\ rec'[u] \in Row \union {None}
          /\ marks'[u] \in Marks \union {None} /\ ReadTypeOK(u)'
    <2> TAKE u \in Sessions
    <2>1. CASE u = s
      BY <1>0, <2>1, Moves
    <2>2. CASE u # s
      <3>1. pc'[u] = pc[u] /\ read'[u] = read[u] /\ rec'[u] = rec[u] /\ marks'[u] = marks[u]
        BY <1>0, <2>2, OthersKeep
      <3> QED BY <1>0, <3>1 DEF TypeOK, ReadTypeOK
    <2> QED BY <2>1, <2>2
  <1>6. /\ pc = [u \in Sessions |-> pc[u]] /\ DOMAIN read = Sessions
        /\ rec = [u \in Sessions |-> rec[u]] /\ marks = [u \in Sessions |-> marks[u]]
    BY <1>0 DEF TypeOK
  <1>7. /\ pc' \in [Sessions -> States] /\ DOMAIN read' = Sessions
        /\ rec' \in [Sessions -> Row \union {None}] /\ marks' \in [Sessions -> Marks \union {None}]
    <2>1. pc' = [u \in Sessions |-> pc'[u]]
      BY <1>6 DEF Step, Execute, ReadAccount, ReadHoldings, SavePlan, Choose, Dismiss,
         LoadRecommendation, Claim, FetchSnapshot, TradeFails, ReleaseClaim, Finish,
         PlaceOrder, PreviewSnapshot, Drop, Abandon, RecordTrade, CommitOrder,
         ApplySnapshot, GoTo, Idle
    <2>2. DOMAIN read' = Sessions
      BY <1>6 DEF Step, Execute, ReadAccount, ReadHoldings, SavePlan, Choose, Dismiss,
         LoadRecommendation, Claim, FetchSnapshot, TradeFails, ReleaseClaim, Finish,
         PlaceOrder, PreviewSnapshot, Drop, Abandon, RecordTrade, CommitOrder,
         ApplySnapshot, GoTo, Idle
    <2>3. rec' = [u \in Sessions |-> rec'[u]]
      BY <1>6 DEF Step, Execute, ReadAccount, ReadHoldings, SavePlan, Choose, Dismiss,
         LoadRecommendation, Claim, FetchSnapshot, TradeFails, ReleaseClaim, Finish,
         PlaceOrder, PreviewSnapshot, Drop, Abandon, RecordTrade, CommitOrder,
         ApplySnapshot, GoTo, Idle
    <2>4. marks' = [u \in Sessions |-> marks'[u]]
      BY <1>6 DEF Step, Execute, ReadAccount, ReadHoldings, SavePlan, Choose, Dismiss,
         LoadRecommendation, Claim, FetchSnapshot, TradeFails, ReleaseClaim, Finish,
         PlaceOrder, PreviewSnapshot, Drop, Abandon, RecordTrade, CommitOrder,
         ApplySnapshot, GoTo, Idle
    <2> QED BY <1>5, <2>1, <2>2, <2>3, <2>4
  <1>8. TypeOK'
    BY <1>1, <1>2, <1>3, <1>4, <1>5, <1>7 DEF TypeOK
  <1>9. WorkInv'
    <2> SUFFICES ASSUME NEW u \in Sessions
                 PROVE  /\ pc'[u] \in OnRow => rec'[u] \in Rows'
                        /\ pc'[u] = "ordered" => rec'[u] \in Row
                        /\ pc'[u] \in {"quoted", "ordered"} =>
                             marks'[u] \in Marks /\ rec'[u].ticker \in DOMAIN marks'[u]
      BY DEF WorkInv
    <2>1. CASE u = s
      BY <1>0, <1>3, <2>1, Moves
    <2>2. CASE u # s
      <3>1. pc'[u] = pc[u] /\ rec'[u] = rec[u] /\ marks'[u] = marks[u]
        BY <1>0, <2>2, OthersKeep
      <3> QED BY <1>0, <1>3, <3>1 DEF WorkInv
    <2> QED BY <2>1, <2>2
  <1> QED BY <1>1, <1>8, <1>9

(* Ids: what is remembered after a step was remembered before, or is new.   *)
LEMMA KnownStep ==
  ASSUME IInv, NEW s \in Sessions, Step(s)
  PROVE  KnownInv' /\ RowInv'
  <1>0. TypeOK /\ TradeIdsOK /\ WorkInv /\ RowInv /\ KnownInv
    BY DEF IInv
  <1>1. LedgerTypeOK /\ LedgerTypeOK' /\ LedgerGrows
    BY <1>0, LedgerMoves DEF LedgerInv, TypeOK
  <1>2. \A p \in 1 .. Len(plans) : plans'[p].lots = plans[p].lots
    BY <1>0, PlanMoves
  <1>3. \/ Len(plans') = Len(plans)
        \/ SavePlan(s) /\ Len(plans') = Len(plans) + 1
    BY <1>0, PlanMoves
  <1>4. plans \in Seq(Plan) /\ Len(plans) \in Nat
    BY <1>0 DEF TypeOK
  <1>5. PlannedLots' \subseteq PlannedLots \union ScannedLots
    <2> SUFFICES ASSUME NEW p \in 1 .. Len(plans'), NEW l \in plans'[p].lots
                 PROVE  l \in PlannedLots \union ScannedLots
      BY DEF PlannedLots
    <2>1. CASE p \in 1 .. Len(plans)
      BY <1>2, <2>1 DEF PlannedLots
    <2>2. CASE p \notin 1 .. Len(plans)
      <3>1. SavePlan(s) /\ p = Len(plans')
        BY <1>3, <1>4, <2>2
      <3>2. plans'[p].lots = read[s].lots /\ pc[s] = "scanning"
        BY <1>0, <3>1, SaveMoves DEF SavePlan
      <3> QED BY <3>2 DEF ScannedLots
    <2> QED BY <2>1, <2>2
  <1>6. ScannedLots' \subseteq ledger.open \union ScannedLots
    <2> SUFFICES ASSUME NEW u \in Sessions, pc'[u] = "scanning", NEW l \in read'[u].lots
                 PROVE  l \in ledger.open \union ScannedLots
      BY DEF ScannedLots
    <2>1. CASE u # s
      <3>1. pc[u] = "scanning" /\ l \in read[u].lots
        BY <1>0, <2>1, OthersKeep
      <3> QED BY <3>1 DEF ScannedLots
    <2>2. CASE u = s
      <3>1. ReadHoldings(s)
        BY <1>0, <2>2 DEF TypeOK, Step, Execute, ReadAccount, SavePlan, Choose, Dismiss,
             LoadRecommendation, Claim, FetchSnapshot, TradeFails, ReleaseClaim, Finish,
             PlaceOrder, PreviewSnapshot, Drop, Abandon, RecordTrade, CommitOrder,
             ApplySnapshot, GoTo, Idle
      <3>2. read'[s].lots = ledger.open
        BY <1>0, <3>1 DEF ReadHoldings, TypeOK
      <3> QED BY <2>2, <3>2
    <2> QED BY <2>1, <2>2
  <1>7. \A l \in Known' : l \in Known \/ (l \in ledger'.open /\ l.id >= ledger.next)
    BY <1>1, <1>5, <1>6 DEF Known, LedgerGrows
  <1>8. /\ ledger.next \in Nat /\ ledger'.next \in Nat /\ ledger.next <= ledger'.next
        /\ \A l \in ledger'.open : l.id \in Nat /\ l.id < ledger'.next
        /\ \A k, l \in ledger'.open : k.id = l.id => k = l
    BY <1>1 DEF LedgerTypeOK, LedgerGrows, Lot
  <1>9. \A l \in Known : l.id \in Nat
    <2>1. \A l \in ledger.open : l \in Lot
      BY <1>1 DEF LedgerTypeOK
    <2>2. \A l \in PlannedLots : l \in Lot
      <3>1. \A p \in 1 .. Len(plans) : plans[p] \in Plan
        BY <1>4
      <3> QED BY <3>1 DEF PlannedLots, Plan
    <2>3. \A l \in ScannedLots : l \in Lot
      <3>1. \A u \in Sessions : pc[u] = "scanning" => read[u].lots \in SUBSET Lot
        <4> TAKE u \in Sessions
        <4>1. ReadTypeOK(u)
          BY <1>0 DEF TypeOK
        <4> QED BY <4>1 DEF ReadTypeOK
      <3> QED BY <3>1 DEF ScannedLots
    <2> QED BY <2>1, <2>2, <2>3 DEF Known, Lot
  <1>10. KnownInv'
    <2>1. \A l \in Known' : l.id \in Nat /\ l.id < ledger'.next
      BY <1>0, <1>7, <1>8, <1>9 DEF KnownInv
    <2>2. \A k, l \in Known' : k.id = l.id => k = l
      BY <1>0, <1>7, <1>8, <1>9 DEF KnownInv
    <2> QED BY <2>1, <2>2 DEF KnownInv
  <1>11. RowInv'
    <2> SUFFICES ASSUME NEW r \in Rows'
                 PROVE  /\ r.plan \in 1 .. Len(plans')
                        /\ r.action # "BUY" => r.lot \in plans'[r.plan].lots
      BY DEF RowInv
    <2>1. CASE r \in Rows
      BY <1>0, <1>2, <1>3, <1>4, <2>1 DEF RowInv
    <2>2. CASE r \notin Rows
      <3>1. /\ SavePlan(s) /\ r.plan = Len(plans')
            /\ r.action # "BUY" => r.lot \in plans'[r.plan].lots
        BY <1>0, <2>2, StatusMoves
      <3>2. Len(plans') = Len(plans) + 1
        BY <1>0, <3>1, SaveMoves
      <3> QED BY <1>4, <3>1, <3>2
    <2> QED BY <2>1, <2>2
  <1> QED BY <1>10, <1>11

-----------------------------------------------------------------------------
(* Claims. *)

(* How one step moves the stepping session's claim. *)
LEMMA ClaimMoves ==
  ASSUME TypeOK, WorkInv, ClaimInv, NEW s \in Sessions, Step(s)
  PROVE  \/ /\ pc[s] \notin Claiming /\ pc'[s] \notin Claiming     \* no claim
            /\ \A r \in Rows : status[r] # "OPEN" => status'[r] = status[r]
            /\ \A r \in Rows : status'[r] \in {status[r], "DISMISSED"}
         \/ /\ Claim(s) /\ pc'[s] = "claimed" /\ rec'[s] = rec[s]   \* takes one
            /\ status[rec[s]] = "OPEN" /\ status' = [status EXCEPT ![rec[s]] = "EXECUTING"]
         \/ /\ pc[s] \in Claiming /\ pc'[s] \in Claiming           \* keeps it
            /\ rec'[s] = rec[s] /\ status' = status
            /\ (pc[s] \in Untraded /\ pc'[s] \in Untraded) \/ RecordTrade(s)
         \/ /\ pc[s] \in Claiming /\ pc'[s] = "idle"               \* gives it up
            /\ \/ status' = status
               \/ pc[s] = "failed" /\ status' = [status EXCEPT ![rec[s]] = "OPEN"]
               \/ pc[s] = "traded" /\ status' = [status EXCEPT ![rec[s]] = "EXECUTED"]
  <1> USE DEF Claiming, Untraded, GoTo, Idle
  <1>0. /\ pc[s] \in OnRow => rec[s] \in Rows
        /\ status \in [Rows -> {"OPEN", "EXECUTING", "EXECUTED", "DISMISSED"}]
        /\ s \in DOMAIN pc
    BY DEF WorkInv, TypeOK
  <1>1. CASE SavePlan(s)
    <2>1. PICK rows : status' = [r \in Rows \union rows |-> IF r \in Rows THEN status[r] ELSE "OPEN"]
      BY <1>1, SaveMoves
    <2> QED BY <1>0, <1>1, <2>1 DEF SavePlan
  <1>2. CASE Dismiss(s)
    BY <1>0, <1>2 DEF Dismiss, OnRow
  <1>3. CASE ReadAccount(s) \/ ReadHoldings(s) \/ Choose(s) \/ LoadRecommendation(s)
             \/ PlaceOrder(s) \/ CommitOrder(s) \/ PreviewSnapshot(s) \/ ApplySnapshot(s) \/ Drop(s)
    <2>1. status' = status /\ pc[s] \notin Claiming /\ pc'[s] \notin Claiming
      BY <1>0, <1>3 DEF ReadAccount, ReadHoldings, Choose, LoadRecommendation, PlaceOrder,
                      CommitOrder, PreviewSnapshot, ApplySnapshot, Drop
    <2> QED BY <1>0, <2>1
  <1>4. CASE Claim(s)
    BY <1>0, <1>4 DEF Claim, OnRow
  <1>5. CASE FetchSnapshot(s) \/ TradeFails(s)
    BY <1>0, <1>5 DEF FetchSnapshot, TradeFails
  <1>6. CASE RecordTrade(s)
    BY <1>0, <1>6 DEF RecordTrade
  <1>7. CASE ReleaseClaim(s) \/ Finish(s)
    BY <1>0, <1>7 DEF ReleaseClaim, Finish
  <1>8. CASE Abandon(s)
    BY <1>0, <1>8 DEF Abandon
  <1> QED BY <1>1, <1>2, <1>3, <1>4, <1>5, <1>6, <1>7, <1>8 DEF Step, Execute

LEMMA ClaimStep ==
  ASSUME IInv, NEW s \in Sessions, Step(s)
  PROVE  ClaimInv'
  <1>0. TypeOK /\ TradeIdsOK /\ WorkInv /\ RowInv /\ ClaimInv
    BY DEF IInv
  <1>1. /\ status \in [Rows -> {"OPEN", "EXECUTING", "EXECUTED", "DISMISSED"}]
        /\ \A u \in Sessions : pc[u] \in OnRow => rec[u] \in Rows
    BY <1>0 DEF TypeOK, WorkInv
  <1>2. \A u \in Sessions : u # s => pc'[u] = pc[u] /\ rec'[u] = rec[u]
    BY <1>0, OthersKeep
  <1>3. Claiming \subseteq OnRow
    BY DEF Claiming, OnRow
  <1>4. /\ \A u \in Sessions : pc[u] \in Claiming => status[rec[u]] = "EXECUTING"
        /\ \A t, u \in Sessions :
             (pc[t] \in Claiming /\ pc[u] \in Claiming /\ rec[t] = rec[u]) => t = u
    BY <1>0 DEF ClaimInv
  <1> SUFFICES /\ \A u \in Sessions : pc'[u] \in Claiming => status'[rec'[u]] = "EXECUTING"
               /\ \A t, u \in Sessions :
                    (pc'[t] \in Claiming /\ pc'[u] \in Claiming /\ rec'[t] = rec'[u]) => t = u
    BY DEF ClaimInv
  <1>5. CASE /\ pc[s] \notin Claiming /\ pc'[s] \notin Claiming
             /\ \A r \in Rows : status[r] # "OPEN" => status'[r] = status[r]
    BY <1>1, <1>2, <1>3, <1>4, <1>5
  <1>6. CASE /\ Claim(s) /\ pc'[s] = "claimed" /\ rec'[s] = rec[s]
             /\ status[rec[s]] = "OPEN" /\ status' = [status EXCEPT ![rec[s]] = "EXECUTING"]
    <2>1. rec[s] \in Rows /\ pc[s] \notin Claiming
      BY <1>0, <1>1, <1>6 DEF Claim, OnRow, Claiming
    <2> QED BY <1>1, <1>2, <1>3, <1>4, <1>6, <2>1
  <1>7. CASE /\ pc[s] \in Claiming /\ pc'[s] \in Claiming
             /\ rec'[s] = rec[s] /\ status' = status
    BY <1>2, <1>4, <1>7
  <1>8. CASE pc[s] \in Claiming /\ pc'[s] = "idle" /\ (status' = status \/
               \E v : status' = [status EXCEPT ![rec[s]] = v])
    <2>1. pc'[s] \notin Claiming
      BY <1>8 DEF Claiming
    <2> QED BY <1>1, <1>2, <1>3, <1>4, <1>8, <2>1
  <1> QED BY <1>0, <1>5, <1>6, <1>7, <1>8, ClaimMoves

(* Trades. *)
LEMMA TradeStep ==
  ASSUME IInv, NEW s \in Sessions, Step(s)
  PROVE  TradeInv'
  <1>0. TypeOK /\ TradeIdsOK /\ WorkInv /\ RowInv /\ ClaimInv /\ TradeInv
    BY DEF IInv
  <1>1. /\ status \in [Rows -> {"OPEN", "EXECUTING", "EXECUTED", "DISMISSED"}]
        /\ \A u \in Sessions : pc[u] \in OnRow => rec[u] \in Rows
        /\ Rows \subseteq Rows'
    BY <1>0, StatusMoves DEF TypeOK, WorkInv
  <1>2. \A u \in Sessions : u # s => pc'[u] = pc[u] /\ rec'[u] = rec[u]
    BY <1>0, OthersKeep
  <1>3. Claiming \subseteq OnRow /\ Untraded \subseteq Claiming /\ "traded" \in Claiming
    BY DEF Claiming, OnRow, Untraded
  <1>4. /\ \A u \in Sessions : pc[u] \in Claiming => status[rec[u]] = "EXECUTING"
        /\ \A t, u \in Sessions :
             (pc[t] \in Claiming /\ pc[u] \in Claiming /\ rec[t] = rec[u]) => t = u
    BY <1>0 DEF ClaimInv
  <1>5. /\ \A a \in recorded : a.row \in Rows /\ status[a.row] \in {"EXECUTING", "EXECUTED"}
        /\ \A u \in Sessions : pc[u] \in Untraded => \A a \in recorded : a.row # rec[u]
        /\ \A u \in Sessions : pc[u] = "traded" => \E a \in recorded : a.row = rec[u]
        /\ \A r \in Rows : status[r] = "EXECUTED" => \E a \in recorded : a.row = r
        /\ \A a, b \in recorded : a.row = b.row => a = b
    BY <1>0 DEF TradeInv, OneTradePerRecommendation
  <1>6. \A r \in Rows' \ Rows : status'[r] = "OPEN"
    BY <1>0, StatusMoves
  <1>7. recorded' = recorded \/
          (RecordTrade(s) /\ \E a : a.row = rec[s] /\ recorded' = recorded \union {a})
    BY <1>0, RecordedType
  <1> SUFFICES
        /\ \A a \in recorded' : a.row \in Rows' /\ status'[a.row] \in {"EXECUTING", "EXECUTED"}
        /\ \A u \in Sessions : pc'[u] \in Untraded => \A a \in recorded' : a.row # rec'[u]
        /\ \A u \in Sessions : pc'[u] = "traded" => \E a \in recorded' : a.row = rec'[u]
        /\ \A r \in Rows' : status'[r] = "EXECUTED" => \E a \in recorded' : a.row = r
        /\ \A a, b \in recorded' : a.row = b.row => a = b
    BY DEF TradeInv, OneTradePerRecommendation
  <1>8. CASE RecordTrade(s)
    <2>1. /\ pc[s] = "quoted" /\ pc'[s] = "traded" /\ rec' = rec /\ status' = status
      BY <1>0, <1>8 DEF RecordTrade, GoTo, TypeOK
    <2>2. PICK a : a.row = rec[s] /\ recorded' = recorded \union {a}
      BY <1>8 DEF RecordTrade
    <2>3. rec[s] \in Rows /\ status[rec[s]] = "EXECUTING" /\ \A b \in recorded : b.row # rec[s]
      BY <1>1, <1>4, <1>5, <2>1 DEF OnRow, Claiming, Untraded
    <2>4. Rows' = Rows /\ "traded" \notin Untraded /\ "quoted" \in Claiming
      BY <2>1 DEF Rows, Untraded, Claiming
    <2>5. \A u \in Sessions : pc'[u] \in Untraded => \A b \in recorded' : b.row # rec'[u]
      BY <1>2, <1>3, <1>4, <1>5, <2>1, <2>2, <2>4
    <2>6. \A u \in Sessions : pc'[u] = "traded" => \E b \in recorded' : b.row = rec'[u]
      BY <1>2, <1>5, <2>1, <2>2
    <2> QED BY <1>5, <2>1, <2>2, <2>3, <2>4, <2>5, <2>6
  <1>9. CASE recorded' = recorded /\ ~RecordTrade(s)
    <2>1. CASE /\ pc[s] \notin Claiming /\ pc'[s] \notin Claiming
               /\ \A r \in Rows : status[r] # "OPEN" => status'[r] = status[r]
               /\ \A r \in Rows : status'[r] \in {status[r], "DISMISSED"}
      BY <1>1, <1>2, <1>3, <1>5, <1>6, <1>9, <2>1
    <2>2. CASE /\ Claim(s) /\ pc'[s] = "claimed" /\ rec'[s] = rec[s]
               /\ status[rec[s]] = "OPEN" /\ status' = [status EXCEPT ![rec[s]] = "EXECUTING"]
      <3>1. rec[s] \in Rows /\ Rows' = Rows
        BY <1>0, <1>1, <2>2 DEF Claim, OnRow, Rows
      <3>2. \A a \in recorded : a.row # rec[s]
        BY <1>5, <2>2
      <3> QED BY <1>1, <1>2, <1>3, <1>5, <1>9, <2>2, <3>1, <3>2
    <2>3. CASE /\ pc[s] \in Untraded /\ pc'[s] \in Untraded
               /\ rec'[s] = rec[s] /\ status' = status
      <3>1. pc'[s] # "traded" /\ Rows' = Rows
        BY <2>3 DEF Untraded, Rows
      <3> QED BY <1>2, <1>5, <1>9, <2>3, <3>1
    <2>4. CASE /\ pc[s] \in Claiming /\ pc'[s] = "idle"
               /\ \/ status' = status
                  \/ pc[s] = "failed" /\ status' = [status EXCEPT ![rec[s]] = "OPEN"]
                  \/ pc[s] = "traded" /\ status' = [status EXCEPT ![rec[s]] = "EXECUTED"]
      <3>1. pc'[s] \notin Untraded /\ pc'[s] # "traded" /\ rec[s] \in Rows /\ Rows' = Rows
        BY <1>1, <1>3, <2>4 DEF Untraded, Rows
      <3>2. pc[s] = "failed" => \A a \in recorded : a.row # rec[s]
        BY <1>5 DEF Untraded
      <3> QED BY <1>1, <1>2, <1>5, <1>9, <2>4, <3>1, <3>2
    <2> QED BY <1>0, <1>9, <2>1, <2>2, <2>3, <2>4, ClaimMoves
  <1> QED BY <1>7, <1>8, <1>9

-----------------------------------------------------------------------------
(* Exits: the lot whose id the row holds is the lot the plan reviewed. *)
LEMMA RecordedExit ==
  ASSUME IInv, NEW s \in Sessions, RecordTrade(s),
         NEW a \in recorded' \ recorded, a.kind = "CLOSE"
  PROVE  \E t \in ledger'.closed : t.id = a.id /\ t.lot = a.row.lot
  <1> DEFINE r == rec[s]  m == marks[s]
  <1>0. TypeOK /\ TradeIdsOK /\ WorkInv /\ RowInv /\ KnownInv
    BY DEF IInv
  <1>1. /\ CloseByRow(r, m)
        /\ a = [row |-> r, kind |-> "CLOSE", id |-> NextTrade(ledger)]
    BY DEF RecordTrade
  <1>2. r \in Rows /\ r \in Row /\ m \in Marks /\ r.ticker \in DOMAIN m
    BY <1>0 DEF RecordTrade, GoTo, WorkInv, OnRow, TypeOK
  <1>3. m[r.ticker] \in Prices
    BY <1>2 DEF Marks
  <1>4. LedgerInv /\ ClosePosition(r.lot.id, m[r.ticker])
    BY <1>0, <1>1 DEF LedgerInv, TypeOK, CloseByRow
  <1>5. PICK t \in ledger'.closed :
          t.id = NextTrade(ledger) /\ t.lot \in ledger.open /\ t.lot.id = r.lot.id
    BY <1>3, <1>4, CloseStep
  <1>6. r.lot \in PlannedLots
    <2>1. r.plan \in 1 .. Len(plans) /\ r.lot \in plans[r.plan].lots
      BY <1>0, <1>1, <1>2 DEF RowInv, CloseByRow
    <2> QED BY <2>1 DEF PlannedLots
  <1>7. t.lot = r.lot
    BY <1>0, <1>5, <1>6 DEF KnownInv, Known
  <1> HIDE DEF r, m
  <1> QED BY <1>1, <1>5, <1>7

LEMMA ExitStep ==
  ASSUME IInv, NEW s \in Sessions, Step(s)
  PROVE  ExitClosesReviewedLot'
  <1>0. TypeOK /\ TradeIdsOK /\ WorkInv /\ ExitClosesReviewedLot
    BY DEF IInv
  <1>1. ledger.closed \subseteq ledger'.closed
    BY <1>0, LedgerMoves DEF LedgerGrows
  <1>2. recorded' = recorded \/ RecordTrade(s)
    BY <1>0, RecordedType
  <1> SUFFICES ASSUME NEW a \in recorded', a.kind = "CLOSE"
               PROVE  \E t \in ledger'.closed : t.id = a.id /\ t.lot = a.row.lot
    BY DEF ExitClosesReviewedLot
  <1>3. CASE a \in recorded
    BY <1>0, <1>1, <1>3 DEF ExitClosesReviewedLot
  <1>4. CASE a \notin recorded
    BY <1>2, <1>4, RecordedExit
  <1> QED BY <1>3, <1>4

-----------------------------------------------------------------------------
(* A plan that is not stale has the lots of the ledger, not only their ids. *)
LEMMA FreshPlanIsBook ==
  ASSUME IInv, plans # <<>>, ~Stale(Len(plans))
  PROVE  plans[Len(plans)].cash = ledger.cash /\ plans[Len(plans)].lots = ledger.open
  <1> DEFINE n == Len(plans)
  <1>0. TypeOK /\ KnownInv
    BY DEF IInv
  <1>1. n \in 1 .. Len(plans)
    BY <1>0 DEF TypeOK
  <1>2. plans[n].cash = ledger.cash /\ BookIds(plans[n].lots) = BookIds(ledger.open)
    BY DEF Stale
  <1>3. plans[n].lots \subseteq Known /\ ledger.open \subseteq Known
    BY <1>1 DEF Known, PlannedLots
  <1>4. \A k, l \in Known : k.id = l.id => k = l
    BY <1>0 DEF KnownInv
  <1> HIDE DEF n
  <1>5. plans[n].lots \subseteq ledger.open
    <2> SUFFICES ASSUME NEW l \in plans[n].lots PROVE l \in ledger.open
      OBVIOUS
    <2>1. PICK k \in ledger.open : k.id = l.id
      BY <1>2 DEF BookIds
    <2> QED BY <1>3, <1>4, <2>1
  <1>6. ledger.open \subseteq plans[n].lots
    <2> SUFFICES ASSUME NEW l \in ledger.open PROVE l \in plans[n].lots
      OBVIOUS
    <2>1. PICK k \in plans[n].lots : k.id = l.id
      BY <1>2 DEF BookIds
    <2> QED BY <1>3, <1>4, <2>1
  <1> QED BY <1>2, <1>5, <1>6 DEF n

LEMMA BookStep ==
  ASSUME IInv, NEW s \in Sessions, Step(s)
  PROVE  BookInv'
  <1>0. TypeOK /\ TradeIdsOK /\ WorkInv /\ RowInv /\ BookInv
    BY DEF IInv
  <1>1. plans \in Seq(Plan) /\ plans' \in Seq(Plan)
    BY <1>0, PlanMoves DEF TypeOK
  <1> SUFFICES ASSUME NEW u \in Sessions, pc'[u] = "chosen",
                      rec'[u].plan = Len(plans'), ~plans'[Len(plans')].flagged
               PROVE  /\ plans'[Len(plans')].cash = ledger'.cash
                      /\ plans'[Len(plans')].lots = ledger'.open
    BY DEF BookInv
  <1>2. CASE Choose(s) /\ u = s
    <2>1. plans' = plans /\ ledger' = ledger /\ plans # <<>> /\ ~Stale(Len(plans))
      BY <1>2 DEF Choose, Latest
    <2> QED BY <2>1, FreshPlanIsBook
  <1>3. CASE ~(Choose(s) /\ u = s)
    <2>1. pc[u] = "chosen" /\ rec'[u] = rec[u]
      <3>1. CASE u # s
        BY <1>0, <3>1, OthersKeep
      <3>2. CASE u = s
        BY <1>0, <1>3, <3>2 DEF TypeOK, Step, Execute, ReadAccount, ReadHoldings, SavePlan,
             Dismiss, LoadRecommendation, Claim, FetchSnapshot, TradeFails, ReleaseClaim,
             Finish, PlaceOrder, PreviewSnapshot, Drop, Abandon, RecordTrade, CommitOrder,
             ApplySnapshot, GoTo, Idle
      <3> QED BY <3>1, <3>2
    <2>2. rec[u] \in Rows /\ rec[u].plan \in 1 .. Len(plans)
      BY <1>0, <2>1 DEF WorkInv, OnRow, RowInv
    <2>3. /\ Len(plans') = Len(plans) \/ Len(plans') = Len(plans) + 1
          /\ \A p \in 1 .. Len(plans) :
               /\ plans'[p].lots = plans[p].lots /\ plans'[p].cash = plans[p].cash
               /\ plans[p].flagged => plans'[p].flagged
      BY <1>0, PlanMoves
    <2>4. Len(plans') = Len(plans) /\ rec[u].plan = Len(plans) /\ ~plans[Len(plans)].flagged
      BY <1>1, <2>1, <2>2, <2>3
    <2>5. ledger' = ledger
      <3>1. plans # <<>>
        BY <1>1, <2>2, <2>4
      <3>2. ~FlagLatest
        BY <1>1, <2>4, <3>1, FlagMoves
      <3> QED BY <1>0, <3>2, LedgerMoves
    <2> QED BY <1>0, <2>1, <2>2, <2>3, <2>4, <2>5 DEF BookInv
  <1> QED BY <1>2, <1>3

-----------------------------------------------------------------------------
(* The accounts, and what a purchase leaves of the capacity. *)

(* A purchase from a row or an order form. *)
LEMMA BoughtFits ==
  ASSUME TypeOK, TradeIdsOK, WorkInv, BooksInv, NEW s \in Sessions,
         pc[s] \in {"quoted", "ordered"}, OpenByRow(rec[s], marks[s])
  PROVE  BooksInv' /\ PurchaseFits(rec[s].ticker, marks[s])
  <1> DEFINE r == rec[s]  m == marks[s]
  <1>1. LedgerInv
    BY DEF TypeOK, LedgerInv
  <1>2. r \in Row /\ m \in Marks /\ r.ticker \in DOMAIN m
    BY DEF WorkInv, TypeOK, OnRow
  <1>3. r.ticker \in Tickers /\ r.alloc \in Nat \ {0}
    BY <1>2 DEF Row
  <1>4. OpenPosition(r.ticker, "LONG", m[r.ticker], r.alloc, m)
    BY DEF OpenByRow
  <1> HIDE DEF r, m
  <1>5. BooksInv'
    BY <1>1, <1>4, BooksOpen
  <1>6. PurchaseFits(r.ticker, m)
    BY <1>1, <1>2, <1>3, <1>4, OpenFits
  <1> QED BY <1>5, <1>6 DEF r, m

LEMMA SharedBooksStep ==
  ASSUME IInv, NEW s \in Sessions, Step(s) PROVE BooksInv'
  <1>0. TypeOK /\ TradeIdsOK /\ WorkInv /\ BooksInv /\ LedgerInv
    BY DEF IInv, TypeOK, LedgerInv
  <1>1. CASE UNCHANGED ledger
    BY <1>0, <1>1, BooksStutter
  <1>2. CASE pc[s] \in {"quoted", "ordered"} /\ OpenByRow(rec[s], marks[s])
    BY <1>0, <1>2, BoughtFits
  <1>3. CASE CloseByRow(rec[s], marks[s])
    BY <1>0, <1>3, BooksClose DEF CloseByRow
  <1>4. CASE ApplySnapshot(s)
    <2>1. read[s] \in Form /\ ReplaceAccountSnapshot(read[s])
      BY <1>0, <1>4 DEF TypeOK, ApplySnapshot, ReadTypeOK
    <2>2. read[s].holdings \in Portfolios
      BY <2>1 DEF Form
    <2> QED BY <1>0, <2>1, <2>2, BooksReplace
  <1> QED BY <1>1, <1>2, <1>3, <1>4
       DEF Step, Execute, ReadAccount, ReadHoldings, SavePlan, Choose, Dismiss,
           LoadRecommendation, Claim, FetchSnapshot, TradeFails, ReleaseClaim, Finish,
           PlaceOrder, PreviewSnapshot, Drop, Abandon, RecordTrade, CommitOrder, GoTo

(* A closing transaction adds a trade. *)
LEMMA ClosingRecords ==
  ASSUME TypeOK, TradeIdsOK, WorkInv, NEW s \in Sessions,
         pc[s] \in {"quoted", "ordered"}, CloseByRow(rec[s], marks[s])
  PROVE  ledger'.closed # ledger.closed
  <1> DEFINE r == rec[s]  m == marks[s]
  <1>1. r \in Row /\ m \in Marks /\ r.ticker \in DOMAIN m
    BY DEF WorkInv, TypeOK, OnRow
  <1>2. LedgerInv /\ m[r.ticker] \in Prices
    BY <1>1, MarkIsPrice DEF TypeOK, LedgerInv
  <1>3. \E t \in ledger'.closed : t.id = NextTrade(ledger)
    BY <1>2, CloseStep DEF CloseByRow
  <1>4. Cardinality(ledger.closed) \in Nat /\ \A t \in ledger.closed : t.id <= Cardinality(ledger.closed)
    BY FS_CardinalityType DEF TradeIdsOK
  <1> QED BY <1>3, <1>4 DEF NextTrade

-----------------------------------------------------------------------------
LEMMA NextIInv == ASSUME IInv, [Next]_vars PROVE IInv'
  <1>1. CASE Next
    <2>1. PICK s \in Sessions : Step(s)
      BY <1>1 DEF Next
    <2> QED BY <2>1, TypeStep, KnownStep, ClaimStep, TradeStep, ExitStep, BookStep,
              SharedBooksStep DEF IInv
  <1>2. CASE UNCHANGED vars
    <2> USE <1>2 DEF vars, work
    <2>1. TypeOK' /\ TradeIdsOK' /\ WorkInv'
      BY DEF IInv, TypeOK, LedgerTypeOK, TradeIdsOK, WorkInv, Rows, ReadTypeOK
    <2>2. KnownInv' /\ RowInv' /\ BookInv'
      BY DEF IInv, KnownInv, Known, PlannedLots, ScannedLots, RowInv, BookInv, Rows
    <2>3. ClaimInv' /\ TradeInv' /\ ExitClosesReviewedLot'
      BY DEF IInv, ClaimInv, TradeInv, ExitClosesReviewedLot, OneTradePerRecommendation, Rows
    <2>4. BooksInv'
      BY BooksStutter DEF IInv
    <2> QED BY <2>1, <2>2, <2>3, <2>4 DEF IInv
  <1> QED BY <1>1, <1>2

(* The inductive invariant of plan execution. *)
THEOREM PlanInvariant == Spec => []IInv
  <1>1. Init => IInv
    BY InitIInv
  <1>2. IInv /\ [Next]_vars => IInv'
    BY NextIInv
  <1> QED BY <1>1, <1>2, PTL DEF Spec

(* Every variable keeps its type (storage.py and plan_store.py rows, and    *)
(* what a session holds between its transactions).                          *)
THEOREM PlanTypeCorrect == Spec => []TypeOK
  <1>1. IInv => TypeOK
    BY DEF IInv
  <1> QED BY <1>1, PlanInvariant, PTL

(* However many sessions click, retry, fail or stop in the middle, one      *)
(* recommendation records at most one trade (execute_recommendation).       *)
THEOREM RecommendationTradesOnce == Spec => []OneTradePerRecommendation
  <1>1. IInv => OneTradePerRecommendation
    BY DEF IInv, TradeInv
  <1> QED BY <1>1, PlanInvariant, PTL

(* EXECUTED implies a recorded trade; OPEN and DISMISSED imply none, also   *)
(* after a claim was released (_release_claim, dismiss_recommendation).     *)
THEOREM StatusIsTruthful == Spec => []StatusMatchesTrades
  <1>1. IInv => StatusMatchesTrades
    BY DEF IInv, TradeInv, StatusMatchesTrades
  <1> QED BY <1>1, PlanInvariant, PTL

(* A recorded REVIEW EXIT closed the lot its plan reviewed, although only   *)
(* the row id is stored (close_position by position_id).                    *)
THEOREM ExitsCloseReviewedLots == Spec => []ExitClosesReviewedLot
  <1>1. IInv => ExitClosesReviewedLot
    BY DEF IInv
  <1> QED BY <1>1, PlanInvariant, PTL

(* The dashboard's staleness test and the regeneration flag leave no gap:   *)
(* execution starts on the cash and lots the plan was computed from.        *)
THEOREM ExecutionStartsFresh == Spec => ExecutionStartsOnPlannedBook
  <1>1. IInv /\ [Next]_vars =>
          [\A s \in Sessions : pc[s] = "chosen" /\ pc'[s] = "loaded" =>
             LET p == plans[rec[s].plan]
             IN p.cash = ledger.cash /\ p.lots = ledger.open]_vars
    <2> SUFFICES ASSUME IInv, Next, NEW s \in Sessions, pc[s] = "chosen", pc'[s] = "loaded"
                 PROVE  /\ plans[rec[s].plan].cash = ledger.cash
                        /\ plans[rec[s].plan].lots = ledger.open
      OBVIOUS
    <2>0. TypeOK /\ BookInv
      BY DEF IInv
    <2>1. LoadRecommendation(s)
      <3>1. PICK u \in Sessions : Step(u)
        BY DEF Next
      <3>2. u = s
        BY <2>0, <3>1, OthersKeep
      <3> QED BY <2>0, <3>1, <3>2 DEF TypeOK, Step, Execute, ReadAccount, ReadHoldings, SavePlan,
             Choose, Dismiss, Claim, FetchSnapshot, TradeFails, ReleaseClaim,
             Finish, PlaceOrder, PreviewSnapshot, Drop, Abandon, RecordTrade, CommitOrder,
             ApplySnapshot, GoTo, Idle
    <2>2. Executable(rec[s])
      BY <2>0, <2>1 DEF LoadRecommendation, Idle, TypeOK
    <2> QED BY <2>0, <2>2 DEF Executable, Latest, BookInv
  <1> QED BY <1>1, PlanInvariant, PTL DEF Spec, ExecutionStartsOnPlannedBook

(* After a purchase the whole book fits the capacity and the symbol's cap   *)
(* at the quotes it was made with, although other sessions may have traded  *)
(* since they were downloaded (open_position inside its transaction).       *)
THEOREM PurchasesFit == Spec => PurchaseFitsSharedCapacity
  <1>1. IInv /\ [Next]_vars =>
          [\A s \in Sessions :
             (/\ pc[s] \in {"quoted", "ordered"} /\ pc'[s] # pc[s]
              /\ ledger'.cash < ledger.cash /\ ledger'.open # ledger.open
              /\ ledger'.closed = ledger.closed) =>
             LET book == ledger'.open
                 bought == {l \in book : l.dir = "LONG" /\ l.ticker = rec[s].ticker}
             IN /\ Priced(book, marks[s])
                /\ Gross(book, marks[s]) <= ledger'.starting
                /\ Gross(bought, marks[s]) <= MaxPositionValue]_vars
    <2> SUFFICES ASSUME IInv, Next, NEW s \in Sessions,
                        pc[s] \in {"quoted", "ordered"}, pc'[s] # pc[s],
                        ledger' # ledger, ledger'.closed = ledger.closed
                 PROVE  PurchaseFits(rec[s].ticker, marks[s])
      BY DEF PurchaseFits
    <2>0. TypeOK /\ TradeIdsOK /\ WorkInv /\ BooksInv
      BY DEF IInv
    <2>1. Step(s)
      BY <2>0, OthersKeep DEF Next
    <2>2. OpenByRow(rec[s], marks[s]) \/ CloseByRow(rec[s], marks[s])
      BY <2>1 DEF Step, Execute, ReadAccount, ReadHoldings, SavePlan, Choose, Dismiss,
           LoadRecommendation, Claim, FetchSnapshot, TradeFails, ReleaseClaim, Finish,
           PlaceOrder, PreviewSnapshot, Drop, Abandon, RecordTrade, CommitOrder,
           ApplySnapshot, GoTo
    <2>3. ~CloseByRow(rec[s], marks[s])
      BY <2>0, ClosingRecords
    <2> QED BY <2>0, <2>2, <2>3, BoughtFits
  <1> QED BY <1>1, PlanInvariant, PTL DEF Spec, PurchaseFitsSharedCapacity
-----------------------------------------------------------------------------
(* The sessions implement the paper ledger: whatever runs at the same time, *)
(* what the file goes through is a sequence of single transactions.         *)

(* A purchase, proposed by a plan or ordered by hand, commits one of the    *)
(* allocations the ledger knows.                                            *)
AllocInv ==
  /\ \A r \in Rows : r.action = "BUY" => r.alloc \in Allocations
  /\ \A s \in Sessions :
       (pc[s] = "ordered" /\ rec[s].action = "BUY") => rec[s].alloc \in Allocations

LEMMA ProposedAllocs ==
  ASSUME NEW p \in Nat, NEW lots, NEW rows \in Proposals(p, lots), NEW r \in rows,
         r.action = "BUY"
  PROVE  r.alloc \in Allocations
  <1>1. PICK buys \in BuyLists(p), held \in Reviews(p, lots) : rows = buys \union held
    BY DEF Proposals
  <1>2. CASE r \in buys
    <2>1. PICK t \in Tickers, a \in Allocations : r = BuyRow(p, t, a)
      BY <1>2 DEF BuyLists, BuyRows
    <2> QED BY <2>1 DEF BuyRow
  <1>3. r \notin held
    <2>1. PICK review \in [lots -> {"REVIEW EXIT", "KEEP"}] :
            held = {HoldingRow(p, review[l], l) : l \in lots}
      BY DEF Reviews
    <2>2. \A l \in lots : HoldingRow(p, review[l], l).action # "BUY"
      BY DEF HoldingRow
    <2> QED BY <2>1, <2>2
  <1> QED BY <1>1, <1>2, <1>3

LEMMA AllocStep ==
  ASSUME TypeOK, WorkInv, RowInv, AllocInv, NEW s \in Sessions, Step(s)
  PROVE  AllocInv'
  <1>1. ASSUME NEW r \in Rows', r.action = "BUY"
        PROVE  r.alloc \in Allocations
    <2>1. CASE r \in Rows
      BY <1>1, <2>1 DEF AllocInv
    <2>2. CASE r \notin Rows
      <3>1. SavePlan(s)
        BY <2>2, StatusMoves
      <3>2. PICK rows \in Proposals(Len(plans) + 1, read[s].lots) :
              status' = [x \in Rows \union rows |-> IF x \in Rows THEN status[x] ELSE "OPEN"]
        BY <3>1, SaveMoves
      <3>3. r \in rows /\ Len(plans) + 1 \in Nat
        BY <2>2, <3>2 DEF Rows, TypeOK
      <3> QED BY <1>1, <3>3, ProposedAllocs
    <2> QED BY <2>1, <2>2
  <1>2. ASSUME NEW u \in Sessions, pc'[u] = "ordered", rec'[u].action = "BUY"
        PROVE  rec'[u].alloc \in Allocations
    <2>1. CASE u # s
      <3>1. pc'[u] = pc[u] /\ rec'[u] = rec[u]
        BY <2>1, OthersKeep
      <3> QED BY <1>2, <3>1 DEF AllocInv
    <2>2. CASE u = s
      <3>1. PlaceOrder(s)
        BY <1>2, <2>2 DEF TypeOK, Step, Execute, ReadAccount, ReadHoldings, SavePlan, Choose,
           Dismiss, LoadRecommendation, Claim, FetchSnapshot, TradeFails, ReleaseClaim,
           Finish, PreviewSnapshot, Drop, Abandon, RecordTrade, CommitOrder,
           ApplySnapshot, GoTo, Idle
      <3>2. \A l : HoldingRow(0, "REVIEW EXIT", l).action # "BUY"
        BY DEF HoldingRow
      <3>3. \A t, a : BuyRow(0, t, a).alloc = a
        BY DEF BuyRow
      <3>4. \/ \E t \in Tickers, a \in ManualOrders : rec' = [rec EXCEPT ![s] = BuyRow(0, t, a)]
            \/ \E l \in ledger.open : rec' = [rec EXCEPT ![s] = HoldingRow(0, "REVIEW EXIT", l)]
        BY <3>1 DEF PlaceOrder
      <3>5. rec \in [Sessions -> Row \union {None}] /\ ManualOrders \subseteq Allocations
        BY SessionAssumption DEF TypeOK
      <3>6. \E a \in ManualOrders : rec'[s].alloc = a
        <4>1. CASE \E t \in Tickers, a \in ManualOrders : rec' = [rec EXCEPT ![s] = BuyRow(0, t, a)]
          BY <3>3, <3>5, <4>1
        <4>2. CASE \E l \in ledger.open : rec' = [rec EXCEPT ![s] = HoldingRow(0, "REVIEW EXIT", l)]
          BY <1>2, <2>2, <3>2, <3>5, <4>2
        <4> QED BY <3>4, <4>1, <4>2
      <3> QED BY <2>2, <3>5, <3>6
    <2> QED BY <2>1, <2>2
  <1> QED BY <1>1, <1>2 DEF AllocInv

(* A purchase or an exit of a session is the ledger's Open or Close. *)
LEMMA SessionTrades ==
  ASSUME TypeOK, WorkInv, AllocInv, NEW s \in Sessions, pc[s] \in {"quoted", "ordered"},
         OpenByRow(rec[s], marks[s]) \/ CloseByRow(rec[s], marks[s])
  PROVE  LedgerNext
  <1> DEFINE r == rec[s]  m == marks[s]
  <1>1. r \in Row /\ m \in Marks /\ r.ticker \in DOMAIN m
    BY DEF WorkInv, TypeOK, OnRow
  <1>2. m[r.ticker] \in Prices /\ r.ticker \in Tickers
    BY <1>1 DEF Marks, Row
  <1>3. r.action = "BUY" => r.alloc \in Allocations
    BY DEF AllocInv, WorkInv, OnRow
  <1>4. CASE OpenByRow(r, m)
    <2>1. OpenPosition(r.ticker, "LONG", m[r.ticker], r.alloc, m) /\ r.alloc \in Allocations
      BY <1>3, <1>4 DEF OpenByRow
    <2>2. "LONG" \in Directions
      BY DEF Directions
    <2> HIDE DEF r, m
    <2> QED BY <1>1, <1>2, <2>1, <2>2 DEF Open, LedgerNext
  <1>5. CASE CloseByRow(r, m)
    <2>1. ClosePosition(r.lot.id, m[r.ticker])
      BY <1>5 DEF CloseByRow
    <2>2. PICK l \in ledger.open : l.id = r.lot.id
      BY <2>1 DEF ClosePosition, IsOpen
    <2> HIDE DEF r, m
    <2> QED BY <1>2, <2>1, <2>2 DEF Close, LedgerNext
  <1> QED BY <1>4, <1>5

LEMMA SessionsStepLedger ==
  ASSUME IInv, AllocInv, NEW s \in Sessions, Step(s)
  PROVE  [LedgerNext]_ledger
  <1>0. TypeOK /\ WorkInv
    BY DEF IInv
  <1>1. CASE UNCHANGED ledger
    BY <1>1
  <1>2. CASE RecordTrade(s) \/ CommitOrder(s)
    BY <1>0, <1>2, SessionTrades DEF RecordTrade, CommitOrder, GoTo
  <1>3. CASE ApplySnapshot(s)
    <2>1. read[s] \in Form /\ ReplaceAccountSnapshot(read[s])
      BY <1>0, <1>3 DEF TypeOK, ApplySnapshot, ReadTypeOK
    <2>2. PICK c \in FormCash, k \in Capitals, hs \in Portfolios :
            read[s] = [cash |-> c, starting |-> k, holdings |-> hs]
      BY <2>1 DEF Form
    <2> QED BY <2>1, <2>2 DEF Replace, LedgerNext
  <1> QED BY <1>1, <1>2, <1>3
       DEF Step, Execute, ReadAccount, ReadHoldings, SavePlan, Choose, Dismiss,
           LoadRecommendation, Claim, FetchSnapshot, TradeFails, ReleaseClaim, Finish,
           PlaceOrder, PreviewSnapshot, Drop, Abandon

(* Sessions over one file implement the single-user ledger: every step of   *)
(* any of them is one of its transactions, with a price, an allocation and  *)
(* a form it allows, or leaves it alone, however stale what the session     *)
(* read before was (BEGIN IMMEDIATE in storage.py).                         *)
THEOREM SessionsImplementLedger == Spec => LedgerSpec
  <1>1. Init => LedgerInit /\ AllocInv
    BY DEF Init, AllocInv, Rows
  <1>2. IInv /\ AllocInv /\ [Next]_vars => AllocInv' /\ [LedgerNext]_ledger
    <2> SUFFICES ASSUME IInv, AllocInv, [Next]_vars PROVE AllocInv' /\ [LedgerNext]_ledger
      OBVIOUS
    <2>1. CASE Next
      BY <2>1, AllocStep, SessionsStepLedger DEF Next, IInv
    <2>2. CASE UNCHANGED vars
      BY <2>2 DEF vars, work, AllocInv, Rows
    <2> QED BY <2>1, <2>2
  <1> QED BY <1>1, <1>2, PlanInvariant, PTL DEF Spec, LedgerSpec

(* So what one user's ledger promises holds for any number of sessions: a   *)
(* lot can be closed at every price, a snapshot form is committed exactly   *)
(* when its preview would pass it on the ledger of then, equity is one      *)
(* number at every price, closed trades are never rewritten and only a      *)
(* losing SHORT overdraws.                                                  *)
THEOREM SharedLedgerIsSound ==
  Spec => /\ []CloseNeverRefused
          /\ []PreviewPredictsAudit
          /\ []EquityIdentity
          /\ HistoryKept
          /\ OnlyShortLossOverdraws
  BY SessionsImplementLedger, ClosesAreNeverRefused, PreviewsPredictAudits, EquityIsOne,
     ClosedHistoryIsKept, OnlyShortLossesOverdraw, PTL
=============================================================================
