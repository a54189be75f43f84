--------------------------- MODULE PlanExecution ---------------------------
(***************************************************************************)
(* Dashboard sessions sharing one paper ledger and its saved trading       *)
(* plans.  A session (one script run of src/app/competition_dashboard.py)  *)
(* builds and saves a plan, records or dismisses a recommendation, opens   *)
(* or closes a lot by hand, or replaces the account snapshot.  Each takes  *)
(* several transactions (src/paper_trading/plan_store.py, storage.py,      *)
(* account_setup.py) with a market scan or a quote download between them,  *)
(* so what a session read earlier may be stale when it writes.             *)
(*                                                                         *)
(* A session may end between any two of its transactions (the process      *)
(* stops, the browser leaves, SQLite stays locked): Abandon.               *)
(***************************************************************************)
EXTENDS PaperLedger, Sequences

CONSTANTS
  Sessions,        \* script runs that may overlap
  ManualOrders,    \* allocations of the manual purchase form, {} to leave it unused
  MaxPlans,        \* bound: plans ever saved
  MaxBuys,         \* bound: purchases one plan proposes
  MayAbandon,      \* BOOLEAN: may a session end in the middle of its work
  None             \* no value

ASSUME SessionAssumption ==
  /\ ManualOrders \subseteq Allocations
  /\ MaxPlans \in Nat /\ MaxBuys \in Nat
  /\ MayAbandon \in BOOLEAN

VARIABLES
  plans,      \* trading_plans, oldest first: [flagged, cash, starting, lots]
  status,     \* plan_recommendations: each row to its status
  pc,         \* where each session is
  read,       \* the account or snapshot form a session holds
  rec,        \* the recommendation or manual order a session works on
  marks,      \* the quotes it downloaded
  recorded    \* history: the trades recommendations have recorded

work == <<pc, read, rec, marks>>
vars == <<ledger, plans, status, recorded, work>>

-----------------------------------------------------------------------------
(* The rows *)

States == {"idle", "account read", "scanning", "chosen", "loaded", "claimed",
           "quoted", "traded", "failed", "ordered", "previewed"}

Latest == Len(plans)

(* A recommendation row without its mutable columns; `plan` is its plan's   *)
(* id, and `lot` the open lot a HOLDING row reviews.                        *)
BuyRow(p, ticker, alloc) ==
  [plan |-> p, action |-> "BUY", ticker |-> ticker, alloc |-> alloc, lot |-> None]
HoldingRow(p, action, lot) ==
  [plan |-> p, action |-> action, ticker |-> lot.ticker, alloc |-> lot.alloc, lot |-> lot]

Rows == DOMAIN status
Actions == {"BUY", "REVIEW EXIT"}     \* the actions that are paper trades

BookIds(lots) == {l.id : l \in lots}

(* plan_store.detect_plan_staleness *)
Stale(p) ==
  \/ plans[p].flagged
  \/ plans[p].cash # ledger.cash
  \/ BookIds(plans[p].lots) # BookIds(ledger.open)

FlagNothing == plans' = plans     \* mutant: a ledger write leaves the plan alone

(* storage._mark_latest_plan_needs_regeneration: the newest plan only. *)
FlagLatest ==
  plans' = IF plans = <<>> THEN plans
           ELSE [plans EXCEPT ![Latest].flagged = TRUE]

Idle(s) ==
  /\ pc' = [pc EXCEPT ![s] = "idle"]
  /\ read' = [read EXCEPT ![s] = None]
  /\ rec' = [rec EXCEPT ![s] = None]
  /\ marks' = [marks EXCEPT ![s] = None]

GoTo(s, from, to) ==
  /\ pc[s] = from
  /\ pc' = [pc EXCEPT ![s] = to]

-----------------------------------------------------------------------------
(* Generate a plan: two reads, a scan, then the insert.                     *)

ReadAccount(s) ==
  /\ Latest < MaxPlans
  /\ GoTo(s, "idle", "account read")
  /\ read' = [read EXCEPT ![s] = [cash |-> ledger.cash, starting |-> ledger.starting]]
  /\ UNCHANGED <<ledger, plans, status, recorded, rec, marks>>

ReadHoldings(s) ==
  /\ GoTo(s, "account read", "scanning")
  /\ read' = [read EXCEPT ![s] =
       [cash |-> @.cash, starting |-> @.starting, lots |-> ledger.open]]
  /\ UNCHANGED <<ledger, plans, status, recorded, rec, marks>>

(* What a scan can propose: purchases of different symbols, and for every   *)
(* holding it read a review action.                                         *)
BuyRows(p) == {BuyRow(p, t, a) : t \in Tickers, a \in Allocations}
BuyLists(p) ==
  {buys \in SUBSET BuyRows(p) :
     /\ Cardinality(buys) <= MaxBuys
     /\ \A b, c \in buys : b.ticker = c.ticker => b = c}
Reviews(p, lots) ==
  {{HoldingRow(p, review[l], l) : l \in lots} : review \in [lots -> {"REVIEW EXIT", "KEEP"}]}
Proposals(p, lots) == {b \union h : b \in BuyLists(p), h \in Reviews(p, lots)}

SavePlan(s) ==
  /\ pc[s] = "scanning"
  /\ Latest < MaxPlans
  /\ \E rows \in Proposals(Latest + 1, read[s].lots) :
       status' = [r \in Rows \union rows |-> IF r \in Rows THEN status[r] ELSE "OPEN"]
  /\ plans' = Append(plans, [flagged |-> FALSE, cash |-> read[s].cash,
                             starting |-> read[s].starting, lots |-> read[s].lots])
  /\ Idle(s)
  /\ UNCHANGED <<ledger, recorded>>

-----------------------------------------------------------------------------
(* Record a recommendation.                                                 *)

(* The dashboard rerun that handles the click offers the rows of the latest *)
(* plan, and only if that plan is not stale by now.                         *)
Choose(s) ==
  /\ GoTo(s, "idle", "chosen")
  /\ plans # <<>>
  /\ ~Stale(Latest)
  /\ \E r \in Rows :
       /\ r.plan = Latest /\ status[r] = "OPEN" /\ r.action \in Actions
       /\ rec' = [rec EXCEPT ![s] = r]
  /\ UNCHANGED <<ledger, plans, status, recorded, read, marks>>

DismissUnchecked(s) ==     \* mutant: UPDATE without AND status = 'OPEN'
  /\ pc[s] = "chosen"
  /\ status' = [status EXCEPT ![rec[s]] = "DISMISSED"]
  /\ Idle(s)
  /\ UNCHANGED <<ledger, plans, recorded>>

Dismiss(s) ==
  /\ pc[s] = "chosen"
  /\ status' = IF status[rec[s]] = "OPEN"
               THEN [status EXCEPT ![rec[s]] = "DISMISSED"] ELSE status
  /\ Idle(s)
  /\ UNCHANGED <<ledger, plans, recorded>>

(* execute_recommendation reads the row and its plan ... *)
Executable(r) ==
  /\ r.plan = Latest
  /\ status[r] = "OPEN"
  /\ ~plans[r.plan].flagged
  /\ r.action \in Actions

LoadRecommendation(s) ==
  /\ pc[s] = "chosen"
  /\ IF Executable(rec[s])
     THEN /\ pc' = [pc EXCEPT ![s] = "loaded"]
          /\ UNCHANGED <<read, rec, marks>>
     ELSE Idle(s)
  /\ UNCHANGED <<ledger, plans, status, recorded>>

ClaimUnchecked(s) ==     \* mutant: UPDATE without AND status = 'OPEN'
  /\ GoTo(s, "loaded", "claimed")
  /\ status' = [status EXCEPT ![rec[s]] = "EXECUTING"]
  /\ UNCHANGED <<ledger, plans, recorded, read, rec, marks>>

(* ... and claims the row in an UPDATE of its own, which tests only that    *)
(* the row is still OPEN.                                                   *)
Claim(s) ==
  /\ pc[s] = "loaded"
  /\ IF status[rec[s]] = "OPEN"
     THEN /\ status' = [status EXCEPT ![rec[s]] = "EXECUTING"]
          /\ pc' = [pc EXCEPT ![s] = "claimed"]
          /\ UNCHANGED <<read, rec, marks>>
     ELSE /\ Idle(s)
          /\ UNCHANGED status
  /\ UNCHANGED <<ledger, plans, recorded>>

(* Quotes for the symbol and for every lot open now, all of them or none.   *)
Quotes(ticker) == [{ticker} \union {l.ticker : l \in ledger.open} -> Prices]

FetchSnapshot(s) ==
  /\ GoTo(s, "claimed", "quoted")
  /\ \E m \in Quotes(rec[s].ticker) : marks' = [marks EXCEPT ![s] = m]
  /\ UNCHANGED <<ledger, plans, status, recorded, read, rec>>

(* The ledger transaction of a row or of a manual order. *)
OpenByRow(r, m) ==
  /\ r.action = "BUY"
  /\ OpenPosition(r.ticker, "LONG", m[r.ticker], r.alloc, m)
  /\ FlagLatest

CloseByRow(r, m) ==
  /\ r.action = "REVIEW EXIT"
  /\ ClosePosition(r.lot.id, m[r.ticker])
  /\ FlagLatest

RecordTrade(s) ==
  /\ GoTo(s, "quoted", "traded")
  /\ \/ /\ OpenByRow(rec[s], marks[s])
        /\ recorded' = recorded \union {[row |-> rec[s], kind |-> "OPEN", id |-> ledger.next]}
     \/ /\ CloseByRow(rec[s], marks[s])
        /\ recorded' = recorded \union
             {[row |-> rec[s], kind |-> "CLOSE", id |-> NextTrade(ledger)]}
  /\ UNCHANGED <<status, read, rec, marks>>

TradeFailsClaimed(s) ==     \* mutant: the except branch only reports the error
  /\ pc[s] \in {"claimed", "quoted"}
  /\ Idle(s)
  /\ UNCHANGED <<ledger, plans, status, recorded>>

(* Any failure between the claim and the commit of the trade: no quote, a   *)
(* refused purchase, a lot that is gone, a lock timeout.                    *)
TradeFails(s) ==
  /\ pc[s] \in {"claimed", "quoted"}
  /\ pc' = [pc EXCEPT ![s] = "failed"]
  /\ UNCHANGED <<ledger, plans, status, recorded, read, rec, marks>>

ReleaseClaim(s) ==
  /\ pc[s] = "failed"
  /\ status' = IF status[rec[s]] = "EXECUTING"
               THEN [status EXCEPT ![rec[s]] = "OPEN"] ELSE status
  /\ Idle(s)
  /\ UNCHANGED <<ledger, plans, recorded>>

Finish(s) ==
  /\ pc[s] = "traded"
  /\ status' = IF status[rec[s]] = "EXECUTING"
               THEN [status EXCEPT ![rec[s]] = "EXECUTED"] ELSE status
  /\ Idle(s)
  /\ UNCHANGED <<ledger, plans, recorded>>

-----------------------------------------------------------------------------
(* Trade by hand: choose, download quotes, commit. *)

(* The purchase form quotes the lots open at the click; the close form      *)
(* offers the lots of the last rerun and quotes the chosen one.             *)
PlaceOrder(s) ==
  /\ GoTo(s, "idle", "ordered")
  /\ \/ \E t \in Tickers, a \in ManualOrders : \E m \in Quotes(t) :
          /\ rec' = [rec EXCEPT ![s] = BuyRow(0, t, a)]
          /\ marks' = [marks EXCEPT ![s] = m]
     \/ \E l \in ledger.open, p \in Prices :
          /\ rec' = [rec EXCEPT ![s] = HoldingRow(0, "REVIEW EXIT", l)]
          /\ marks' = [marks EXCEPT ![s] = [t \in {l.ticker} |-> p]]
  /\ UNCHANGED <<ledger, plans, status, recorded, read>>

CommitOrder(s) ==
  /\ pc[s] = "ordered"
  /\ \/ OpenByRow(rec[s], marks[s])
     \/ CloseByRow(rec[s], marks[s])
  /\ Idle(s)
  /\ UNCHANGED <<status, recorded>>

-----------------------------------------------------------------------------
(* Replace the account snapshot: a preview whose form balances against the  *)
(* realized profit stored now, and a later confirmation.                    *)

PreviewSnapshot(s) ==
  /\ GoTo(s, "idle", "previewed")
  /\ \E c \in FormCash, k \in Capitals, hs \in Portfolios :
       LET form == [cash |-> c, starting |-> k, holdings |-> hs]
       IN CanSave(ledger, form) /\ read' = [read EXCEPT ![s] = form]
  /\ UNCHANGED <<ledger, plans, status, recorded, rec, marks>>

ApplySnapshot(s) ==
  /\ pc[s] = "previewed"
  /\ ReplaceAccountSnapshot(read[s])
  /\ FlagLatest
  /\ Idle(s)
  /\ UNCHANGED <<status, recorded>>

-----------------------------------------------------------------------------
(* Outside a claim an error, a refusal or a cancelled form ends the work    *)
(* with nothing written.                                                    *)
Drop(s) ==
  /\ pc[s] \in {"account read", "scanning", "ordered", "previewed", "chosen", "loaded"}
  /\ Idle(s)
  /\ UNCHANGED <<ledger, plans, status, recorded>>

(* The session ends while it holds a claim; nothing ever looks for it again. *)
Abandon(s) ==
  /\ MayAbandon
  /\ pc[s] \in {"claimed", "quoted", "traded", "failed"}
  /\ Idle(s)
  /\ UNCHANGED <<ledger, plans, status, recorded>>

-----------------------------------------------------------------------------
Init ==
  /\ LedgerInit
  /\ plans = <<>>
  /\ status = [r \in {} |-> "OPEN"]
  /\ recorded = {}
  /\ pc = [s \in Sessions |-> "idle"]
  /\ read = [s \in Sessions |-> None]
  /\ rec = [s \in Sessions |-> None]
  /\ marks = [s \in Sessions |-> None]

Execute(s) ==
  LoadRecommendation(s) \/ Claim(s) \/ FetchSnapshot(s) \/ RecordTrade(s)
    \/ TradeFails(s) \/ ReleaseClaim(s) \/ Finish(s)

Step(s) ==
  \/ ReadAccount(s) \/ ReadHoldings(s) \/ SavePlan(s)
  \/ Choose(s) \/ Dismiss(s) \/ Execute(s)
  \/ PlaceOrder(s) \/ CommitOrder(s)
  \/ PreviewSnapshot(s) \/ ApplySnapshot(s)
  \/ Drop(s) \/ Abandon(s)

Next == \E s \in Sessions : Step(s)

(* execute_recommendation, once called, runs to its end: fair. What a user  *)
(* clicks is not.                                                           *)
Fairness == \A s \in Sessions : WF_vars(Execute(s))

Spec == Init /\ [][Next]_vars
FairSpec == Spec /\ Fairness

-----------------------------------------------------------------------------
(* Properties *)

Claimers == {s \in Sessions : pc[s] \in {"claimed", "quoted", "traded", "failed"}}
Traders == {s \in Sessions : pc[s] = "quoted" /\ pc'[s] = "traded"}

Row == [plan : Nat, action : Actions \union {"KEEP"}, ticker : Tickers,
        alloc : Nat \ {0}, lot : Lot \union {None}]
Plan == [flagged : BOOLEAN, cash : Int, starting : Nat \ {0}, lots : SUBSET Lot]
Form == [cash : FormCash, starting : Capitals, holdings : Portfolios]

ReadTypeOK(s) ==
  /\ pc[s] = "account read" => read[s] \in [cash : Int, starting : Nat \ {0}]
  /\ pc[s] = "scanning" =>
       read[s] \in [cash : Int, starting : Nat \ {0}, lots : SUBSET Lot]
  /\ pc[s] = "previewed" => read[s] \in Form

TypeOK ==
  /\ LedgerTypeOK
  /\ plans \in Seq(Plan)
  /\ Rows \subseteq Row
  /\ status \in [Rows -> {"OPEN", "EXECUTING", "EXECUTED", "DISMISSED"}]
  /\ pc \in [Sessions -> States]
  /\ DOMAIN read = Sessions /\ (\A s \in Sessions : ReadTypeOK(s))
  /\ rec \in [Sessions -> Row \union {None}]
  /\ marks \in [Sessions -> Marks \union {None}]
  /\ recorded \subseteq [row : Row, kind : {"OPEN", "CLOSE"}, id : Nat \ {0}]

(* A recommendation is traded at most once, whatever sessions click at the  *)
(* same time, whatever failed or ended on the way, and however often it was *)
(* retried ("a second click or rerun cannot insert another trade").         *)
OneTradePerRecommendation ==
  \A a, b \in recorded : a.row = b.row => a = b

(* The status column tells the truth about the ledger: EXECUTED only after  *)
(* a trade, and a row that is offered again (OPEN after a released claim)   *)
(* or DISMISSED has never been traded.                                      *)
StatusMatchesTrades ==
  \A r \in Rows :
    LET traded == \E a \in recorded : a.row = r
    IN /\ status[r] = "EXECUTED" => traded
       /\ status[r] \in {"OPEN", "DISMISSED"} => ~traded

(* Recording a REVIEW EXIT closes the very lot the plan reviewed, even if   *)
(* that lot was closed by hand or the holdings were replaced meanwhile: a   *)
(* row id stored in a plan never comes to mean another lot.                 *)
ExitClosesReviewedLot ==
  \A a \in recorded : a.kind = "CLOSE" =>
    \E t \in ledger.closed : t.id = a.id /\ t.lot = a.row.lot

(* When execute_recommendation accepts a plan, the account still has the    *)
(* cash and the lots the plan was computed from: the dashboard's staleness  *)
(* test and the regeneration flag together leave no gap, although the plan  *)
(* was saved after a long scan and the claim reads only the flag.           *)
ExecutionStartsOnPlannedBook ==
  [][\A s \in Sessions : pc[s] = "chosen" /\ pc'[s] = "loaded" =>
       LET p == plans[rec[s].plan]
       IN p.cash = ledger.cash /\ p.lots = ledger.open]_vars

(* After a purchase the whole book, the lots other sessions opened since    *)
(* the quotes included, fits the shared capacity and the per-symbol cap at  *)
(* the quotes the purchase was made with; an unquoted lot stops it.         *)
PurchaseFitsSharedCapacity ==
  [][\A s \in Sessions :
       (/\ pc[s] \in {"quoted", "ordered"} /\ pc'[s] # pc[s]
        /\ ledger'.cash < ledger.cash /\ ledger'.open # ledger.open
        /\ ledger'.closed = ledger.closed) =>
       LET book == ledger'.open
           bought == {l \in book : l.dir = "LONG" /\ l.ticker = rec[s].ticker}
       IN /\ Priced(book, marks[s])
          /\ Gross(book, marks[s]) <= ledger'.starting
          /\ Gross(bought, marks[s]) <= MaxPositionValue]_vars

(* A claim does not last: while sessions live, a row leaves EXECUTING,      *)
(* whether its trade commits, is refused, or finds no quote.                *)
Key(r) == IF r.action = "BUY" THEN r.ticker ELSE r.lot.id
Executing(p, k) == \E r \in Rows : r.plan = p /\ Key(r) = k /\ status[r] = "EXECUTING"
ClaimsSettle ==
  \A p \in 1 .. MaxPlans, k \in Tickers \union (1 .. MaxPositions) :
    Executing(p, k) ~> ~Executing(p, k)

(* "Generate a new plan before recording another trade": no recommendation  *)
(* is recorded from a plan whose snapshot is known to have changed.         *)
NoTradeFromFlaggedPlan ==
  [][\A s \in Traders : ~plans[rec[s].plan].flagged]_vars

(* A plan that need not be regenerated has the account snapshot of the      *)
(* ledger, starting capital included.                                       *)
FreshPlanHasLedgerCapital ==
  (plans # <<>> /\ ~Stale(Latest)) => plans[Latest].starting = ledger.starting
=============================================================================
