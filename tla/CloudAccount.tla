---------------------------- MODULE CloudAccount ----------------------------
(***************************************************************************)
(* The hosted portfolios of one user, as the SQL functions of              *)
(* src/supabase/migrations keep them: versioned accounts, their open       *)
(* positions, saved plans, paper actions and account snapshots.            *)
(*                                                                         *)
(* Every function takes the account's row lock (or the user's advisory     *)
(* lock) before it reads what it decides on, and runs in one transaction,  *)
(* so it is one step.  The exception is the timestamp of a plan: now() is  *)
(* the start of the transaction, which is before the lock is granted.      *)
(*                                                                         *)
(* A request may arrive late, twice, or after others have changed the      *)
(* account: requests are not stored, any request a client could have built *)
(* from a version it once read can be handled at any time.  A request that *)
(* is refused, or answered from paper_actions, changes nothing: a stutter. *)
(*                                                                         *)
(* Money is counted in units of the last decimal of a money column,        *)
(* numeric(18,4): what is stored there is rounded to a whole number of     *)
(* them, each column on its own.  A price has more decimals, numeric(18,6):*)
(* it is counted in units that go Fine to a unit of money, and arithmetic  *)
(* before a column is reached is exact.                                    *)
(***************************************************************************)
EXTENDS Integers, Sequences, FiniteSets, FiniteSetsExt

CONSTANTS
  Accounts,       \* ids of portfolios
  Requests,       \* creation request ids
  Writers,        \* plan-saving transactions that may overlap
  Keys,           \* idempotency keys
  Tickers,
  Quantities,     \* share counts of a paper action or a holding
  Proposals,      \* what a plan can say of one ticker
  Forms,          \* account snapshots a user can submit
  Fine,           \* 100: units of a price in a unit of money
  MinStockPrice,  \* 5
  PurchaseCap,    \* 20000
  MaxPortfolios,  \* 20
  MaxVersion,     \* bound: versions of an account
  MaxPlans,       \* bound: plan-saving transactions begun
  None            \* no value

Directions == {"LONG", "SHORT"}
Position == [ticker : Tickers, dir : Directions, qty : Nat \ {0}, basis : Nat]
Proposal == [action : {"BUY", "SELL", "WAIT", "AVOID"},
             price : (Nat \ {0}) \union {None},   \* None: no close of the plan's session
             proposed : Nat]
Form == [cash : Nat, starting : Nat, positions : SUBSET Position]

(* One row per ticker and side. *)
OneSide(ps) == \A p, q \in ps : p.ticker = q.ticker /\ p.dir = q.dir => p = q

ASSUME InputAssumption ==
  /\ Quantities \subseteq Nat \ {0}
  /\ Proposals \subseteq Proposal
  /\ Forms \subseteq Form
  /\ \A f \in Forms : IsFiniteSet(f.positions) /\ OneSide(f.positions)
  /\ Fine \in Nat \ {0}
  /\ {MinStockPrice, PurchaseCap, MaxPortfolios, MaxVersion, MaxPlans} \subseteq Nat
ASSUME NoneAssumption == None \notin Nat     \* plans are numbered

VARIABLES
  accounts,    \* competition_accounts: [version, cash, starting, request]
  positions,   \* positions that are OPEN, by account
  plans,       \* plans in the order they were inserted
  rows,        \* recommendations of each plan, by ticker
  actions,     \* paper_actions
  snapshots,   \* portfolio_snapshots
  saving,      \* the transaction each plan writer has begun
  clock        \* the last timestamp now() returned to a plan writer

book == <<accounts, positions, snapshots>>
vars == <<book, plans, rows, actions, saving, clock>>

-----------------------------------------------------------------------------
(* n / d as a column keeps it: to the nearest unit, a half away from zero. *)
Rounded(n, d) ==
  IF 2 * (n % d) > d \/ (2 * (n % d) = d /\ n > 0) THEN n \div d + 1 ELSE n \div d

Value(ps) == MapThenSumSet(LAMBDA p : p.qty * p.price, ps)
Basis(ps) == MapThenSumSet(LAMBDA p : p.basis, ps)

Plans(a) == {i \in DOMAIN plans : plans[i].account = a}

(* order by generated_at desc limit 1 *)
IsLatest(i) == \A j \in Plans(plans[i].account) : plans[j].at <= plans[i].at

Live(i) ==
  /\ plans[i].status = "CURRENT"
  /\ plans[i].version = accounts[plans[i].account].version

(* set status = s where status = 'CURRENT' *)
RetireEverywhere(a, s) ==     \* mutant: the plans of every portfolio
  [i \in DOMAIN plans |->
     IF plans[i].status = "CURRENT" THEN [plans[i] EXCEPT !.status = s] ELSE plans[i]]

Retire(a, s) ==
  [i \in DOMAIN plans |->
     IF i \in Plans(a) /\ plans[i].status = "CURRENT"
     THEN [plans[i] EXCEPT !.status = s] ELSE plans[i]]

(* get_current_account_snapshot: the plan whose recommendations it returns. *)
ShownPlans(a) == {i \in Plans(a) : IsLatest(i) /\ Live(i)}
ShownSnapshots(a) ==
  {s \in snapshots : s.account = a /\
     \A r \in snapshots : r.account = a => r.version <= s.version}

Snapshot(a, version, cash, ps) ==
  [account |-> a, version |-> version, cash |-> cash, positions |-> ps]

-----------------------------------------------------------------------------
(* create_portfolio; with request None, create_or_get_competition_account  *)
(* (its request id is random). A request id that has an account is answered *)
(* with it, and so is a first login that has one.                          *)
CreatePortfolio(a, request, cash, starting) ==
  /\ a \notin DOMAIN accounts
  /\ IF request = None THEN DOMAIN accounts = {}
     ELSE \A b \in DOMAIN accounts : accounts[b].request # request
  /\ Cardinality(DOMAIN accounts) < MaxPortfolios
  /\ accounts' = [b \in DOMAIN accounts \union {a} |->
       IF b = a THEN [version |-> 1, cash |-> cash, starting |-> starting,
                      request |-> request]
       ELSE accounts[b]]
  /\ snapshots' = snapshots \union {Snapshot(a, 1, cash, {})}
  /\ UNCHANGED <<positions, plans, rows, actions, saving, clock>>

(* update_competition_account_snapshot *)
UpdateSnapshotKeepingPlan(a, expected, form) ==     \* mutant: the plan stays CURRENT
  /\ accounts[a].version = expected /\ expected < MaxVersion
  /\ positions' = [positions EXCEPT ![a] = form.positions]
  /\ accounts' = [accounts EXCEPT ![a].version = @ + 1, ![a].cash = form.cash,
                                  ![a].starting = form.starting]
  /\ snapshots' = snapshots \union
       {Snapshot(a, expected, accounts[a].cash, positions[a]),
        Snapshot(a, expected + 1, form.cash, form.positions)}
  /\ UNCHANGED <<plans, rows, actions, saving, clock>>

UpdateSnapshotAtOldVersion(a, expected, form) ==    \* mutant: both snapshots get the old version
  /\ accounts[a].version = expected /\ expected < MaxVersion
  /\ positions' = [positions EXCEPT ![a] = form.positions]
  /\ accounts' = [accounts EXCEPT ![a].version = @ + 1, ![a].cash = form.cash,
                                  ![a].starting = form.starting]
  /\ snapshots' = snapshots \union
       {Snapshot(a, expected, accounts[a].cash, positions[a]),
        Snapshot(a, expected, form.cash, form.positions)}
  /\ plans' = Retire(a, "STALE")
  /\ UNCHANGED <<rows, actions, saving, clock>>

UpdateSnapshotSilently(a, expected, form) ==        \* mutant: no new version
  /\ accounts[a].version = expected /\ expected < MaxVersion
  /\ positions' = [positions EXCEPT ![a] = form.positions]
  /\ accounts' = [accounts EXCEPT ![a].cash = form.cash, ![a].starting = form.starting]
  /\ snapshots' = snapshots \union {Snapshot(a, expected, form.cash, form.positions)}
  /\ plans' = Retire(a, "STALE")
  /\ UNCHANGED <<rows, actions, saving, clock>>

UpdateSnapshot(a, expected, form) ==
  /\ accounts[a].version = expected /\ expected < MaxVersion
  /\ positions' = [positions EXCEPT ![a] = form.positions]
  /\ accounts' = [accounts EXCEPT ![a].version = @ + 1, ![a].cash = form.cash,
                                  ![a].starting = form.starting]
  /\ snapshots' = snapshots \union      \* the backup, then the new snapshot
       {Snapshot(a, expected, accounts[a].cash, positions[a]),
        Snapshot(a, expected + 1, form.cash, form.positions)}
  /\ plans' = Retire(a, "STALE")
  /\ UNCHANGED <<rows, actions, saving, clock>>

-----------------------------------------------------------------------------
(* save_generated_trading_plan: begun (now() is fixed), then, once the row  *)
(* lock is granted, refused or committed.                                   *)
BeginSave(w, a, expected, proposed) ==
  /\ saving[w] = None /\ clock < MaxPlans
  /\ clock' = clock + 1
  /\ saving' = [saving EXCEPT ![w] =
       [account |-> a, version |-> expected, at |-> clock + 1, proposed |-> proposed]]
  /\ UNCHANGED <<book, plans, rows, actions>>

SaveUnversioned(w) ==       \* mutant: the expected version is not compared
  /\ saving[w] # None
  /\ LET tx == saving[w]
     IN /\ plans' = Append(Retire(tx.account, "ARCHIVED"),
                           [account |-> tx.account, version |-> tx.version,
                            at |-> tx.at, status |-> "CURRENT"])
        /\ rows' = Append(rows, [t \in DOMAIN tx.proposed |->
                     [proposal |-> tx.proposed[t], status |-> "OPEN"]])
  /\ saving' = [saving EXCEPT ![w] = None]
  /\ UNCHANGED <<book, actions, clock>>

SavePlan(w) ==
  /\ saving[w] # None
  /\ LET tx == saving[w]
     IN IF accounts[tx.account].version = tx.version
        THEN /\ plans' = Append(Retire(tx.account, "ARCHIVED"),
                                [account |-> tx.account, version |-> tx.version,
                                 at |-> tx.at, status |-> "CURRENT"])
             /\ rows' = Append(rows, [t \in DOMAIN tx.proposed |->
                          [proposal |-> tx.proposed[t], status |-> "OPEN"]])
        ELSE UNCHANGED <<plans, rows>>
  /\ saving' = [saving EXCEPT ![w] = None]
  /\ UNCHANGED <<book, actions, clock>>

-----------------------------------------------------------------------------
(* set_recommendation_status *)
SetStatus(i, t, status) ==
  /\ Live(i)
  /\ rows[i][t].status \notin {"RECORDED", status}
  /\ rows' = [rows EXCEPT ![i][t].status = status]
  /\ UNCHANGED <<book, plans, actions, saving, clock>>

-----------------------------------------------------------------------------
(* record_recommendation_paper_action *)

Close(i, t) == IF t \in DOMAIN rows[i] THEN rows[i][t].proposal.price ELSE None
Held(a, t) == {p \in positions[a] : p.ticker = t /\ p.dir = "LONG"}

(* The positions at the closes of plan i. *)
Valued(ps, i) == {[ticker |-> p.ticker, qty |-> p.qty, price |-> Close(i, p.ticker)] : p \in ps}
Of(t, ps) == {p \in ps : p.ticker = t}

Priceable(a, i) == \A p \in positions[a] : p.dir = "LONG" /\ Close(i, p.ticker) # None

(* The plan and the recommendation can still be recorded from. *)
Recordable(a, i, t, qty) ==
  /\ i \in Plans(a) /\ Live(i) /\ IsLatest(i)
  /\ t \in DOMAIN rows[i] /\ rows[i][t].status = "OPEN"
  /\ Close(i, t) # None
  /\ LET row == rows[i][t].proposal
     IN \/ row.action = "SELL"
        \/ row.action = "BUY" /\ row.price >= MinStockPrice * Fine /\ qty <= row.proposed
  /\ Priceable(a, i)

FitsPerPurchase(a, i, t, cost) ==   \* mutant: shares already held do not count
  /\ cost <= accounts[a].cash * Fine
  /\ accounts[a].starting > 0
  /\ Value(Valued(positions[a], i)) + cost <= accounts[a].starting * Fine
  /\ cost <= PurchaseCap * Fine

FitsOnCredit(a, i, t, cost) ==      \* mutant: cash is not compared
  /\ accounts[a].starting > 0
  /\ Value(Valued(positions[a], i)) + cost <= accounts[a].starting * Fine
  /\ Value(Of(t, Valued(positions[a], i))) + cost <= PurchaseCap * Fine

Fits(a, i, t, cost) ==
  /\ cost <= accounts[a].cash * Fine
  /\ accounts[a].starting > 0
  /\ Value(Valued(positions[a], i)) + cost <= accounts[a].starting * Fine
  /\ Value(Of(t, Valued(positions[a], i))) + cost <= PurchaseCap * Fine

Long(t, qty, basis) == [ticker |-> t, dir |-> "LONG", qty |-> qty, basis |-> basis]

(* What an accepted purchase or exit does, each column rounded on its own:  *)
(* [kind, positions, cash, released, realized].                             *)
Purchase(a, i, t, qty) ==
  LET cost == qty * Close(i, t)
      held == Held(a, t)
  IN [kind |-> IF held = {} THEN "OPEN" ELSE "INCREASE",
      positions |-> (positions[a] \ held) \union
        (IF held = {} THEN {Long(t, qty, Rounded(cost, Fine))}
         ELSE {Long(t, p.qty + qty, Rounded(p.basis * Fine + cost, Fine)) : p \in held}),
      cash |-> Rounded(accounts[a].cash * Fine - cost, Fine),
      released |-> 0, realized |-> 0]

ExitKeepingBasis(a, i, t, qty) ==   \* mutant: the remaining shares keep the whole basis
  LET held == CHOOSE p \in Held(a, t) : TRUE
      proceeds == qty * Close(i, t)
      share == held.basis * qty
  IN [kind |-> IF qty = held.qty THEN "CLOSE" ELSE "DECREASE",
      positions |-> (positions[a] \ {held}) \union
        (IF qty = held.qty THEN {} ELSE {Long(t, held.qty - qty, held.basis)}),
      cash |-> Rounded(accounts[a].cash * Fine + proceeds, Fine),
      released |-> Rounded(share, held.qty),
      realized |-> Rounded(proceeds * held.qty - share * Fine, held.qty * Fine)]

(* share / held.qty is the basis of the shares sold. *)
Exit(a, i, t, qty) ==
  LET held == CHOOSE p \in Held(a, t) : TRUE
      proceeds == qty * Close(i, t)
      share == held.basis * qty
  IN [kind |-> IF qty = held.qty THEN "CLOSE" ELSE "DECREASE",
      positions |-> (positions[a] \ {held}) \union
        (IF qty = held.qty THEN {}
         ELSE {Long(t, held.qty - qty, Rounded(held.basis * held.qty - share, held.qty))}),
      cash |-> Rounded(accounts[a].cash * Fine + proceeds, Fine),
      released |-> Rounded(share, held.qty),
      realized |-> Rounded(proceeds * held.qty - share * Fine, held.qty * Fine)]

Fill(a, i, t, qty) ==
  IF rows[i][t].proposal.action = "BUY" THEN Purchase(a, i, t, qty) ELSE Exit(a, i, t, qty)

Covered(a, i, t, qty) ==
  IF rows[i][t].proposal.action = "BUY" THEN Fits(a, i, t, qty * Close(i, t))
  ELSE \E p \in Held(a, t) : qty <= p.qty

BookFill(a, i, t, qty, expected, key) ==
  LET fill == Fill(a, i, t, qty)
  IN /\ positions' = [positions EXCEPT ![a] = fill.positions]
     /\ accounts' = [accounts EXCEPT ![a].cash = fill.cash, ![a].version = @ + 1]
     /\ snapshots' = snapshots \union
          {Snapshot(a, expected + 1, fill.cash, fill.positions)}
     /\ actions' = actions \union
          {[key |-> key, account |-> a, plan |-> i, ticker |-> t, kind |-> fill.kind,
            qty |-> qty, before |-> expected, after |-> expected + 1,
            released |-> fill.released, realized |-> fill.realized]}

RecordActionLeavingRow(a, i, t, qty, expected, key) ==   \* mutant: the row stays OPEN
  /\ accounts[a].version = expected /\ expected < MaxVersion
  /\ \A x \in actions : x.key # key
  /\ Recordable(a, i, t, qty) /\ Covered(a, i, t, qty)
  /\ BookFill(a, i, t, qty, expected, key)
  /\ plans' = [plans EXCEPT ![i].status = "STALE"]
  /\ UNCHANGED <<rows, saving, clock>>

RecordAction(a, i, t, qty, expected, key) ==
  /\ accounts[a].version = expected /\ expected < MaxVersion
  /\ \A x \in actions : x.key # key     \* a known key is answered or refused
  /\ Recordable(a, i, t, qty) /\ Covered(a, i, t, qty)
  /\ BookFill(a, i, t, qty, expected, key)
  /\ rows' = [rows EXCEPT ![i][t].status = "RECORDED"]
  /\ plans' = [plans EXCEPT ![i].status = "STALE"]
  /\ UNCHANGED <<saving, clock>>

-----------------------------------------------------------------------------
Init ==
  /\ accounts = [a \in {} |-> None]
  /\ positions = [a \in Accounts |-> {}]
  /\ plans = <<>> /\ rows = <<>>
  /\ actions = {} /\ snapshots = {}
  /\ saving = [w \in Writers |-> None]
  /\ clock = 0

(* The versions a client can have read. *)
Seen(a) == 1 .. accounts[a].version

Create ==
  \E a \in Accounts, r \in Requests \union {None}, f \in Forms :
    CreatePortfolio(a, r, f.cash, f.starting)
Update ==
  \E a \in DOMAIN accounts, f \in Forms : \E v \in Seen(a) : UpdateSnapshot(a, v, f)
Begin ==
  \E w \in Writers, a \in DOMAIN accounts, D \in SUBSET Tickers :
    \E v \in Seen(a), ps \in [D -> Proposals] : BeginSave(w, a, v, ps)
Save == \E w \in Writers : SavePlan(w)
Review ==
  \E i \in DOMAIN plans, s \in {"OPEN", "DISMISSED"} : \E t \in DOMAIN rows[i] : SetStatus(i, t, s)
Record ==
  \E a \in DOMAIN accounts, i \in DOMAIN plans, q \in Quantities, k \in Keys :
    \E t \in DOMAIN rows[i], v \in Seen(a) : RecordAction(a, i, t, q, v, k)

Next == Create \/ Update \/ Begin \/ Save \/ Review \/ Record
Spec == Init /\ [][Next]_vars

-----------------------------------------------------------------------------
(* Properties *)

Account == [version : Nat \ {0}, cash : Nat, starting : Nat, request : Requests \union {None}]
Plan == [account : Accounts, version : Nat \ {0}, at : Nat,
         status : {"CURRENT", "STALE", "ARCHIVED"}]
PlanRow == [proposal : Proposals, status : {"OPEN", "DISMISSED", "RECORDED"}]
OverTickers(f, R) == DOMAIN f \subseteq Tickers /\ f \in [DOMAIN f -> R]
Action == [key : Keys, account : Accounts, plan : Nat, ticker : Tickers,
           kind : {"OPEN", "INCREASE", "CLOSE", "DECREASE"}, qty : Quantities,
           before : Nat \ {0}, after : Nat \ {0}, released : Nat, realized : Int]

SavingOK(tx) ==
  /\ tx.account \in DOMAIN accounts /\ tx.version \in Seen(tx.account)
  /\ tx.at \in 1 .. clock
  /\ OverTickers(tx.proposed, Proposals)

TypeOK ==
  /\ DOMAIN accounts \subseteq Accounts /\ accounts \in [DOMAIN accounts -> Account]
  /\ positions \in [Accounts -> SUBSET Position]
  /\ \A a \in Accounts : OneSide(positions[a])
  /\ plans \in Seq(Plan)
  /\ \A i \in DOMAIN plans : plans[i].account \in DOMAIN accounts
  /\ Len(rows) = Len(plans) /\ \A i \in DOMAIN plans : OverTickers(rows[i], PlanRow)
  /\ actions \subseteq Action
  /\ snapshots \subseteq [account : Accounts, version : Nat \ {0}, cash : Nat,
                          positions : SUBSET Position]
  /\ DOMAIN saving = Writers /\ \A w \in Writers : saving[w] = None \/ SavingOK(saving[w])
  /\ clock \in Nat

(* An account has at most one CURRENT plan, and that plan was computed from *)
(* the account's present version: whatever requests overlapped, arrived     *)
(* late or were refused, no plan of an older book can be acted on           *)
(* (save_generated_trading_plan, update_competition_account_snapshot,       *)
(* record_recommendation_paper_action).                                     *)
CurrentPlanMatchesAccount ==
  \A i, j \in DOMAIN plans :
    plans[i].status = "CURRENT" =>
      /\ Live(i)
      /\ (plans[j].status = "CURRENT" /\ plans[j].account = plans[i].account => i = j)

(* A version names one state of the book: cash, starting capital or         *)
(* positions never change without the version moving by one, so a request   *)
(* that carries the current version was reviewed on the current book.       *)
VersionNamesBook ==
  [][\A a \in DOMAIN accounts :
       \/ accounts'[a].version = accounts[a].version + 1
       \/ accounts'[a] = accounts[a] /\ positions'[a] = positions[a]]_vars

(* A recommendation is RECORDED exactly when one paper action was booked    *)
(* for it, and no version of an account was consumed by two actions: late   *)
(* and repeated requests, with the same key or another, book nothing more.  *)
RecordedOnce ==
  /\ \A i \in DOMAIN rows : \A t \in DOMAIN rows[i] :
       rows[i][t].status = "RECORDED" <=> (\E x \in actions : x.plan = i /\ x.ticker = t)
  /\ \A x, y \in actions :
       \/ x.key = y.key
       \/ x.plan = y.plan /\ x.ticker = y.ticker
       \/ x.account = y.account /\ x.before = y.before
       => x = y

(* After a recorded purchase the account fits its capacity at the closes of *)
(* the plan it came from, the shares held before included.                  *)
PurchaseFitsCapacity ==
  [][\A x \in actions' \ actions : x.kind \in {"OPEN", "INCREASE"} =>
       LET held == Valued(positions'[x.account], x.plan)
       IN /\ Value(held) <= accounts'[x.account].starting * Fine
          /\ Value(Of(x.ticker, held)) <= PurchaseCap * Fine]_vars

(* A paper action moves money and never makes it: cash plus cost basis      *)
(* grows by the profit the action reports, and the basis of the holdings    *)
(* shrinks by the basis it reports as released, each to within one unit of  *)
(* the last stored decimal, partial exits and the rounding of every column  *)
(* included.                                                                *)
Near(m, n) == m - n \in {-1, 0, 1}
ActionConservesBasis ==
  [][\A x \in actions' \ actions :
       LET earned == accounts'[x.account].cash - accounts[x.account].cash
           shed == Basis(positions[x.account]) - Basis(positions'[x.account])
       IN /\ Near(earned - shed, x.realized)
          /\ x.kind \in {"CLOSE", "DECREASE"} => Near(shed, x.released)]_vars

(* The snapshot an account is shown with, the one of the highest version    *)
(* among backups and replacements, has the account's cash and positions.    *)
ShownSnapshotIsCurrent ==
  \A a \in DOMAIN accounts :
    /\ ShownSnapshots(a) # {}
    /\ \A s \in ShownSnapshots(a) : s.cash = accounts[a].cash /\ s.positions = positions[a]

(* A request for one portfolio leaves the others of the user as they were:  *)
(* no book, plan or recommendation of another account moves with it, though *)
(* accounts share idempotency keys, plan numbers and the creation lock.     *)
Touched(a) ==
  \/ accounts'[a] # accounts[a] \/ positions'[a] # positions[a]
  \/ \E i \in Plans(a) : plans'[i] # plans[i] \/ rows'[i] # rows[i]
  \/ \E i \in DOMAIN plans' \ DOMAIN plans : plans'[i].account = a
AccountsAreSeparate ==
  [][\A a, b \in DOMAIN accounts : Touched(a) /\ Touched(b) => a = b]_vars

(* A plan is an offer for one version of its account, consumed by the first *)
(* change of that account: the abstract specification PlanOffer, with the   *)
(* CURRENT plan of an account as its offer.                                 *)
CurrentPlans(a) == {i \in Plans(a) : plans[i].status = "CURRENT"}
Offers == INSTANCE PlanOffer WITH
  version <- [a \in DOMAIN accounts |-> accounts[a].version],
  offer <- [a \in Accounts |->
              IF CurrentPlans(a) = {} THEN None ELSE CHOOSE i \in CurrentPlans(a) : TRUE],
  issued <- Len(plans),
  filled <- {<<x.plan, x.ticker>> : x \in actions}
ImplementsOffers == Offers!Spec

(* "A plan becomes stale when its input portfolio version changes, required *)
(* prices age beyond policy, or its configured time boundary passes": a     *)
(* CURRENT plan of the present version is the one shown and recorded from.  *)
CurrentPlanIsShown ==
  \A i \in DOMAIN plans : Live(i) => i \in ShownPlans(plans[i].account)
=============================================================================
