------------------------- MODULE CloudAccountProofs -------------------------
(* Proofs about hosted portfolios: for any number of accounts, requests,    *)
(* plans and overlapping saves, and any forms and proposals.                *)
EXTENDS CloudAccount, SequenceTheorems, FiniteSums

UnopenedIsEmpty == \A a \in Accounts \ DOMAIN accounts : positions[a] = {}

(* What a booked action says of the plan, row and version it came from.     *)
ActionInv ==
  /\ RecordedOnce
  /\ \A x \in actions :
       /\ x.plan \in DOMAIN plans /\ x.account = plans[x.plan].account
       /\ x.ticker \in DOMAIN rows[x.plan]
       /\ x.before < accounts[x.account].version

(* No snapshot is newer than its account, the one of its version shows it.  *)
SnapInv ==
  /\ \A s \in snapshots :
       /\ s.account \in DOMAIN accounts
       /\ s.version <= accounts[s.account].version
       /\ s.version = accounts[s.account].version =>
            s.cash = accounts[s.account].cash /\ s.positions = positions[s.account]
  /\ \A a \in DOMAIN accounts :
       \E s \in snapshots : s.account = a /\ s.version = accounts[a].version

(* The recommendations of one plan. *)
RowTables == UNION {[D -> PlanRow] : D \in SUBSET Tickers}
RowsOK == rows \in Seq(RowTables)

IInv == TypeOK /\ RowsOK /\ UnopenedIsEmpty /\ CurrentPlanMatchesAccount /\ ActionInv /\ SnapInv

-----------------------------------------------------------------------------
LEMMA Numbers ==
  ASSUME TypeOK
  PROVE  /\ Len(plans) \in Nat /\ DOMAIN plans = 1 .. Len(plans)
         /\ \A i \in DOMAIN plans : plans[i] \in Plan
         /\ plans \in [DOMAIN plans -> Plan]
  BY LenProperties, ElementOfSeq DEF TypeOK

LEMMA InitIInv == Init => IInv
  <1> SUFFICES ASSUME Init PROVE IInv
    OBVIOUS
  <1>1. plans \in Seq(Plan) /\ Len(plans) = 0 /\ DOMAIN plans = {} /\ Len(rows) = 0 /\ DOMAIN rows = {}
    BY DEF Init
  <1>2. DOMAIN accounts = {}
    BY DEF Init
  <1>3. TypeOK
    BY <1>1, <1>2 DEF Init, TypeOK, OneSide
  <1>4. UnopenedIsEmpty /\ CurrentPlanMatchesAccount /\ SnapInv
    BY <1>1, <1>2 DEF Init, UnopenedIsEmpty, CurrentPlanMatchesAccount, SnapInv
  <1>5. ActionInv
    BY <1>1 DEF Init, ActionInv, RecordedOnce
  <1>6. RowsOK
    BY DEF Init, RowsOK
  <1> QED BY <1>6, <1>3, <1>4, <1>5 DEF IInv

-----------------------------------------------------------------------------
(* A step that moves one account to version v and takes a snapshot of it.   *)
LEMMA SnapStep ==
  ASSUME SnapInv, NEW a, NEW backups, accounts'[a].version \in Nat,
         DOMAIN accounts' = DOMAIN accounts \union {a},
         \A b \in DOMAIN accounts : b # a => accounts'[b] = accounts[b] /\ positions'[b] = positions[b],
         snapshots' = snapshots \union backups \union
           {Snapshot(a, accounts'[a].version, accounts'[a].cash, positions'[a])},
         \A s \in snapshots \union backups : s.version \in Nat,
         \A s \in snapshots : s.account = a => s.version < accounts'[a].version,
         \A s \in backups : s.account = a /\ s.version < accounts'[a].version
  PROVE  SnapInv'
  <1> DEFINE snap == Snapshot(a, accounts'[a].version, accounts'[a].cash, positions'[a])
  <1>1. snap.account = a /\ snap.version = accounts'[a].version
        /\ snap.cash = accounts'[a].cash /\ snap.positions = positions'[a]
        /\ snapshots' = snapshots \union backups \union {snap}
    BY DEF Snapshot
  <1> HIDE DEF snap
  <1>2. ASSUME NEW s \in snapshots'
        PROVE  /\ s.account \in DOMAIN accounts'
               /\ s.version <= accounts'[s.account].version
               /\ s.version = accounts'[s.account].version =>
                    s.cash = accounts'[s.account].cash /\ s.positions = positions'[s.account]
    <2>1. CASE s \in {snap}
      BY <1>1, <2>1
    <2>2. CASE s \in backups
      BY <2>2
    <2>3. CASE s \in snapshots
      BY <2>3 DEF SnapInv
    <2> QED BY <1>1, <2>1, <2>2, <2>3
  <1>3. ASSUME NEW b \in DOMAIN accounts'
        PROVE  \E s \in snapshots' : s.account = b /\ s.version = accounts'[b].version
    <2>1. CASE b = a
      BY <1>1, <2>1
    <2>2. CASE b # a
      BY <1>1, <2>2 DEF SnapInv
    <2> QED BY <2>1, <2>2
  <1> QED BY <1>2, <1>3 DEF SnapInv

(* Retiring changes the status of one account's CURRENT plan, nothing else. *)
LEMMA RetireStep ==
  ASSUME TypeOK, NEW a, NEW s \in {"STALE", "ARCHIVED"}
  PROVE  /\ Retire(a, s) \in Seq(Plan) /\ Len(Retire(a, s)) = Len(plans)
         /\ DOMAIN Retire(a, s) = DOMAIN plans
         /\ \A i \in DOMAIN plans :
              LET p == Retire(a, s)[i]
              IN /\ p.account = plans[i].account /\ p.version = plans[i].version
                 /\ p.at = plans[i].at
                 /\ p.status = IF plans[i].account = a /\ plans[i].status = "CURRENT"
                               THEN s ELSE plans[i].status
                 /\ plans[i].account # a => p = plans[i]
  <1> DEFINE R == Retire(a, s)
  <1>1. \A i \in DOMAIN plans : plans[i] \in Plan /\ (i \in Plans(a) <=> plans[i].account = a)
    BY Numbers DEF Plans
  <1>2. R = [i \in 1 .. Len(plans) |->
              IF i \in Plans(a) /\ plans[i].status = "CURRENT"
              THEN [plans[i] EXCEPT !.status = s] ELSE plans[i]]
    BY Numbers DEF Retire
  <1> HIDE DEF R
  <1>3. \A i \in 1 .. Len(plans) : R[i] \in Plan
    BY <1>1, <1>2, Numbers DEF Plan
  <1>4. R \in Seq(Plan) /\ Len(R) = Len(plans) /\ DOMAIN R = DOMAIN plans
    BY <1>2, <1>3, Numbers
  <1>5. ASSUME NEW i \in DOMAIN plans
        PROVE  /\ R[i].account = plans[i].account /\ R[i].version = plans[i].version
               /\ R[i].at = plans[i].at
               /\ R[i].status = IF plans[i].account = a /\ plans[i].status = "CURRENT"
                                THEN s ELSE plans[i].status
               /\ plans[i].account # a => R[i] = plans[i]
    BY <1>1, <1>2, Numbers DEF Plan
  <1> QED BY <1>4, <1>5 DEF R

(* What a save has read stays a version its account has had.                *)
LEMMA SavingStep ==
  ASSUME TypeOK, NEW w \in Writers, saving[w] # None, saving' = saving, clock' = clock,
         DOMAIN accounts \subseteq DOMAIN accounts',
         \A b \in DOMAIN accounts :
           accounts[b].version \in Nat /\ accounts'[b].version \in Nat
           /\ accounts[b].version <= accounts'[b].version
  PROVE  SavingOK(saving[w])'
  <1> DEFINE tx == saving[w]
  <1>1. /\ tx.account \in DOMAIN accounts /\ tx.version \in 1 .. accounts[tx.account].version
        /\ tx.at \in 1 .. clock /\ OverTickers(tx.proposed, Proposals)
    BY DEF TypeOK, SavingOK, Seen
  <1> HIDE DEF tx
  <1>2. tx.account \in DOMAIN accounts' /\ tx.version \in 1 .. accounts'[tx.account].version
        /\ tx.at \in 1 .. clock'
    BY <1>1
  <1>3. tx' = tx
    BY DEF tx
  <1> QED BY <1>1, <1>2, <1>3 DEF tx, SavingOK, Seen, OverTickers

-----------------------------------------------------------------------------
(* create_portfolio *)

LEMMA CreateInv ==
  ASSUME IInv, NEW a \in Accounts, NEW r \in Requests \union {None}, NEW f \in Forms,
         CreatePortfolio(a, r, f.cash, f.starting)
  PROVE  IInv'
  <1> DEFINE new == [version |-> 1, cash |-> f.cash, starting |-> f.starting, request |-> r]
             snap == Snapshot(a, 1, f.cash, {})
  <1>1. f.cash \in Nat /\ f.starting \in Nat
    BY InputAssumption DEF Form
  <1>2. /\ a \notin DOMAIN accounts
        /\ DOMAIN accounts' = DOMAIN accounts \union {a}
        /\ accounts'[a] = new /\ \A b \in DOMAIN accounts : accounts'[b] = accounts[b]
    BY DEF CreatePortfolio
  <1>3. accounts' \in [DOMAIN accounts' -> Account]
    <2>1. new \in Account
      BY <1>1 DEF Account
    <2>2. accounts \in [DOMAIN accounts -> Account]
      BY DEF IInv, TypeOK
    <2> HIDE DEF new
    <2> QED BY <1>2, <2>1, <2>2 DEF CreatePortfolio
  <1>4. UNCHANGED <<positions, plans, rows, actions, saving, clock>>
        /\ snapshots' = snapshots \union {snap}
    BY DEF CreatePortfolio
  <1>5. /\ \A i \in DOMAIN plans : plans[i].account \in DOMAIN accounts
        /\ \A x \in actions : x.account \in DOMAIN accounts
    BY DEF IInv, TypeOK, ActionInv
  <1>6. TypeOK'
    <2>1. \A w \in Writers : saving[w] = None \/ SavingOK(saving[w])'
      <3> SUFFICES ASSUME NEW w \in Writers, saving[w] # None PROVE SavingOK(saving[w])'
        OBVIOUS
      <3>1. SavingOK(saving[w])
        BY DEF IInv, TypeOK
      <3> QED BY <1>2, <1>4, <3>1 DEF SavingOK, Seen, OverTickers
    <2>2. snap \in [account : Accounts, version : Nat \ {0}, cash : Nat, positions : SUBSET Position]
      BY <1>1 DEF Snapshot
    <2>3. \A i \in DOMAIN plans : OverTickers(rows[i], PlanRow)
      BY DEF IInv, TypeOK
    <2> HIDE DEF snap
    <2> QED BY <1>2, <1>3, <1>4, <1>5, <2>1, <2>2, <2>3 DEF IInv, TypeOK
  <1>7. UnopenedIsEmpty' /\ CurrentPlanMatchesAccount'
    BY <1>2, <1>4, <1>5 DEF IInv, UnopenedIsEmpty, CurrentPlanMatchesAccount, Live
  <1>8. ActionInv'
    BY <1>2, <1>4, <1>5 DEF IInv, ActionInv, RecordedOnce
  <1>9. SnapInv'
    <2>1. accounts'[a].version = 1 /\ accounts'[a].cash = f.cash /\ positions'[a] = {}
      BY <1>2, <1>4 DEF IInv, UnopenedIsEmpty
    <2>2. \A s \in snapshots : s.account # a
      BY <1>2 DEF IInv, SnapInv
    <2>3. \A s \in snapshots : s.version \in Nat
      BY DEF IInv, TypeOK
    <2>4. snapshots' = snapshots \union {} \union
                        {Snapshot(a, accounts'[a].version, accounts'[a].cash, positions'[a])}
      BY <1>4, <2>1
    <2>5. \A b \in DOMAIN accounts :
            b # a => accounts'[b] = accounts[b] /\ positions'[b] = positions[b]
      BY <1>2, <1>4
    <2>6. SnapInv /\ DOMAIN accounts' = DOMAIN accounts \union {a} /\ accounts'[a].version \in Nat
      BY <1>2, <2>1 DEF IInv
    <2>7. \A s \in snapshots : s.account = a => s.version < accounts'[a].version
      BY <2>2
    <2> DEFINE none == {}
    <2>8. /\ \A s \in snapshots \union none : s.version \in Nat
          /\ \A s \in none : s.account = a /\ s.version < accounts'[a].version
          /\ snapshots' = snapshots \union none \union
               {Snapshot(a, accounts'[a].version, accounts'[a].cash, positions'[a])}
      BY <2>3, <2>4
    <2> HIDE DEF new, snap, none
    <2> QED BY <2>5, <2>6, <2>7, <2>8, SnapStep
  <1> QED BY <1>4, <1>6, <1>7, <1>8, <1>9 DEF IInv, RowsOK

-----------------------------------------------------------------------------
(* update_competition_account_snapshot *)

LEMMA UpdateEffect ==
  ASSUME TypeOK, NEW a \in DOMAIN accounts, NEW v, NEW f \in Forms, UpdateSnapshot(a, v, f)
  PROVE  /\ DOMAIN accounts' = DOMAIN accounts
         /\ accounts' \in [DOMAIN accounts' -> Account]
         /\ accounts[a].version \in Nat \ {0} /\ v = accounts[a].version
         /\ accounts'[a].version = accounts[a].version + 1
         /\ accounts'[a].cash = f.cash
         /\ positions' \in [Accounts -> SUBSET Position] /\ positions'[a] = f.positions
         /\ OneSide(f.positions) /\ f.cash \in Nat /\ f.positions \in SUBSET Position
         /\ \A b \in DOMAIN accounts \ {a} : accounts'[b] = accounts[b]
         /\ \A b \in Accounts \ {a} : positions'[b] = positions[b]
  <1> DEFINE new == [version |-> accounts[a].version + 1, cash |-> f.cash,
                     starting |-> f.starting, request |-> accounts[a].request]
  <1>1. accounts \in [DOMAIN accounts -> Account] /\ accounts[a] \in Account /\ a \in Accounts
        /\ positions \in [Accounts -> SUBSET Position]
    BY DEF TypeOK
  <1>2. f.cash \in Nat /\ f.starting \in Nat /\ f.positions \in SUBSET Position /\ OneSide(f.positions)
    BY InputAssumption DEF Form
  <1>3. accounts' = [accounts EXCEPT ![a] = new]
    <2> DEFINE old == accounts[a]
               moved == [old EXCEPT !.version = @ + 1]
               paid == [moved EXCEPT !.cash = f.cash]
               set == [paid EXCEPT !.starting = f.starting]
    <2>1. accounts' = [accounts EXCEPT ![a] = set]
      BY <1>1 DEF UpdateSnapshot
    <2>2. set = new
      <3>1. moved = [version |-> old.version + 1, cash |-> old.cash,
                     starting |-> old.starting, request |-> old.request]
        BY <1>1 DEF Account
      <3> HIDE DEF moved
      <3>2. paid = [version |-> old.version + 1, cash |-> f.cash,
                    starting |-> old.starting, request |-> old.request]
        BY <3>1
      <3> HIDE DEF paid
      <3> QED BY <3>2
    <2> QED BY <2>1, <2>2
  <1>4. new \in Account /\ new.version = accounts[a].version + 1 /\ new.cash = f.cash
        /\ accounts[a].version \in Nat \ {0}
    BY <1>1, <1>2 DEF Account
  <1>5. positions' = [positions EXCEPT ![a] = f.positions] /\ v = accounts[a].version
    BY DEF UpdateSnapshot
  <1> HIDE DEF new
  <1> QED BY <1>1, <1>2, <1>3, <1>4, <1>5

LEMMA UpdateInv ==
  ASSUME IInv, NEW a \in DOMAIN accounts, NEW v, NEW f \in Forms, UpdateSnapshot(a, v, f)
  PROVE  IInv'
  <1>1. /\ DOMAIN accounts' = DOMAIN accounts
        /\ accounts' \in [DOMAIN accounts' -> Account]
        /\ accounts[a].version \in Nat \ {0} /\ v = accounts[a].version
        /\ accounts'[a].version = accounts[a].version + 1
        /\ accounts'[a].cash = f.cash
        /\ positions' \in [Accounts -> SUBSET Position] /\ positions'[a] = f.positions
        /\ OneSide(f.positions) /\ f.cash \in Nat /\ f.positions \in SUBSET Position
        /\ \A b \in DOMAIN accounts \ {a} : accounts'[b] = accounts[b]
        /\ \A b \in Accounts \ {a} : positions'[b] = positions[b]
    BY UpdateEffect DEF IInv
  <1>2. UNCHANGED <<rows, actions, saving, clock>> /\ plans' = Retire(a, "STALE")
    BY DEF UpdateSnapshot
  <1>3. /\ plans' \in Seq(Plan) /\ Len(plans') = Len(plans) /\ DOMAIN plans' = DOMAIN plans
        /\ \A i \in DOMAIN plans :
             /\ plans'[i].account = plans[i].account /\ plans'[i].version = plans[i].version
             /\ plans'[i].status = IF plans[i].account = a /\ plans[i].status = "CURRENT"
                                  THEN "STALE" ELSE plans[i].status
    BY <1>2, RetireStep DEF IInv
  <1>4. \A b \in DOMAIN accounts :
          accounts[b].version \in Nat /\ accounts'[b].version \in Nat
          /\ accounts[b].version <= accounts'[b].version
    <2>1. \A b \in DOMAIN accounts : accounts[b].version \in Nat
      BY DEF IInv, TypeOK, Account
    <2> QED BY <1>1, <2>1
  <1>5. TypeOK'
    <2>1. \A w \in Writers : (saving[w] = None \/ SavingOK(saving[w]))'
      BY <1>1, <1>2, <1>4, SavingStep DEF IInv
    <2>2. snapshots' \subseteq [account : Accounts, version : Nat \ {0}, cash : Nat,
                               positions : SUBSET Position]
      <3>1. accounts[a] \in Account /\ positions[a] \in SUBSET Position /\ a \in Accounts
        BY DEF IInv, TypeOK
      <3>2. Snapshot(a, v, accounts[a].cash, positions[a])
              \in [account : Accounts, version : Nat \ {0}, cash : Nat, positions : SUBSET Position]
        BY <1>1, <3>1 DEF Snapshot, Account
      <3>3. Snapshot(a, v + 1, f.cash, f.positions)
              \in [account : Accounts, version : Nat \ {0}, cash : Nat, positions : SUBSET Position]
        BY <1>1, <3>1 DEF Snapshot
      <3> QED BY <3>2, <3>3 DEF IInv, TypeOK, UpdateSnapshot
    <2>3. \A b \in Accounts : OneSide(positions'[b])
      BY <1>1 DEF IInv, TypeOK
    <2>4. \A i \in DOMAIN plans : plans[i].account \in DOMAIN accounts /\ OverTickers(rows[i], PlanRow)
      BY DEF IInv, TypeOK
    <2> QED BY <1>1, <1>2, <1>3, <2>1, <2>2, <2>3, <2>4 DEF IInv, TypeOK, OneSide, OverTickers
  <1>6. UnopenedIsEmpty'
    BY <1>1 DEF IInv, UnopenedIsEmpty
  <1>7. CurrentPlanMatchesAccount'
    <2>1. \A i \in DOMAIN plans : plans[i].account \in DOMAIN accounts
      BY DEF IInv, TypeOK
    <2> QED BY <1>1, <1>3, <2>1 DEF IInv, CurrentPlanMatchesAccount, Live
  <1>8. ActionInv'
    <2>1. RecordedOnce'
      BY <1>2 DEF IInv, ActionInv, RecordedOnce
    <2>2. \A x \in actions : x.account \in DOMAIN accounts /\ x.before \in Nat
      BY DEF IInv, TypeOK, ActionInv, Action
    <2>3. \A x \in actions :
            /\ x.plan \in DOMAIN plans /\ x.account = plans[x.plan].account
            /\ x.ticker \in DOMAIN rows[x.plan] /\ x.before < accounts[x.account].version
      BY DEF IInv, ActionInv
    <2>4. \A x \in actions : x.before < accounts'[x.account].version
      BY <1>4, <2>2, <2>3
    <2> QED BY <1>2, <1>3, <2>1, <2>3, <2>4 DEF ActionInv
  <1>9. SnapInv'
    <2> DEFINE backups == {Snapshot(a, v, accounts[a].cash, positions[a])}
    <2>1. \A s \in backups : s.account = a /\ s.version = v
      BY DEF Snapshot
    <2>2. snapshots' = snapshots \union backups \union
            {Snapshot(a, accounts'[a].version, accounts'[a].cash, positions'[a])}
      BY <1>1 DEF UpdateSnapshot
    <2>3. \A s \in snapshots : s.version \in Nat /\ (s.account = a => s.version <= accounts[a].version)
      BY DEF IInv, TypeOK, SnapInv
    <2> HIDE DEF backups
    <2>4. /\ \A s \in snapshots \union backups : s.version \in Nat
          /\ \A s \in snapshots : s.account = a => s.version < accounts'[a].version
          /\ \A s \in backups : s.account = a /\ s.version < accounts'[a].version
      BY <1>1, <2>1, <2>3
    <2>5. \A b \in DOMAIN accounts :
            b # a => accounts'[b] = accounts[b] /\ positions'[b] = positions[b]
      BY <1>1 DEF IInv, TypeOK
    <2>6. DOMAIN accounts' = DOMAIN accounts \union {a}
      <3>1. DOMAIN accounts = DOMAIN accounts \union {a}
        OBVIOUS
      <3> QED BY <1>1, <3>1
    <2>7. accounts'[a].version \in Nat
      BY <1>1
    <2> QED BY <2>2, <2>4, <2>5, <2>6, <2>7, SnapStep DEF IInv
  <1> QED BY <1>2, <1>5, <1>6, <1>7, <1>8, <1>9 DEF IInv, RowsOK

-----------------------------------------------------------------------------
(* save_generated_trading_plan and set_recommendation_status *)

(* Steps that leave the book alone keep what is said of it.                 *)
LEMMA BookStep ==
  ASSUME IInv, UNCHANGED book
  PROVE  UnopenedIsEmpty' /\ SnapInv'
  BY DEF book, IInv, UnopenedIsEmpty, SnapInv

LEMMA RowNumbers ==
  ASSUME IInv
  PROVE  /\ DOMAIN rows = 1 .. Len(plans) /\ Len(rows) = Len(plans)
         /\ DOMAIN plans = 1 .. Len(plans) /\ Len(plans) \in Nat
         /\ rows \in Seq(RowTables) /\ plans \in Seq(Plan)
         /\ \A i \in 1 .. Len(plans) :
              /\ DOMAIN rows[i] \subseteq Tickers /\ rows[i] \in [DOMAIN rows[i] -> PlanRow]
              /\ plans[i].account \in DOMAIN accounts
  <1>1. rows \in Seq(RowTables) /\ Len(rows) = Len(plans) /\ plans \in Seq(Plan)
    BY DEF IInv, RowsOK, TypeOK
  <1>2. \A i \in DOMAIN plans : OverTickers(rows[i], PlanRow) /\ plans[i].account \in DOMAIN accounts
    BY DEF IInv, TypeOK
  <1>3. DOMAIN rows = 1 .. Len(rows)
    BY <1>1, LenProperties
  <1> QED BY <1>1, <1>2, <1>3, Numbers DEF IInv, OverTickers

LEMMA BeginInv ==
  ASSUME IInv, NEW w \in Writers, NEW a \in DOMAIN accounts, NEW v \in Seen(a),
         NEW D \in SUBSET Tickers, NEW ps \in [D -> Proposals], BeginSave(w, a, v, ps)
  PROVE  IInv'
  <1> DEFINE tx == [account |-> a, version |-> v, at |-> clock + 1, proposed |-> ps]
  <1>1. UNCHANGED <<book, plans, rows, actions>> /\ clock' = clock + 1 /\ clock \in Nat
        /\ saving' = [saving EXCEPT ![w] = tx] /\ DOMAIN saving = Writers
    BY DEF IInv, TypeOK, BeginSave
  <1>2. UNCHANGED <<accounts, positions, snapshots>>
    BY <1>1 DEF book
  <1>3. OverTickers(ps, Proposals)
    BY DEF OverTickers
  <1>4. tx.account = a /\ tx.version = v /\ tx.at = clock + 1 /\ tx.proposed = ps
    OBVIOUS
  <1> HIDE DEF tx
  <1>5. \A u \in Writers : (saving[u] = None \/ SavingOK(saving[u]))'
    <2> SUFFICES ASSUME NEW u \in Writers, saving'[u] # None PROVE SavingOK(saving[u])'
      OBVIOUS
    <2>1. CASE u = w
      <3>1. saving'[u] = tx
        BY <1>1, <2>1
      <3>2. a \in DOMAIN accounts /\ v \in Seen(a) /\ clock + 1 \in 1 .. clock'
        BY <1>1
      <3> QED BY <1>2, <1>3, <1>4, <3>1, <3>2 DEF SavingOK, Seen, OverTickers
    <2>2. CASE u # w
      <3>1. saving'[u] = saving[u] /\ SavingOK(saving[u])
        BY <1>1, <2>2 DEF IInv, TypeOK
      <3>2. \A n \in 1 .. clock : n \in 1 .. clock'
        BY <1>1
      <3> QED BY <1>2, <3>1, <3>2 DEF SavingOK, Seen, OverTickers
    <2> QED BY <2>1, <2>2
  <1>6. TypeOK'
    <2>1. DOMAIN saving' = Writers /\ clock' \in Nat
      BY <1>1
    <2> QED BY <1>1, <1>2, <1>5, <2>1 DEF IInv, TypeOK, OneSide, OverTickers
  <1>7. CurrentPlanMatchesAccount' /\ ActionInv' /\ RowsOK'
    BY <1>1, <1>2 DEF IInv, CurrentPlanMatchesAccount, Live, ActionInv, RecordedOnce, RowsOK
  <1> QED BY <1>1, <1>6, <1>7, BookStep DEF IInv

(* A refused save forgets the transaction. *)
LEMMA RefusedInv ==
  ASSUME IInv, NEW w \in Writers, saving' = [saving EXCEPT ![w] = None],
         UNCHANGED <<book, plans, rows, actions, clock>>
  PROVE  IInv'
  <1>1. UNCHANGED <<accounts, positions, snapshots>>
    BY DEF book
  <1>2. DOMAIN saving' = Writers /\ \A u \in Writers : saving'[u] \in {None, saving[u]}
    BY DEF IInv, TypeOK
  <1>3. TypeOK'
    BY <1>1, <1>2 DEF IInv, TypeOK, SavingOK, Seen, OneSide, OverTickers
  <1>4. CurrentPlanMatchesAccount' /\ ActionInv' /\ RowsOK'
    BY <1>1 DEF IInv, CurrentPlanMatchesAccount, Live, ActionInv, RecordedOnce, RowsOK
  <1> QED BY <1>3, <1>4, BookStep DEF IInv

(* Plan n is saved from transaction tx. *)
Saved(tx, n) ==
  /\ tx.account \in DOMAIN accounts /\ accounts[tx.account].version = tx.version
  /\ plans' \in Seq(Plan) /\ Len(plans') = n /\ DOMAIN plans' = DOMAIN plans \union {n}
  /\ plans'[n] = [account |-> tx.account, version |-> tx.version, at |-> tx.at, status |-> "CURRENT"]
  /\ \A i \in DOMAIN plans :
       /\ plans'[i].account = plans[i].account /\ plans'[i].version = plans[i].version
       /\ plans'[i].at = plans[i].at
       /\ plans'[i].status = IF plans[i].account = tx.account /\ plans[i].status = "CURRENT"
                            THEN "ARCHIVED" ELSE plans[i].status
       /\ plans[i].account # tx.account => plans'[i] = plans[i]
  /\ rows' \in Seq(RowTables) /\ Len(rows') = n /\ DOMAIN rows' = DOMAIN rows \union {n}
  /\ \A i \in DOMAIN rows : rows'[i] = rows[i]
  /\ rows'[n] \in RowTables /\ \A t \in DOMAIN rows'[n] : rows'[n][t].status = "OPEN"

LEMMA SaveEffect ==
  ASSUME IInv, NEW w \in Writers, SavePlan(w), plans' # plans
  PROVE  Saved(saving[w], Len(plans) + 1)
  <1> DEFINE tx == saving[w]
             n == Len(plans) + 1
             new == [account |-> tx.account, version |-> tx.version, at |-> tx.at, status |-> "CURRENT"]
             table == [t \in DOMAIN tx.proposed |-> [proposal |-> tx.proposed[t], status |-> "OPEN"]]
             old == Retire(tx.account, "ARCHIVED")
  <1>1. /\ tx.account \in DOMAIN accounts /\ tx.account \in Accounts
        /\ tx.version \in 1 .. accounts[tx.account].version
        /\ tx.at \in Nat /\ OverTickers(tx.proposed, Proposals)
    BY DEF IInv, TypeOK, SavingOK, SavePlan, Seen
  <1>2. tx.version \in Nat \ {0}
    BY <1>1
  <1>3. /\ accounts[tx.account].version = tx.version
        /\ plans' = Append(old, new) /\ rows' = Append(rows, table)
    BY DEF SavePlan
  <1>4. new \in Plan
    BY <1>1, <1>2 DEF Plan
  <1>5. table \in RowTables /\ \A t \in DOMAIN table : table[t].status = "OPEN"
    <2>1. table \in [DOMAIN tx.proposed -> PlanRow] /\ DOMAIN tx.proposed \in SUBSET Tickers
      BY <1>1 DEF OverTickers, PlanRow
    <2> QED BY <2>1 DEF RowTables
  <1>6. /\ old \in Seq(Plan) /\ Len(old) = Len(plans)
        /\ DOMAIN old = DOMAIN plans
        /\ \A i \in DOMAIN plans :
             /\ old[i].account = plans[i].account /\ old[i].version = plans[i].version
             /\ old[i].at = plans[i].at
             /\ old[i].status = IF plans[i].account = tx.account /\ plans[i].status = "CURRENT"
                               THEN "ARCHIVED" ELSE plans[i].status
             /\ plans[i].account # tx.account => old[i] = plans[i]
    BY RetireStep DEF IInv
  <1> HIDE DEF old, new, table
  <1>7. /\ Len(plans) \in Nat /\ DOMAIN plans = 1 .. Len(plans) /\ DOMAIN rows = 1 .. Len(plans)
        /\ rows \in Seq(RowTables) /\ Len(rows) = Len(plans)
    BY RowNumbers
  <1>8. /\ plans' \in Seq(Plan) /\ Len(plans') = n /\ plans'[n] = new
        /\ \A i \in 1 .. Len(plans) : plans'[i] = old[i]
    <2>1. /\ Append(old, new) \in Seq(Plan) /\ Len(Append(old, new)) = Len(old) + 1
          /\ Append(old, new)[Len(old) + 1] = new
          /\ \A i \in 1 .. Len(old) : Append(old, new)[i] = old[i]
      BY <1>4, <1>6, AppendProperties
    <2> QED BY <1>3, <1>6, <2>1
  <1>9. /\ rows' \in Seq(RowTables) /\ Len(rows') = n /\ rows'[n] = table
        /\ \A i \in 1 .. Len(rows) : rows'[i] = rows[i]
    <2>1. /\ Append(rows, table) \in Seq(RowTables) /\ Len(Append(rows, table)) = Len(rows) + 1
          /\ Append(rows, table)[Len(rows) + 1] = table
          /\ \A i \in 1 .. Len(rows) : Append(rows, table)[i] = rows[i]
      BY <1>5, <1>7, AppendProperties
    <2> QED BY <1>3, <1>7, <2>1
  <1>10. DOMAIN plans' = 1 .. n /\ DOMAIN rows' = 1 .. n /\ 1 .. n = (1 .. Len(plans)) \union {n}
    BY <1>7, <1>8, <1>9, LenProperties
  <1> QED BY <1>1, <1>3, <1>5, <1>6, <1>7, <1>8, <1>9, <1>10 DEF new, Saved

LEMMA SaveInv ==
  ASSUME IInv, NEW w \in Writers, SavePlan(w)
  PROVE  IInv'
  <1> DEFINE tx == saving[w]
             n == Len(plans) + 1
  <1>1. CASE plans' = plans
    <2>1. accounts[tx.account].version # tx.version
      <3> SUFFICES ASSUME accounts[tx.account].version = tx.version PROVE FALSE
        OBVIOUS
      <3> DEFINE old == Retire(tx.account, "ARCHIVED")
                 new == [account |-> tx.account, version |-> tx.version, at |-> tx.at, status |-> "CURRENT"]
      <3>1. plans' = Append(old, new)
        BY DEF SavePlan
      <3>2. old \in Seq(Plan) /\ Len(old) = Len(plans) /\ Len(plans) \in Nat
        BY RetireStep, Numbers DEF IInv
      <3> HIDE DEF old, new
      <3>3. Len(Append(old, new)) = Len(old) + 1
        BY <3>2
      <3> QED BY <1>1, <3>1, <3>2, <3>3
    <2> QED BY <2>1, RefusedInv DEF SavePlan
  <1>2. CASE plans' # plans
    <2>1. /\ tx.account \in DOMAIN accounts /\ accounts[tx.account].version = tx.version
          /\ plans' \in Seq(Plan) /\ Len(plans') = n /\ DOMAIN plans' = DOMAIN plans \union {n}
          /\ plans'[n] = [account |-> tx.account, version |-> tx.version, at |-> tx.at, status |-> "CURRENT"]
          /\ \A i \in DOMAIN plans :
               /\ plans'[i].account = plans[i].account /\ plans'[i].version = plans[i].version
               /\ plans'[i].status = IF plans[i].account = tx.account /\ plans[i].status = "CURRENT"
                                    THEN "ARCHIVED" ELSE plans[i].status
          /\ rows' \in Seq(RowTables) /\ Len(rows') = n /\ DOMAIN rows' = DOMAIN rows \union {n}
          /\ \A i \in DOMAIN rows : rows'[i] = rows[i]
          /\ rows'[n] \in RowTables /\ \A t \in DOMAIN rows'[n] : rows'[n][t].status = "OPEN"
      BY <1>2, SaveEffect DEF Saved
    <2>2. /\ DOMAIN rows = DOMAIN plans /\ n \notin DOMAIN plans
          /\ \A i \in DOMAIN plans : plans[i].account \in DOMAIN accounts
      BY RowNumbers
    <2>3. UNCHANGED <<book, actions, clock>> /\ saving' = [saving EXCEPT ![w] = None]
          /\ UNCHANGED <<accounts, positions, snapshots>>
      BY DEF SavePlan, book
    <2> HIDE DEF tx, n
    <2>4. DOMAIN saving' = Writers /\ \A u \in Writers : saving'[u] \in {None, saving[u]}
      BY <2>3 DEF IInv, TypeOK
    <2>5. \A u \in Writers : (saving[u] = None \/ SavingOK(saving[u]))'
      BY <2>3, <2>4 DEF IInv, TypeOK, SavingOK, Seen, OverTickers
    <2>6. \A i \in DOMAIN plans' : plans'[i].account \in DOMAIN accounts'
      BY <2>1, <2>2, <2>3
    <2>7. \A i \in DOMAIN plans' : OverTickers(rows'[i], PlanRow)
      <3>1. \A table \in RowTables : OverTickers(table, PlanRow)
        BY DEF RowTables, OverTickers
      <3>2. \A i \in DOMAIN rows : rows[i] \in RowTables
        BY RowNumbers, ElementOfSeq DEF IInv, RowsOK
      <3> QED BY <2>1, <2>2, <3>1, <3>2
    <2>8. TypeOK'
      BY <2>1, <2>3, <2>4, <2>5, <2>6, <2>7 DEF IInv, TypeOK, OneSide, OverTickers
    <2>9. CurrentPlanMatchesAccount'
      <3>1. \A i \in DOMAIN plans' : plans'[i].status = "CURRENT" =>
              \/ i = n
              \/ i \in DOMAIN plans /\ plans[i].status = "CURRENT" /\ plans[i].account # tx.account
        BY <2>1
      <3>2. plans'[n].account = tx.account /\ plans'[n].version = accounts[tx.account].version
        BY <2>1
      <3>3. \A i \in DOMAIN plans : plans[i].status = "CURRENT" =>
              /\ plans'[i].account = plans[i].account
              /\ plans'[i].version = accounts[plans'[i].account].version
        BY <2>1 DEF IInv, CurrentPlanMatchesAccount, Live
      <3>4. \A i, j \in DOMAIN plans :
              plans[i].status = "CURRENT" /\ plans[j].status = "CURRENT"
              /\ plans[j].account = plans[i].account => i = j
        BY DEF IInv, CurrentPlanMatchesAccount
      <3>5. \A i \in DOMAIN plans' : plans'[i].status = "CURRENT" => Live(i)'
        BY <2>3, <3>1, <3>2, <3>3 DEF Live
      <3>6. ASSUME NEW i \in DOMAIN plans', NEW j \in DOMAIN plans',
                   plans'[i].status = "CURRENT", plans'[j].status = "CURRENT",
                   plans'[j].account = plans'[i].account
            PROVE  i = j
        BY <3>1, <3>2, <3>3, <3>4, <3>6
      <3> QED BY <3>5, <3>6 DEF CurrentPlanMatchesAccount
    <2>10. ActionInv'
      <3>1. \A x \in actions :
              /\ x.plan \in DOMAIN plans /\ x.account = plans[x.plan].account
              /\ x.ticker \in DOMAIN rows[x.plan] /\ x.before < accounts[x.account].version
        BY DEF IInv, ActionInv
      <3>2. \A i \in DOMAIN rows' : \A t \in DOMAIN rows'[i] :
              rows'[i][t].status = "RECORDED" <=> \E x \in actions : x.plan = i /\ x.ticker = t
        <4> SUFFICES ASSUME NEW i \in DOMAIN rows', NEW t \in DOMAIN rows'[i]
                     PROVE  rows'[i][t].status = "RECORDED" <=> \E x \in actions : x.plan = i /\ x.ticker = t
          OBVIOUS
        <4>1. CASE i = n
          BY <2>1, <2>2, <3>1, <4>1
        <4>2. CASE i \in DOMAIN rows
          BY <2>1, <4>2 DEF IInv, ActionInv, RecordedOnce
        <4> QED BY <2>1, <4>1, <4>2
      <3>3. RecordedOnce'
        BY <2>3, <3>2 DEF IInv, ActionInv, RecordedOnce
      <3> QED BY <2>1, <2>2, <2>3, <3>1, <3>3 DEF ActionInv
    <2> QED BY <2>1, <2>3, <2>8, <2>9, <2>10, BookStep DEF IInv, RowsOK
  <1> QED BY <1>1, <1>2

(* A step that changes the status of one recommendation.                    *)
RowMoved(i, t, s) ==
  /\ rows' \in Seq(RowTables) /\ Len(rows') = Len(rows) /\ DOMAIN rows' = DOMAIN rows
  /\ \A j \in DOMAIN rows : DOMAIN rows'[j] = DOMAIN rows[j]
  /\ \A j \in DOMAIN rows : OverTickers(rows'[j], PlanRow)
  /\ \A j \in DOMAIN rows : \A u \in DOMAIN rows[j] :
       rows'[j][u].status = IF j = i /\ u = t THEN s ELSE rows[j][u].status
  /\ \A j \in DOMAIN rows \ {i} : rows'[j] = rows[j]

LEMMA RowStep ==
  ASSUME IInv, NEW i \in DOMAIN plans, NEW t \in DOMAIN rows[i],
         NEW s \in {"OPEN", "DISMISSED", "RECORDED"},
         rows' = [rows EXCEPT ![i][t].status = s]
  PROVE  RowMoved(i, t, s)
  <1> DEFINE row == [rows[i][t] EXCEPT !.status = s]
             table == [rows[i] EXCEPT ![t] = row]
  <1>1. /\ DOMAIN rows = 1 .. Len(plans) /\ Len(rows) = Len(plans) /\ DOMAIN plans = 1 .. Len(plans)
        /\ rows \in Seq(RowTables)
        /\ \A j \in DOMAIN rows :
             DOMAIN rows[j] \subseteq Tickers /\ rows[j] \in [DOMAIN rows[j] -> PlanRow]
    BY RowNumbers
  <1>2. rows[i][t] \in PlanRow
    BY <1>1
  <1>3. row \in PlanRow /\ row.status = s
    BY <1>2 DEF PlanRow
  <1>4. rows' = [rows EXCEPT ![i] = table]
    BY <1>1
  <1> HIDE DEF row
  <1>5. table \in [DOMAIN rows[i] -> PlanRow] /\ DOMAIN table = DOMAIN rows[i]
        /\ \A u \in DOMAIN rows[i] : table[u] = IF u = t THEN row ELSE rows[i][u]
    BY <1>1, <1>3
  <1>6. table \in RowTables
    BY <1>1, <1>5 DEF RowTables
  <1> HIDE DEF table
  <1>7. /\ rows' \in Seq(RowTables) /\ Len(rows') = Len(rows)
        /\ \A j \in DOMAIN rows : rows'[j] = IF j = i THEN table ELSE rows[j]
    <2>1. i \in 1 .. Len(rows)
      BY <1>1
    <2>2. /\ [rows EXCEPT ![i] = table] \in Seq(RowTables)
          /\ Len([rows EXCEPT ![i] = table]) = Len(rows)
          /\ \A j \in 1 .. Len(rows) : [rows EXCEPT ![i] = table][j] = IF j = i THEN table ELSE rows[j]
      BY <1>1, <1>6, <2>1, ExceptSeq
    <2> QED BY <1>1, <1>4, <2>2
  <1>8. DOMAIN rows' = DOMAIN rows
    BY <1>4
  <1>9. \A j \in DOMAIN rows : OverTickers(rows'[j], PlanRow)
    BY <1>1, <1>5, <1>7 DEF OverTickers
  <1> QED BY <1>1, <1>3, <1>5, <1>7, <1>8, <1>9 DEF RowMoved

LEMMA StatusInv ==
  ASSUME IInv, NEW i \in DOMAIN plans, NEW t \in DOMAIN rows[i], NEW s \in {"OPEN", "DISMISSED"},
         SetStatus(i, t, s)
  PROVE  IInv'
  <1>1. RowMoved(i, t, s)
    <2>1. rows' = [rows EXCEPT ![i][t].status = s] /\ s \in {"OPEN", "DISMISSED", "RECORDED"}
      BY DEF SetStatus
    <2> QED BY <2>1, RowStep
  <1>2. UNCHANGED <<book, plans, actions, saving, clock, accounts, positions, snapshots>>
        /\ rows[i][t].status # "RECORDED"
    BY DEF SetStatus, book
  <1>3. DOMAIN rows = DOMAIN plans /\ Len(rows) = Len(plans)
    BY RowNumbers
  <1>4. TypeOK'
    <2>1. \A w \in Writers : (saving[w] = None \/ SavingOK(saving[w]))'
      BY <1>2 DEF IInv, TypeOK, SavingOK, Seen, OverTickers
    <2> QED BY <1>1, <1>2, <1>3, <2>1 DEF IInv, TypeOK, OneSide, RowMoved
  <1>5. CurrentPlanMatchesAccount'
    BY <1>2 DEF IInv, CurrentPlanMatchesAccount, Live
  <1>6. ActionInv'
    <2>1. \A j \in DOMAIN rows' : \A u \in DOMAIN rows'[j] :
            rows'[j][u].status = "RECORDED" <=> \E x \in actions : x.plan = j /\ x.ticker = u
      <3> SUFFICES ASSUME NEW j \in DOMAIN rows', NEW u \in DOMAIN rows'[j]
                   PROVE  rows'[j][u].status = "RECORDED" <=> rows[j][u].status = "RECORDED"
        BY <1>1 DEF IInv, ActionInv, RecordedOnce, RowMoved
      <3> QED BY <1>1, <1>2 DEF RowMoved
    <2>2. RecordedOnce'
      BY <1>2, <2>1 DEF IInv, ActionInv, RecordedOnce
    <2> QED BY <1>1, <1>2, <1>3, <2>2 DEF IInv, ActionInv, RowMoved
  <1> QED BY <1>1, <1>2, <1>4, <1>5, <1>6, BookStep DEF IInv, RowsOK, RowMoved

-----------------------------------------------------------------------------
(* record_recommendation_paper_action *)

(* r is n / d to the nearest whole number, whichever way a half goes.       *)
Rounds(r, n, d) == r \in Int /\ 2 * n - d <= 2 * (r * d) /\ 2 * (r * d) <= 2 * n + d

LEMMA RoundedRounds ==
  ASSUME NEW n \in Int, NEW d \in Nat \ {0}
  PROVE  Rounds(Rounded(n, d), n, d) /\ (n \in Nat => Rounded(n, d) \in Nat)
  <1> DEFINE k == n \div d
             m == n % d
  <1>1. k \in Int /\ m \in Int /\ n = k * d + m /\ 0 <= m /\ m < d
    OBVIOUS
  <1>2. Rounded(n, d) = IF 2 * m > d \/ (2 * m = d /\ n > 0) THEN k + 1 ELSE k
    BY DEF Rounded
  <1> HIDE DEF k, m
  <1>3. (k + 1) * d = k * d + d
    BY <1>1
  <1>4. Rounds(Rounded(n, d), n, d)
    BY <1>1, <1>2, <1>3 DEF Rounds
  <1>5. n \in Nat => 0 <= k
    <2> SUFFICES ASSUME n \in Nat, k + 1 <= 0 PROVE FALSE
      BY <1>1
    <2>1. (k + 1) * d <= 0
      BY <1>1
    <2> QED BY <1>1, <1>3, <2>1
  <1> QED BY <1>1, <1>2, <1>4, <1>5

(* A number that is at most one and a half is at most one.                  *)
LEMMA AtMostOne ==
  ASSUME NEW x \in Int, NEW k \in Nat \ {0}, 0 - 3 * k <= 2 * (x * k), 2 * (x * k) <= 3 * k
  PROVE  x \in {-1, 0, 1}
  <1>1. ~(2 <= x)
    <2> SUFFICES ASSUME 2 <= x PROVE FALSE
      OBVIOUS
    <2>1. 2 * k <= x * k
      OBVIOUS
    <2> QED BY <2>1
  <1>2. ~(x <= -2)
    <2> SUFFICES ASSUME x <= -2 PROVE FALSE
      OBVIOUS
    <2>1. x * k <= (-2) * k
      OBVIOUS
    <2> QED BY <2>1
  <1> QED BY <1>1, <1>2

(* Whole numbers pass through a rounding, and a finer unit keeps it.        *)
LEMMA RoundsShifts ==
  ASSUME NEW r, NEW k \in Int, NEW n \in Int, NEW d \in Nat \ {0}, Rounds(r, k * d + n, d)
  PROVE  Rounds(r - k, n, d)
  <1>1. r \in Int /\ k * d \in Int /\ (r - k) * d = r * d - k * d
    BY DEF Rounds
  <1> QED BY <1>1 DEF Rounds

LEMMA RoundsTurns ==
  ASSUME NEW r, NEW n \in Int, NEW d \in Nat \ {0}, Rounds(r, n, d)
  PROVE  Rounds(0 - r, 0 - n, d)
  <1>1. r \in Int /\ (0 - r) * d = 0 - r * d
    BY DEF Rounds
  <1> QED BY <1>1 DEF Rounds

LEMMA RoundsScales ==
  ASSUME NEW r, NEW n \in Int, NEW d \in Nat \ {0}, NEW e \in Nat \ {0}, Rounds(r, n, d)
  PROVE  Rounds(r, n * e, d * e) /\ d * e \in Nat \ {0} /\ n * e \in Int
  <1> DEFINE m == r * d
  <1>1. r \in Int /\ m \in Int /\ 2 * n - d <= 2 * m /\ 2 * m <= 2 * n + d
    BY DEF Rounds
  <1>2. r * (d * e) = m * e /\ d * e \in Nat \ {0} /\ n * e \in Int
    BY <1>1
  <1> HIDE DEF m
  <1>3. (2 * n - d) * e <= (2 * m) * e /\ (2 * m) * e <= (2 * n + d) * e
    BY <1>1
  <1>4. /\ (2 * n - d) * e = 2 * (n * e) - d * e /\ (2 * n + d) * e = 2 * (n * e) + d * e
        /\ (2 * m) * e = 2 * (m * e)
    BY <1>1
  <1> QED BY <1>1, <1>2, <1>3, <1>4 DEF Rounds

(* Three amounts that balance before they are rounded balance to within one *)
(* unit afterwards.                                                         *)
LEMMA RoundsBalance ==
  ASSUME NEW x, NEW y, NEW z, NEW m \in Int, NEW n \in Int, NEW d \in Nat \ {0},
         Rounds(x, m, d), Rounds(y, n, d), Rounds(z, m - n, d)
  PROVE  Near(x - y, z)
  <1> DEFINE X == x * d
             Y == y * d
             Z == z * d
             g == x - y - z
  <1>1. /\ x \in Int /\ y \in Int /\ z \in Int /\ X \in Int /\ Y \in Int /\ Z \in Int
        /\ 2 * m - d <= 2 * X /\ 2 * X <= 2 * m + d /\ 2 * n - d <= 2 * Y /\ 2 * Y <= 2 * n + d
        /\ 2 * (m - n) - d <= 2 * Z /\ 2 * Z <= 2 * (m - n) + d
    BY DEF Rounds
  <1>2. g \in Int /\ g * d = X - Y - Z
    BY <1>1
  <1> HIDE DEF X, Y, Z, g
  <1>3. 0 - 3 * d <= 2 * (g * d) /\ 2 * (g * d) <= 3 * d
    BY <1>1, <1>2
  <1>4. g \in {-1, 0, 1}
    BY <1>2, <1>3, AtMostOne
  <1> QED BY <1>4 DEF Near, g

(* An accepted purchase or exit leaves well-formed positions and cash.      *)
FillOK(a, fill) ==
  /\ fill.kind \in {"OPEN", "INCREASE", "CLOSE", "DECREASE"}
  /\ fill.positions \in SUBSET Position /\ OneSide(fill.positions)
  /\ fill.cash \in Nat /\ fill.released \in Nat /\ fill.realized \in Int

LEMMA CloseType ==
  ASSUME TypeOK, NEW i \in DOMAIN plans, NEW t, t \in DOMAIN rows[i], Close(i, t) # None
  PROVE  Close(i, t) \in Nat \ {0} /\ t \in Tickers
  <1>1. rows[i] \in [DOMAIN rows[i] -> PlanRow] /\ DOMAIN rows[i] \subseteq Tickers
    BY DEF TypeOK, OverTickers
  <1>2. rows[i][t].proposal \in Proposal
    BY <1>1, InputAssumption DEF PlanRow
  <1> QED BY <1>1, <1>2 DEF Close, Proposal

LEMMA PurchaseFill ==
  ASSUME TypeOK, NEW a \in DOMAIN accounts, NEW i \in DOMAIN plans, NEW t \in DOMAIN rows[i],
         NEW q \in Quantities, Close(i, t) # None, Fits(a, i, t, q * Close(i, t))
  PROVE  FillOK(a, Purchase(a, i, t, q))
  <1> DEFINE cost == q * Close(i, t)
             held == Held(a, t)
             cash == Rounded(accounts[a].cash * Fine - cost, Fine)
  <1>1. cost \in Nat /\ q \in Nat \ {0} /\ t \in Tickers
    BY CloseType, InputAssumption
  <1>2. cash \in Nat /\ Fine \in Nat \ {0}
    <2>1. accounts[a].cash \in Nat /\ cost <= accounts[a].cash * Fine /\ Fine \in Nat \ {0}
      BY InputAssumption DEF TypeOK, Account, Fits
    <2>2. accounts[a].cash * Fine - cost \in Nat
      BY <1>1, <2>1
    <2> QED BY <2>1, <2>2, RoundedRounds
  <1>3. positions[a] \in SUBSET Position /\ OneSide(positions[a]) /\ held \subseteq positions[a]
        /\ \A p \in held : p.ticker = t /\ p.dir = "LONG"
    BY DEF TypeOK, Held
  <1>4. \A p \in positions[a] : p \notin held => ~(p.ticker = t /\ p.dir = "LONG")
    BY DEF Held
  <1> HIDE DEF cost, held, cash
  <1>5. CASE held = {}
    <2> DEFINE lot == Long(t, q, Rounded(cost, Fine))
    <2>1. lot \in Position /\ lot.ticker = t /\ lot.dir = "LONG"
      <3>1. Rounded(cost, Fine) \in Nat
        BY <1>1, <1>2, RoundedRounds
      <3> QED BY <1>1, <3>1 DEF Long, Position, Directions
    <2> HIDE DEF lot
    <2>2. OneSide((positions[a] \ held) \union {lot})
      BY <1>3, <1>4, <2>1 DEF OneSide
    <2>3. Purchase(a, i, t, q) = [kind |-> "OPEN", positions |-> (positions[a] \ held) \union {lot},
                                 cash |-> cash, released |-> 0, realized |-> 0]
      BY <1>5 DEF Purchase, held, cost, cash, lot
    <2> QED BY <1>1, <1>2, <1>3, <2>1, <2>2, <2>3 DEF FillOK
  <1>6. CASE held # {}
    <2>1. PICK p \in held : TRUE
      BY <1>6
    <2>2. held = {p}
      BY <1>3, <2>1 DEF OneSide
    <2> DEFINE lot == Long(t, p.qty + q, Rounded(p.basis * Fine + cost, Fine))
    <2>3. p \in Position
      BY <1>3, <2>1
    <2>4. lot \in Position /\ lot.ticker = t /\ lot.dir = "LONG"
      <3>1. p.basis \in Nat /\ p.qty \in Nat \ {0}
        BY <2>3 DEF Position
      <3>2. p.basis * Fine + cost \in Nat
        BY <1>1, <1>2, <3>1
      <3>3. Rounded(p.basis * Fine + cost, Fine) \in Nat
        BY <1>2, <3>2, RoundedRounds
      <3> QED BY <1>1, <3>1, <3>3 DEF Long, Position, Directions
    <2>5. {Long(t, x.qty + q, Rounded(x.basis * Fine + cost, Fine)) : x \in held} = {lot}
      BY <2>2
    <2> HIDE DEF lot
    <2>6. OneSide((positions[a] \ held) \union {lot})
      BY <1>3, <1>4, <2>4 DEF OneSide
    <2>7. Purchase(a, i, t, q) = [kind |-> "INCREASE", positions |-> (positions[a] \ held) \union {lot},
                                 cash |-> cash, released |-> 0, realized |-> 0]
      BY <1>6, <2>5 DEF Purchase, held, cost, cash
    <2> QED BY <1>1, <1>2, <1>3, <2>4, <2>6, <2>7 DEF FillOK
  <1> QED BY <1>5, <1>6

LEMMA ExitFill ==
  ASSUME TypeOK, NEW a \in DOMAIN accounts, NEW i \in DOMAIN plans, NEW t \in DOMAIN rows[i],
         NEW q \in Quantities, Close(i, t) # None, \E p \in Held(a, t) : q <= p.qty
  PROVE  FillOK(a, Exit(a, i, t, q))
  <1> DEFINE held == CHOOSE p \in Held(a, t) : TRUE
             proceeds == q * Close(i, t)
             share == held.basis * q
             left == Rounded(held.basis * held.qty - share, held.qty)
             lot == Long(t, held.qty - q, left)
             cash == Rounded(accounts[a].cash * Fine + proceeds, Fine)
             released == Rounded(share, held.qty)
             realized == Rounded(proceeds * held.qty - share * Fine, held.qty * Fine)
  <1>1. proceeds \in Nat /\ q \in Nat \ {0} /\ t \in Tickers
    BY CloseType, InputAssumption
  <1>2. cash \in Nat /\ Fine \in Nat \ {0}
    <2>1. accounts[a].cash \in Nat /\ Fine \in Nat \ {0}
      BY InputAssumption DEF TypeOK, Account
    <2>2. accounts[a].cash * Fine + proceeds \in Nat
      BY <1>1, <2>1
    <2> QED BY <2>1, <2>2, RoundedRounds
  <1>3. positions[a] \in SUBSET Position /\ OneSide(positions[a]) /\ Held(a, t) \subseteq positions[a]
        /\ \A p \in positions[a] : p \in Held(a, t) <=> p.ticker = t /\ p.dir = "LONG"
    BY DEF TypeOK, Held
  <1>4. held \in Held(a, t) /\ held \in Position /\ q <= held.qty
    <2>1. PICK p \in Held(a, t) : q <= p.qty
      OBVIOUS
    <2>2. held \in Held(a, t)
      BY <2>1
    <2> HIDE DEF held
    <2>3. held = p
      BY <1>3, <2>1, <2>2 DEF OneSide
    <2> QED BY <1>3, <2>1, <2>2, <2>3
  <1>5. held.basis \in Nat /\ held.qty \in Nat \ {0}
    BY <1>4 DEF Position
  <1> HIDE DEF held, proceeds
  <1>6. left \in Nat /\ released \in Nat /\ realized \in Int
    <2>1. share \in Nat /\ held.basis * held.qty - share \in Nat
      BY <1>1, <1>4, <1>5
    <2>2. held.qty * Fine \in Nat \ {0} /\ proceeds * held.qty - share * Fine \in Int
      BY <1>1, <1>2, <1>5, <2>1
    <2>3. realized \in Int
      BY <2>2, RoundedRounds DEF Rounds
    <2> QED BY <1>5, <2>1, <2>3, RoundedRounds
  <1> HIDE DEF share, left, cash, released, realized
  <1>7. CASE q = held.qty
    <2>1. Exit(a, i, t, q) = [kind |-> "CLOSE", positions |-> (positions[a] \ {held}) \union {},
                             cash |-> cash, released |-> released, realized |-> realized]
      BY <1>7 DEF Exit, held, proceeds, share, left, cash, released, realized
    <2>2. OneSide((positions[a] \ {held}) \union {})
      BY <1>3 DEF OneSide
    <2> QED BY <1>1, <1>2, <1>3, <1>6, <2>1, <2>2 DEF FillOK
  <1>8. CASE q # held.qty
    <2>1. lot \in Position /\ lot.ticker = t /\ lot.dir = "LONG"
      BY <1>1, <1>4, <1>5, <1>6, <1>8 DEF Long, Position, Directions
    <2>2. Exit(a, i, t, q) = [kind |-> "DECREASE", positions |-> (positions[a] \ {held}) \union {lot},
                             cash |-> cash, released |-> released, realized |-> realized]
      BY <1>8 DEF Exit, held, proceeds, share, left, cash, released, realized
    <2> HIDE DEF lot
    <2>3. \A p \in positions[a] \ {held} : ~(p.ticker = t /\ p.dir = "LONG")
      BY <1>3, <1>4 DEF OneSide
    <2>4. OneSide((positions[a] \ {held}) \union {lot})
      BY <1>3, <2>1, <2>3 DEF OneSide
    <2> QED BY <1>1, <1>2, <1>3, <1>6, <2>1, <2>2, <2>4 DEF FillOK
  <1> QED BY <1>7, <1>8

LEMMA FillStep ==
  ASSUME TypeOK, NEW a \in DOMAIN accounts, NEW i \in DOMAIN plans, NEW t \in DOMAIN rows[i],
         NEW q \in Quantities, Recordable(a, i, t, q), Covered(a, i, t, q)
  PROVE  FillOK(a, Fill(a, i, t, q))
  <1>1. Close(i, t) # None
    BY DEF Recordable
  <1> QED BY <1>1, PurchaseFill, ExitFill DEF Covered, Fill

(* What an accepted paper action does to the state, its arithmetic aside.   *)
Booked(a, i, t, action) ==
  /\ DOMAIN accounts' = DOMAIN accounts /\ accounts' \in [DOMAIN accounts' -> Account]
  /\ accounts[a].version \in Nat \ {0} /\ accounts'[a].version = accounts[a].version + 1
  /\ \A b \in DOMAIN accounts \ {a} : accounts'[b] = accounts[b]
  /\ positions' \in [Accounts -> SUBSET Position] /\ OneSide(positions'[a])
  /\ \A b \in Accounts \ {a} : positions'[b] = positions[b]
  /\ snapshots' = snapshots \union {Snapshot(a, accounts'[a].version, accounts'[a].cash, positions'[a])}
  /\ actions' = actions \union {action} /\ action \in Action
  /\ action.account = a /\ action.plan = i /\ action.ticker = t
  /\ action.before = accounts[a].version /\ (\A x \in actions : x.key # action.key)
  /\ i \in DOMAIN plans /\ plans[i].account = a /\ plans[i].status = "CURRENT"
  /\ t \in DOMAIN rows[i] /\ rows[i][t].status = "OPEN"
  /\ rows' = [rows EXCEPT ![i][t].status = "RECORDED"]
  /\ plans' = [plans EXCEPT ![i].status = "STALE"]
  /\ UNCHANGED <<saving, clock>>

LEMMA RecordEffect ==
  ASSUME IInv, NEW a \in DOMAIN accounts, NEW i \in DOMAIN plans, NEW t \in DOMAIN rows[i],
         NEW q \in Quantities, NEW v, NEW k \in Keys, RecordAction(a, i, t, q, v, k)
  PROVE  \E x : Booked(a, i, t, x)
  <1> DEFINE fill == Fill(a, i, t, q)
             new == [version |-> accounts[a].version + 1, cash |-> fill.cash,
                     starting |-> accounts[a].starting, request |-> accounts[a].request]
             x == [key |-> k, account |-> a, plan |-> i, ticker |-> t, kind |-> fill.kind,
                   qty |-> q, before |-> v, after |-> v + 1, released |-> fill.released,
                   realized |-> fill.realized]
  <1>1. /\ accounts[a].version = v /\ (\A y \in actions : y.key # k)
        /\ Recordable(a, i, t, q) /\ Covered(a, i, t, q) /\ BookFill(a, i, t, q, v, k)
        /\ rows' = [rows EXCEPT ![i][t].status = "RECORDED"]
        /\ plans' = [plans EXCEPT ![i].status = "STALE"]
        /\ UNCHANGED <<saving, clock>>
    BY DEF RecordAction
  <1>2. FillOK(a, fill)
    BY <1>1, FillStep DEF IInv
  <1>3. /\ positions' = [positions EXCEPT ![a] = fill.positions]
        /\ accounts' = [accounts EXCEPT ![a].cash = fill.cash, ![a].version = @ + 1]
        /\ snapshots' = snapshots \union {Snapshot(a, v + 1, fill.cash, fill.positions)}
        /\ actions' = actions \union {x}
    BY <1>1 DEF BookFill
  <1>4. /\ i \in Plans(a) /\ plans[i].status = "CURRENT" /\ rows[i][t].status = "OPEN"
        /\ Close(i, t) # None
    BY <1>1 DEF Recordable, Live
  <1> HIDE DEF fill
  <1>6. /\ accounts \in [DOMAIN accounts -> Account] /\ accounts[a] \in Account /\ a \in Accounts
        /\ positions \in [Accounts -> SUBSET Position] /\ i \in Nat /\ t \in Tickers
    <2>1. t \in Tickers
      BY <1>4, CloseType DEF IInv
    <2> QED BY <2>1, Numbers DEF IInv, TypeOK
  <1>7. accounts' = [accounts EXCEPT ![a] = new]
    <2> DEFINE old == accounts[a]
               paid == [old EXCEPT !.cash = fill.cash]
               moved == [paid EXCEPT !.version = @ + 1]
    <2>1. accounts' = [accounts EXCEPT ![a] = moved]
      BY <1>3, <1>6
    <2>2. paid = [version |-> old.version, cash |-> fill.cash,
                  starting |-> old.starting, request |-> old.request]
      BY <1>6 DEF Account
    <2> HIDE DEF paid
    <2>3. moved = new
      BY <2>2
    <2> QED BY <2>1, <2>3
  <1>8. new \in Account /\ new.version = v + 1 /\ new.cash = fill.cash /\ v \in Nat \ {0}
    BY <1>1, <1>2, <1>6 DEF Account, FillOK
  <1>9. x \in Action /\ x.account = a /\ x.plan = i /\ x.ticker = t /\ x.before = v /\ x.key = k
    <2>1. v + 1 \in Nat \ {0}
      BY <1>8
    <2> QED BY <1>2, <1>6, <1>8, <2>1 DEF Action, FillOK
  <1> HIDE DEF new, x
  <1>10. /\ DOMAIN accounts' = DOMAIN accounts /\ accounts' \in [DOMAIN accounts' -> Account]
         /\ accounts'[a] = new /\ \A b \in DOMAIN accounts \ {a} : accounts'[b] = accounts[b]
    BY <1>6, <1>7, <1>8
  <1>11. /\ positions' \in [Accounts -> SUBSET Position] /\ positions'[a] = fill.positions
         /\ OneSide(positions'[a]) /\ \A b \in Accounts \ {a} : positions'[b] = positions[b]
    BY <1>2, <1>3, <1>6 DEF FillOK
  <1>12. snapshots' = snapshots \union {Snapshot(a, accounts'[a].version, accounts'[a].cash, positions'[a])}
    BY <1>3, <1>8, <1>10, <1>11
  <1>13. plans[i].account = a
    BY <1>4 DEF Plans
  <1>14. Booked(a, i, t, x)
    BY <1>1, <1>3, <1>4, <1>8, <1>9, <1>10, <1>11, <1>12, <1>13 DEF Booked
  <1> QED BY <1>14

LEMMA RecordInv ==
  ASSUME IInv, NEW a \in DOMAIN accounts, NEW i, NEW t, NEW y, Booked(a, i, t, y)
  PROVE  IInv'
  <1>1. i \in DOMAIN plans /\ plans[i].account = a /\ plans[i].status = "CURRENT"
        /\ plans' = [plans EXCEPT ![i].status = "STALE"]
    BY DEF Booked
  <1>2. RowMoved(i, t, "RECORDED")
    <2>1. t \in DOMAIN rows[i] /\ rows' = [rows EXCEPT ![i][t].status = "RECORDED"]
          /\ "RECORDED" \in {"OPEN", "DISMISSED", "RECORDED"}
      BY DEF Booked
    <2> QED BY <1>1, <2>1, RowStep
  <1>3. DOMAIN rows = DOMAIN plans /\ Len(rows) = Len(plans)
    BY RowNumbers
  <1>4. /\ plans' \in Seq(Plan) /\ Len(plans') = Len(plans) /\ DOMAIN plans' = DOMAIN plans
        /\ \A j \in DOMAIN plans :
             /\ plans'[j].account = plans[j].account /\ plans'[j].version = plans[j].version
             /\ plans'[j].status = IF j = i THEN "STALE" ELSE plans[j].status
    <2> DEFINE p == [plans[i] EXCEPT !.status = "STALE"]
    <2>1. plans[i] \in Plan /\ plans \in Seq(Plan) /\ i \in 1 .. Len(plans)
          /\ DOMAIN plans = 1 .. Len(plans)
      BY <1>1, Numbers DEF IInv, TypeOK
    <2>2. p \in Plan /\ p.account = plans[i].account /\ p.version = plans[i].version /\ p.status = "STALE"
      BY <2>1 DEF Plan
    <2>3. plans' = [plans EXCEPT ![i] = p]
      BY <1>1
    <2> HIDE DEF p
    <2>4. /\ [plans EXCEPT ![i] = p] \in Seq(Plan) /\ Len([plans EXCEPT ![i] = p]) = Len(plans)
          /\ \A j \in 1 .. Len(plans) : [plans EXCEPT ![i] = p][j] = IF j = i THEN p ELSE plans[j]
      BY <2>1, <2>2, ExceptSeq
    <2> QED BY <2>1, <2>2, <2>3, <2>4
  <1>5. /\ DOMAIN accounts' = DOMAIN accounts /\ accounts' \in [DOMAIN accounts' -> Account]
        /\ accounts[a].version \in Nat \ {0} /\ accounts'[a].version = accounts[a].version + 1
        /\ \A b \in DOMAIN accounts \ {a} : accounts'[b] = accounts[b]
        /\ positions' \in [Accounts -> SUBSET Position] /\ OneSide(positions'[a])
        /\ \A b \in Accounts \ {a} : positions'[b] = positions[b]
        /\ UNCHANGED <<saving, clock>>
    BY DEF Booked
  <1>6. \A b \in DOMAIN accounts :
          accounts[b].version \in Nat /\ accounts'[b].version \in Nat
          /\ accounts[b].version <= accounts'[b].version
    <2>1. \A b \in DOMAIN accounts : accounts[b].version \in Nat
      BY DEF IInv, TypeOK, Account
    <2> QED BY <1>5, <2>1
  <1>7. accounts'[a] \in Account /\ a \in Accounts /\ positions'[a] \in SUBSET Position
    BY <1>5 DEF IInv, TypeOK
  <1>8. TypeOK'
    <2>1. \A w \in Writers : (saving[w] = None \/ SavingOK(saving[w]))'
      BY <1>5, <1>6, SavingStep DEF IInv
    <2>2. snapshots' \subseteq [account : Accounts, version : Nat \ {0}, cash : Nat,
                               positions : SUBSET Position]
      <3>1. Snapshot(a, accounts'[a].version, accounts'[a].cash, positions'[a])
              \in [account : Accounts, version : Nat \ {0}, cash : Nat, positions : SUBSET Position]
        BY <1>7 DEF Snapshot, Account
      <3> QED BY <3>1 DEF IInv, TypeOK, Booked
    <2>3. \A b \in Accounts : OneSide(positions'[b])
      BY <1>5 DEF IInv, TypeOK
    <2>4. \A j \in DOMAIN plans : plans[j].account \in DOMAIN accounts
      BY DEF IInv, TypeOK
    <2>5. actions' \subseteq Action
      BY DEF IInv, TypeOK, Booked
    <2>6. Len(rows') = Len(plans') /\ \A j \in DOMAIN plans' : OverTickers(rows'[j], PlanRow)
      BY <1>2, <1>3, <1>4 DEF RowMoved
    <2> QED BY <1>4, <1>5, <2>1, <2>2, <2>3, <2>4, <2>5, <2>6 DEF IInv, TypeOK, OneSide
  <1>9. UnopenedIsEmpty' /\ RowsOK'
    BY <1>2, <1>5, <1>7 DEF IInv, UnopenedIsEmpty, RowsOK, RowMoved
  <1>10. CurrentPlanMatchesAccount'
    <2>1. \A j \in DOMAIN plans : plans[j].account \in DOMAIN accounts
      BY DEF IInv, TypeOK
    <2>2. \A j \in DOMAIN plans : plans'[j].status = "CURRENT" =>
            plans[j].status = "CURRENT" /\ plans[j].account # a
      BY <1>1, <1>4 DEF IInv, CurrentPlanMatchesAccount
    <2>3. \A j \in DOMAIN plans' : plans'[j].status = "CURRENT" => Live(j)'
      BY <1>4, <1>5, <2>1, <2>2 DEF IInv, CurrentPlanMatchesAccount, Live
    <2> QED BY <1>4, <2>2, <2>3 DEF IInv, CurrentPlanMatchesAccount
  <1>11. SnapInv'
    <2> DEFINE none == {}
    <2>1. \A s \in snapshots : s.version \in Nat /\ (s.account = a => s.version <= accounts[a].version)
      BY DEF IInv, TypeOK, SnapInv
    <2>2. /\ \A s \in snapshots \union none : s.version \in Nat
          /\ \A s \in snapshots : s.account = a => s.version < accounts'[a].version
          /\ \A s \in none : s.account = a /\ s.version < accounts'[a].version
          /\ snapshots' = snapshots \union none \union
               {Snapshot(a, accounts'[a].version, accounts'[a].cash, positions'[a])}
      BY <1>5, <2>1 DEF Booked
    <2>3. \A b \in DOMAIN accounts :
            b # a => accounts'[b] = accounts[b] /\ positions'[b] = positions[b]
      BY <1>5 DEF IInv, TypeOK
    <2>4. DOMAIN accounts' = DOMAIN accounts \union {a}
      <3>1. DOMAIN accounts = DOMAIN accounts \union {a}
        OBVIOUS
      <3> QED BY <1>5, <3>1
    <2>5. accounts'[a].version \in Nat
      BY <1>5
    <2> HIDE DEF none
    <2> QED BY <2>2, <2>3, <2>4, <2>5, SnapStep DEF IInv
  <1>12. ActionInv'
    <2>1. /\ actions' = actions \union {y} /\ y.account = a /\ y.plan = i /\ y.ticker = t
          /\ y.before = accounts[a].version /\ (\A x \in actions : x.key # y.key)
          /\ t \in DOMAIN rows[i] /\ rows[i][t].status = "OPEN"
      BY DEF Booked
    <2>2. \A x \in actions :
            /\ x.plan \in DOMAIN plans /\ x.account = plans[x.plan].account
            /\ x.ticker \in DOMAIN rows[x.plan] /\ x.before < accounts[x.account].version
            /\ x.account \in DOMAIN accounts /\ x.before \in Nat
      BY DEF IInv, TypeOK, ActionInv, Action
    <2>3. \A j \in DOMAIN rows : \A u \in DOMAIN rows[j] :
            rows[j][u].status = "RECORDED" <=> \E x \in actions : x.plan = j /\ x.ticker = u
      BY DEF IInv, ActionInv, RecordedOnce
    <2>4. \A j \in DOMAIN rows' : \A u \in DOMAIN rows'[j] :
            rows'[j][u].status = "RECORDED" <=> \E x \in actions' : x.plan = j /\ x.ticker = u
      <3> SUFFICES ASSUME NEW j \in DOMAIN rows', NEW u \in DOMAIN rows'[j]
                   PROVE  rows'[j][u].status = "RECORDED" <=> \E x \in actions' : x.plan = j /\ x.ticker = u
        OBVIOUS
      <3>1. j \in DOMAIN rows /\ u \in DOMAIN rows[j]
            /\ rows'[j][u].status = IF j = i /\ u = t THEN "RECORDED" ELSE rows[j][u].status
        BY <1>2 DEF RowMoved
      <3>2. CASE j = i /\ u = t
        BY <2>1, <3>1, <3>2
      <3>3. CASE ~(j = i /\ u = t)
        BY <2>1, <2>3, <3>1, <3>3
      <3> QED BY <3>2, <3>3
    <2>5. \A x \in actions : /\ x.key # y.key
                             /\ ~(x.plan = i /\ x.ticker = t)
                             /\ ~(x.account = a /\ x.before = accounts[a].version)
      <3> SUFFICES ASSUME NEW x \in actions
                   PROVE  ~(x.plan = i /\ x.ticker = t) /\ ~(x.account = a /\ x.before = accounts[a].version)
        BY <2>1
      <3>1. ~(x.plan = i /\ x.ticker = t)
        BY <1>1, <1>3, <2>1, <2>3
      <3>2. ~(x.account = a /\ x.before = accounts[a].version)
        BY <1>5, <2>2
      <3> QED BY <3>1, <3>2
    <2>6. \A x, z \in actions' :
            \/ x.key = z.key
            \/ x.plan = z.plan /\ x.ticker = z.ticker
            \/ x.account = z.account /\ x.before = z.before
            => x = z
      <3> SUFFICES ASSUME NEW x \in actions', NEW z \in actions',
                          \/ x.key = z.key
                          \/ x.plan = z.plan /\ x.ticker = z.ticker
                          \/ x.account = z.account /\ x.before = z.before
                   PROVE  x = z
        OBVIOUS
      <3>1. CASE x \in actions /\ z \in actions
        BY <3>1 DEF IInv, ActionInv, RecordedOnce
      <3>2. CASE x \in actions /\ z = y
        <4>1. \/ x.key = y.key
              \/ x.plan = i /\ x.ticker = t
              \/ x.account = a /\ x.before = accounts[a].version
          BY <2>1, <3>2
        <4> QED BY <2>5, <3>2, <4>1
      <3>3. CASE x = y /\ z \in actions
        <4>1. \/ z.key = y.key
              \/ z.plan = i /\ z.ticker = t
              \/ z.account = a /\ z.before = accounts[a].version
          BY <2>1, <3>3
        <4> QED BY <2>5, <3>3, <4>1
      <3> QED BY <2>1, <3>1, <3>2, <3>3
    <2>7. RecordedOnce'
      BY <2>4, <2>6 DEF RecordedOnce
    <2>8. \A x \in actions' : x.before < accounts'[x.account].version
      BY <1>5, <1>6, <2>1, <2>2
    <2>9. \A x \in actions' :
            /\ x.plan \in DOMAIN plans' /\ x.account = plans'[x.plan].account
            /\ x.ticker \in DOMAIN rows'[x.plan]
      BY <1>1, <1>2, <1>3, <1>4, <2>1, <2>2 DEF RowMoved
    <2> QED BY <2>7, <2>8, <2>9 DEF ActionInv
  <1> QED BY <1>8, <1>9, <1>10, <1>11, <1>12 DEF IInv

-----------------------------------------------------------------------------
LEMMA NextIInv ==
  ASSUME IInv, [Next]_vars
  PROVE  IInv'
  <1>1. CASE Create
    BY <1>1, CreateInv DEF Create
  <1>2. CASE Update
    BY <1>2, UpdateInv DEF Update
  <1>3. CASE Begin
    BY <1>3, BeginInv DEF Begin
  <1>4. CASE Save
    BY <1>4, SaveInv DEF Save
  <1>5. CASE Review
    BY <1>5, StatusInv DEF Review
  <1>6. CASE Record
    <2>1. PICK a \in DOMAIN accounts, i \in DOMAIN plans, q \in Quantities, k \in Keys :
            \E t \in DOMAIN rows[i], v \in Seen(a) : RecordAction(a, i, t, q, v, k)
      BY <1>6 DEF Record
    <2>2. PICK t \in DOMAIN rows[i], v \in Seen(a) : RecordAction(a, i, t, q, v, k)
      BY <2>1
    <2>3. \E x : Booked(a, i, t, x)
      BY <2>2, RecordEffect
    <2> QED BY <2>3, RecordInv
  <1>7. CASE UNCHANGED vars
    <2>1. UNCHANGED <<book, plans, rows, actions, saving, clock, accounts, positions, snapshots>>
      BY <1>7 DEF vars, book
    <2>2. TypeOK'
      BY <2>1 DEF IInv, TypeOK, SavingOK, Seen, OneSide, OverTickers
    <2>3. CurrentPlanMatchesAccount' /\ ActionInv' /\ RowsOK'
      BY <2>1 DEF IInv, CurrentPlanMatchesAccount, Live, ActionInv, RecordedOnce, RowsOK
    <2> QED BY <2>1, <2>2, <2>3, BookStep DEF IInv
  <1> QED BY <1>1, <1>2, <1>3, <1>4, <1>5, <1>6, <1>7 DEF Next

(* Accounts, plans, recommendations, actions and snapshots always fit       *)
(* together: IInv is inductive.                                             *)
THEOREM AccountInvariant == Spec => []IInv
  <1>1. Init => IInv
    BY InitIInv
  <1>2. IInv /\ [Next]_vars => IInv'
    BY NextIInv
  <1> QED BY <1>1, <1>2, PTL DEF Spec

(* Every reachable state is well typed: cash and cost basis never become    *)
(* negative, an account holds one position per ticker and side.             *)
THEOREM AccountTypeCorrect == Spec => []TypeOK
  <1>1. IInv => TypeOK
    BY DEF IInv
  <1> QED BY <1>1, AccountInvariant, PTL

(* At most one plan of an account is CURRENT, and it is of the account's    *)
(* present version.                                                         *)
THEOREM CurrentPlansMatch == Spec => []CurrentPlanMatchesAccount
  <1>1. IInv => CurrentPlanMatchesAccount
    BY DEF IInv
  <1> QED BY <1>1, AccountInvariant, PTL

(* A recommendation is RECORDED exactly when one action was booked for it,  *)
(* and no two actions share a key or consumed one version.                  *)
THEOREM ActionsAreRecordedOnce == Spec => []RecordedOnce
  <1>1. IInv => RecordedOnce
    BY DEF IInv, ActionInv
  <1> QED BY <1>1, AccountInvariant, PTL

(* The snapshot an account is shown with has its cash and positions.        *)
THEOREM SnapshotsAreCurrent == Spec => []ShownSnapshotIsCurrent
  <1>1. IInv => ShownSnapshotIsCurrent
    <2> SUFFICES ASSUME IInv, NEW a \in DOMAIN accounts
                 PROVE  /\ ShownSnapshots(a) # {}
                        /\ \A s \in ShownSnapshots(a) :
                             s.cash = accounts[a].cash /\ s.positions = positions[a]
      BY DEF ShownSnapshotIsCurrent
    <2>1. PICK s \in snapshots : s.account = a /\ s.version = accounts[a].version
      BY DEF IInv, SnapInv
    <2>2. \A r \in snapshots : r.account = a =>
            /\ r.version \in Nat /\ r.version <= s.version
            /\ r.version = s.version => r.cash = accounts[a].cash /\ r.positions = positions[a]
      BY <2>1 DEF IInv, TypeOK, SnapInv
    <2>3. s \in ShownSnapshots(a)
      BY <2>1, <2>2 DEF ShownSnapshots
    <2>4. \A r \in ShownSnapshots(a) : r \in snapshots /\ r.account = a /\ r.version = s.version
      BY <2>1, <2>2 DEF ShownSnapshots
    <2> QED BY <2>2, <2>3, <2>4
  <1> QED BY <1>1, AccountInvariant, PTL

-----------------------------------------------------------------------------
(* What one step does to the books and plans of the accounts there are.     *)

Untouched(b) ==
  /\ accounts'[b] = accounts[b] /\ positions'[b] = positions[b]
  /\ \A i \in Plans(b) : plans'[i] = plans[i] /\ rows'[i] = rows[i]
  /\ \A i \in DOMAIN plans' \ DOMAIN plans : plans'[i].account # b

NewVersion(a) == accounts'[a].version = accounts[a].version + 1
SameBook(a) == accounts'[a] = accounts[a] /\ positions'[a] = positions[a]

(* Every step touches one account at most, and what it does to its book     *)
(* gives it a new version.                                                  *)
OneTouched ==
  \E a : /\ \A b \in DOMAIN accounts : b # a => Untouched(b)
         /\ \A b \in DOMAIN accounts : NewVersion(b) \/ SameBook(b)

LEMMA UpdateTouches ==
  ASSUME IInv, NEW a \in DOMAIN accounts, NEW v, NEW f \in Forms, UpdateSnapshot(a, v, f)
  PROVE  OneTouched
  <1>1. /\ NewVersion(a) /\ \A b \in DOMAIN accounts \ {a} : SameBook(b)
    BY UpdateEffect DEF IInv, TypeOK, NewVersion, SameBook
  <1>2. /\ rows' = rows /\ DOMAIN plans' = DOMAIN plans
        /\ \A i \in DOMAIN plans : plans[i].account # a => plans'[i] = plans[i]
    BY RetireStep DEF IInv, UpdateSnapshot
  <1>3. \A b \in DOMAIN accounts : b # a => Untouched(b)
    BY <1>1, <1>2 DEF Untouched, SameBook, Plans
  <1> QED BY <1>1, <1>3 DEF OneTouched

LEMMA SaveTouches ==
  ASSUME IInv, NEW w \in Writers, SavePlan(w)
  PROVE  OneTouched
  <1> DEFINE a == saving[w].account
             n == Len(plans) + 1
  <1>1. \A b \in DOMAIN accounts : SameBook(b)
    BY DEF SavePlan, book, SameBook
  <1>2. CASE plans' = plans
    <2>1. rows' = rows
      <3>1. Len(plans') = Len(plans)
        BY <1>2
      <3>2. IInv' /\ IInv
        BY SaveInv
      <3>3. Len(rows') = Len(rows) /\ Len(rows) \in Nat /\ rows \in Seq(RowTables)
        BY <3>1, <3>2, Numbers DEF IInv, TypeOK, RowsOK
      <3>4. rows' = rows \/ \E r \in RowTables : rows' = Append(rows, r)
        <4> DEFINE table == [t \in DOMAIN saving[w].proposed |->
                               [proposal |-> saving[w].proposed[t], status |-> "OPEN"]]
        <4>1. OverTickers(saving[w].proposed, Proposals)
          BY DEF IInv, TypeOK, SavingOK, SavePlan
        <4>2. table \in [DOMAIN saving[w].proposed -> PlanRow]
          BY <4>1 DEF OverTickers, PlanRow
        <4>3. table \in RowTables
          BY <4>1, <4>2 DEF RowTables, OverTickers
        <4> QED BY <4>3 DEF SavePlan
      <3>5. ASSUME NEW r \in RowTables, rows' = Append(rows, r) PROVE FALSE
        <4>1. Len(Append(rows, r)) = Len(rows) + 1
          BY <3>3, AppendProperties
        <4> QED BY <3>3, <3>5, <4>1
      <3> QED BY <3>4, <3>5
    <2> QED BY <1>1, <1>2, <2>1 DEF OneTouched, Untouched, SameBook, Plans
  <1>3. CASE plans' # plans
    <2>1. /\ DOMAIN plans' = DOMAIN plans \union {n} /\ plans'[n].account = a
          /\ \A i \in DOMAIN plans : plans[i].account # a => plans'[i] = plans[i]
          /\ \A i \in DOMAIN rows : rows'[i] = rows[i]
      <3>1. Saved(saving[w], n)
        BY <1>3, SaveEffect
      <3>2. plans'[n].account = a
        BY <3>1 DEF Saved
      <3> QED BY <3>1, <3>2 DEF Saved
    <2>2. DOMAIN rows = DOMAIN plans
      BY RowNumbers
    <2> HIDE DEF a, n
    <2>3. \A b \in DOMAIN accounts : b # a => Untouched(b)
      BY <1>1, <2>1, <2>2 DEF Untouched, SameBook, Plans
    <2> QED BY <1>1, <2>3 DEF OneTouched
  <1> QED BY <1>2, <1>3

LEMMA StatusTouches ==
  ASSUME IInv, NEW i \in DOMAIN plans, NEW t \in DOMAIN rows[i], NEW s \in {"OPEN", "DISMISSED"},
         SetStatus(i, t, s)
  PROVE  OneTouched
  <1>1. RowMoved(i, t, s)
    <2>1. rows' = [rows EXCEPT ![i][t].status = s] /\ s \in {"OPEN", "DISMISSED", "RECORDED"}
      BY DEF SetStatus
    <2> QED BY <2>1, RowStep
  <1>2. UNCHANGED <<accounts, positions, plans>> /\ DOMAIN rows = DOMAIN plans
    BY RowNumbers DEF SetStatus, book
  <1>3. \A b \in DOMAIN accounts : SameBook(b) /\ (b # plans[i].account => Untouched(b))
    BY <1>1, <1>2 DEF SameBook, Untouched, Plans, RowMoved
  <1> QED BY <1>3 DEF OneTouched

LEMMA RecordTouches ==
  ASSUME IInv, NEW a \in DOMAIN accounts, NEW i, NEW t, NEW y, Booked(a, i, t, y)
  PROVE  OneTouched
  <1>1. /\ NewVersion(a) /\ \A b \in DOMAIN accounts \ {a} : SameBook(b)
    BY DEF Booked, IInv, TypeOK, NewVersion, SameBook
  <1>2. RowMoved(i, t, "RECORDED") /\ i \in DOMAIN plans /\ plans[i].account = a
    <2>1. i \in DOMAIN plans /\ plans[i].account = a
          /\ t \in DOMAIN rows[i] /\ rows' = [rows EXCEPT ![i][t].status = "RECORDED"]
          /\ "RECORDED" \in {"OPEN", "DISMISSED", "RECORDED"}
      BY DEF Booked
    <2> QED BY <2>1, RowStep
  <1>3. DOMAIN rows = DOMAIN plans /\ DOMAIN plans' = DOMAIN plans
        /\ \A j \in DOMAIN plans : j # i => plans'[j] = plans[j]
    BY RowNumbers DEF Booked
  <1>4. \A b \in DOMAIN accounts : b # a => Untouched(b)
    BY <1>1, <1>2, <1>3 DEF Untouched, SameBook, Plans, RowMoved
  <1> QED BY <1>1, <1>4 DEF OneTouched

LEMMA StepTouches ==
  ASSUME IInv, [Next]_vars
  PROVE  OneTouched
  <1>1. CASE Create
    BY <1>1 DEF Create, CreatePortfolio, OneTouched, Untouched, SameBook, Plans
  <1>2. CASE Update
    BY <1>2, UpdateTouches DEF Update
  <1>3. CASE Begin
    BY <1>3 DEF Begin, BeginSave, book, OneTouched, Untouched, SameBook, Plans
  <1>4. CASE Save
    BY <1>4, SaveTouches DEF Save
  <1>5. CASE Review
    BY <1>5, StatusTouches DEF Review
  <1>6. CASE Record
    <2>1. PICK a \in DOMAIN accounts, i \in DOMAIN plans, q \in Quantities, k \in Keys :
            \E t \in DOMAIN rows[i], v \in Seen(a) : RecordAction(a, i, t, q, v, k)
      BY <1>6 DEF Record
    <2>2. PICK t \in DOMAIN rows[i], v \in Seen(a) : RecordAction(a, i, t, q, v, k)
      BY <2>1
    <2>3. \E x : Booked(a, i, t, x)
      BY <2>2, RecordEffect
    <2> QED BY <2>3, RecordTouches
  <1>7. CASE UNCHANGED vars
    BY <1>7 DEF vars, book, OneTouched, Untouched, SameBook, Plans
  <1> QED BY <1>1, <1>2, <1>3, <1>4, <1>5, <1>6, <1>7 DEF Next

(* A request for one portfolio leaves the user's others as they were.       *)
THEOREM PortfoliosAreSeparate == Spec => AccountsAreSeparate
  <1>1. IInv /\ [Next]_vars =>
          [\A a, b \in DOMAIN accounts : Touched(a) /\ Touched(b) => a = b]_vars
    <2> SUFFICES ASSUME IInv, [Next]_vars, NEW a \in DOMAIN accounts, NEW b \in DOMAIN accounts,
                        Touched(a), Touched(b)
                 PROVE  a = b
      OBVIOUS
    <2>1. PICK c : \A d \in DOMAIN accounts : d # c => Untouched(d)
      BY StepTouches DEF OneTouched
    <2>2. ~Untouched(a) /\ ~Untouched(b)
      BY DEF Touched, Untouched
    <2> QED BY <2>1, <2>2
  <1> QED BY <1>1, AccountInvariant, PTL DEF Spec, AccountsAreSeparate

(* The book of an account never changes without its version moving by one.  *)
THEOREM VersionsNameBooks == Spec => VersionNamesBook
  <1>1. IInv /\ [Next]_vars =>
          [\A a \in DOMAIN accounts :
             \/ accounts'[a].version = accounts[a].version + 1
             \/ accounts'[a] = accounts[a] /\ positions'[a] = positions[a]]_vars
    BY StepTouches DEF OneTouched, NewVersion, SameBook
  <1> QED BY <1>1, AccountInvariant, PTL DEF Spec, VersionNamesBook

-----------------------------------------------------------------------------
(* Money: the sums of the account are those of FiniteSums, and a paper      *)
(* action takes one position out of them and puts one in.                   *)
LEMMA ValueIsSum ==
  ASSUME NEW S, IsFiniteSet(S), NEW g, \A x \in S : g[x] = x.qty * x.price
  PROVE  Value(S) = Sum(g, S)
  <1> DEFINE Fold(F) == F = [s \in SUBSET S |->
                IF s = {} THEN 0 ELSE Taken(s).qty * Taken(s).price + F[s \ {Taken(s)}]]
  <1>1. Value(S) = (CHOOSE F : Fold(F))[S]
    BY DEF Value, MapThenSumSet, MapThenFoldSet, Taken
  <1>2. ASSUME NEW F
        PROVE  Fold(F) <=> Sums(g, S, F)
    <2>1. \A s \in SUBSET S : s # {} => g[Taken(s)] = Taken(s).qty * Taken(s).price
      BY DEF Taken
    <2> QED BY <2>1 DEF Sums
  <1> HIDE DEF Fold
  <1>3. PICK F : Sums(g, S, F) /\ Sum(g, S) = F[S]
    BY SumIs
  <1>4. Fold(CHOOSE G : Fold(G))
    BY <1>2, <1>3
  <1>5. Sums(g, S, CHOOSE G : Fold(G))
    BY <1>2, <1>4
  <1> QED BY <1>1, <1>3, <1>5, SumsAgree

LEMMA BasisIsSum ==
  ASSUME NEW S, IsFiniteSet(S), NEW g, \A x \in S : g[x] = x.basis
  PROVE  Basis(S) = Sum(g, S)
  <1> DEFINE Fold(F) == F = [s \in SUBSET S |->
                IF s = {} THEN 0 ELSE Taken(s).basis + F[s \ {Taken(s)}]]
  <1>1. Basis(S) = (CHOOSE F : Fold(F))[S]
    BY DEF Basis, MapThenSumSet, MapThenFoldSet, Taken
  <1>2. ASSUME NEW F
        PROVE  Fold(F) <=> Sums(g, S, F)
    <2>1. \A s \in SUBSET S : s # {} => g[Taken(s)] = Taken(s).basis
      BY DEF Taken
    <2> QED BY <2>1 DEF Sums
  <1> HIDE DEF Fold
  <1>3. PICK F : Sums(g, S, F) /\ Sum(g, S) = F[S]
    BY SumIs
  <1>4. Fold(CHOOSE G : Fold(G))
    BY <1>2, <1>3
  <1>5. Sums(g, S, CHOOSE G : Fold(G))
    BY <1>2, <1>4
  <1> QED BY <1>1, <1>3, <1>5, SumsAgree

LEMMA BasisRemoves ==
  ASSUME NEW S, IsFiniteSet(S), \A x \in S : x.basis \in Int, NEW p \in S
  PROVE  Basis(S) \in Int /\ Basis(S \ {p}) \in Int /\ Basis(S) = p.basis + Basis(S \ {p})
  <1> DEFINE g == [x \in S |-> x.basis]
  <1>1. IsFiniteSet(S \ {p})
    BY FS_RemoveElement
  <1>2. \A x \in S : g[x] = x.basis /\ g[x] \in Int
    OBVIOUS
  <1> HIDE DEF g
  <1>3. Basis(S) = Sum(g, S) /\ Basis(S \ {p}) = Sum(g, S \ {p})
    BY <1>1, <1>2, BasisIsSum
  <1>4. Sum(g, S) \in Int /\ Sum(g, S) = g[p] + Sum(g, S \ {p})
    BY <1>2, SumTakes
  <1>5. Sum(g, S \ {p}) \in Int
    BY <1>1, <1>2, SumTakes
  <1> QED BY <1>2, <1>3, <1>4, <1>5

LEMMA ValueRemoves ==
  ASSUME NEW S, IsFiniteSet(S), \A x \in S : x.qty * x.price \in Int, NEW p \in S
  PROVE  /\ Value(S) \in Int /\ Value(S \ {p}) \in Int
         /\ Value(S) = p.qty * p.price + Value(S \ {p})
  <1> DEFINE g == [x \in S |-> x.qty * x.price]
  <1>1. IsFiniteSet(S \ {p})
    BY FS_RemoveElement
  <1>2. \A x \in S : g[x] = x.qty * x.price /\ g[x] \in Int
    OBVIOUS
  <1> HIDE DEF g
  <1>3. Value(S) = Sum(g, S) /\ Value(S \ {p}) = Sum(g, S \ {p})
    BY <1>1, <1>2, ValueIsSum
  <1>4. Sum(g, S) \in Int /\ Sum(g, S) = g[p] + Sum(g, S \ {p})
    BY <1>2, SumTakes
  <1>5. Sum(g, S \ {p}) \in Int
    BY <1>1, <1>2, SumTakes
  <1> QED BY <1>2, <1>3, <1>4, <1>5

LEMMA ValueOfNone == Value({}) = 0
  <1> DEFINE g == [x \in {} |-> 0]
  <1>1. \A x \in {} : g[x] = x.qty * x.price
    OBVIOUS
  <1> HIDE DEF g
  <1>2. Value({}) = Sum(g, {})
    BY <1>1, FS_EmptySet, ValueIsSum
  <1> QED BY <1>2, SumOfNone

(* What a purchase puts in, for the position held before if there was one.  *)
Buys(a, t, q, cost, fill) ==
  /\ Rounds(fill.cash, accounts[a].cash * Fine + (0 - cost), Fine)
  /\ fill.released = 0 /\ fill.realized = 0
  /\ \E lot \in Position :
       /\ lot.ticker = t /\ lot.dir = "LONG"
       /\ \/ /\ Held(a, t) = {} /\ fill.kind = "OPEN"
             /\ lot.qty = q /\ Rounds(lot.basis, cost, Fine)
             /\ fill.positions = positions[a] \union {lot}
          \/ \E p \in Held(a, t) :
               /\ Held(a, t) = {p} /\ fill.kind = "INCREASE"
               /\ lot.qty = p.qty + q /\ Rounds(lot.basis, p.basis * Fine + cost, Fine)
               /\ fill.positions = (positions[a] \ {p}) \union {lot}

(* What an exit leaves of the position it takes out; share / h is the basis *)
(* of the shares sold.                                                      *)
SellsOf(p, left, q, proceeds, fill) ==
  LET h == p.qty
      share == p.basis * q
  IN /\ Rounds(left, p.basis * h + (0 - share), h)
     /\ Rounds(fill.released, share, h)
     /\ Rounds(fill.realized, proceeds * h - share * Fine, h * Fine)

Sells(a, t, q, proceeds, fill) ==
  /\ Rounds(fill.cash, accounts[a].cash * Fine + proceeds, Fine)
  /\ fill.kind \in {"CLOSE", "DECREASE"}
  /\ \E p \in Held(a, t), left \in Nat :
       /\ SellsOf(p, left, q, proceeds, fill)
       /\ \/ left = 0 /\ fill.positions = positions[a] \ {p}
          \/ \E lot \in Position :
               /\ lot.ticker = t /\ lot.dir = "LONG" /\ lot.basis = left
               /\ fill.positions = (positions[a] \ {p}) \union {lot}

LEMMA PurchaseBuys ==
  ASSUME TypeOK, NEW a \in DOMAIN accounts, NEW i \in DOMAIN plans, NEW t \in DOMAIN rows[i],
         NEW q \in Quantities, Close(i, t) # None
  PROVE  Buys(a, t, q, q * Close(i, t), Purchase(a, i, t, q))
  <1> DEFINE cost == q * Close(i, t)
             held == Held(a, t)
  <1>1. cost \in Nat /\ q \in Nat \ {0} /\ t \in Tickers
    BY CloseType, InputAssumption
  <1>2. positions[a] \in SUBSET Position /\ OneSide(positions[a]) /\ held \subseteq positions[a]
        /\ \A p \in held : p.ticker = t /\ p.dir = "LONG"
    BY DEF TypeOK, Held
  <1>0. /\ accounts[a].cash \in Nat /\ Fine \in Nat \ {0}
        /\ accounts[a].cash * Fine - cost = accounts[a].cash * Fine + (0 - cost)
        /\ accounts[a].cash * Fine - cost \in Int
    <2>1. accounts[a].cash \in Nat /\ Fine \in Nat \ {0}
      BY InputAssumption DEF TypeOK, Account
    <2> QED BY <1>1, <2>1
  <1>3. /\ Purchase(a, i, t, q).kind = (IF held = {} THEN "OPEN" ELSE "INCREASE")
        /\ Purchase(a, i, t, q).positions = (positions[a] \ held) \union
             (IF held = {} THEN {Long(t, q, Rounded(cost, Fine))}
              ELSE {Long(t, p.qty + q, Rounded(p.basis * Fine + cost, Fine)) : p \in held})
        /\ Purchase(a, i, t, q).cash = Rounded(accounts[a].cash * Fine - cost, Fine)
        /\ Purchase(a, i, t, q).released = 0 /\ Purchase(a, i, t, q).realized = 0
    BY DEF Purchase
  <1> HIDE DEF cost, held
  <1>6. Rounds(Purchase(a, i, t, q).cash, accounts[a].cash * Fine + (0 - cost), Fine)
    BY <1>0, <1>3, RoundedRounds
  <1>4. CASE held = {}
    <2> DEFINE lot == Long(t, q, Rounded(cost, Fine))
    <2>1. lot \in Position /\ lot.ticker = t /\ lot.dir = "LONG" /\ lot.qty = q
          /\ Rounds(lot.basis, cost, Fine)
      <3>1. Rounded(cost, Fine) \in Nat /\ Rounds(Rounded(cost, Fine), cost, Fine)
        BY <1>0, <1>1, RoundedRounds
      <3> QED BY <1>1, <3>1 DEF Long, Position, Directions
    <2>2. Purchase(a, i, t, q).positions = positions[a] \union {lot}
      BY <1>3, <1>4
    <2> HIDE DEF lot
    <2>3. Buys(a, t, q, cost, Purchase(a, i, t, q))
      BY <1>3, <1>4, <1>6, <2>1, <2>2 DEF Buys, held
    <2> QED BY <2>3 DEF cost
  <1>5. CASE held # {}
    <2>1. PICK p \in held : TRUE
      BY <1>5
    <2>2. held = {p} /\ p \in Position
      BY <1>2, <2>1 DEF OneSide
    <2> DEFINE lot == Long(t, p.qty + q, Rounded(p.basis * Fine + cost, Fine))
    <2>3. lot \in Position /\ lot.ticker = t /\ lot.dir = "LONG" /\ lot.qty = p.qty + q
          /\ Rounds(lot.basis, p.basis * Fine + cost, Fine)
      <3>1. p.basis \in Nat /\ p.qty \in Nat \ {0}
        BY <2>2 DEF Position
      <3>2. p.basis * Fine + cost \in Nat
        BY <1>0, <1>1, <3>1
      <3> DEFINE basis == Rounded(p.basis * Fine + cost, Fine)
      <3>3. basis \in Nat /\ Rounds(basis, p.basis * Fine + cost, Fine)
        BY <1>0, <3>2, RoundedRounds
      <3> HIDE DEF basis
      <3>4. Long(t, p.qty + q, basis) \in Position
        BY <1>1, <3>1, <3>3 DEF Long, Position, Directions
      <3>5. /\ Long(t, p.qty + q, basis).ticker = t /\ Long(t, p.qty + q, basis).dir = "LONG"
            /\ Long(t, p.qty + q, basis).qty = p.qty + q /\ Long(t, p.qty + q, basis).basis = basis
        BY DEF Long
      <3> QED BY <3>3, <3>4, <3>5 DEF basis
    <2>4. {Long(t, x.qty + q, Rounded(x.basis * Fine + cost, Fine)) : x \in held} = {lot}
      BY <2>2
    <2> HIDE DEF lot
    <2>5. Purchase(a, i, t, q).positions = (positions[a] \ {p}) \union {lot}
      BY <1>3, <1>5, <2>2, <2>4
    <2>6. Buys(a, t, q, cost, Purchase(a, i, t, q))
      BY <1>3, <1>5, <1>6, <2>1, <2>2, <2>3, <2>5 DEF Buys, held
    <2> QED BY <2>6 DEF cost
  <1> QED BY <1>4, <1>5

LEMMA ExitSells ==
  ASSUME TypeOK, NEW a \in DOMAIN accounts, NEW i \in DOMAIN plans, NEW t \in DOMAIN rows[i],
         NEW q \in Quantities, Close(i, t) # None, \E p \in Held(a, t) : q <= p.qty
  PROVE  Sells(a, t, q, q * Close(i, t), Exit(a, i, t, q))
  <1> DEFINE held == CHOOSE p \in Held(a, t) : TRUE
             proceeds == q * Close(i, t)
             share == held.basis * q
             left == Rounded(held.basis * held.qty - share, held.qty)
             lot == Long(t, held.qty - q, left)
             fill == Exit(a, i, t, q)
  <1>1. q \in Nat \ {0} /\ t \in Tickers /\ proceeds \in Nat
        /\ accounts[a].cash \in Nat /\ Fine \in Nat \ {0}
    <2>1. accounts[a].cash \in Nat
      BY DEF TypeOK, Account
    <2> QED BY <2>1, CloseType, InputAssumption
  <1>2. positions[a] \in SUBSET Position /\ OneSide(positions[a]) /\ Held(a, t) \subseteq positions[a]
        /\ \A p \in positions[a] : p \in Held(a, t) <=> p.ticker = t /\ p.dir = "LONG"
    BY DEF TypeOK, Held
  <1>3. held \in Held(a, t) /\ held \in Position /\ q <= held.qty
    <2>1. PICK p \in Held(a, t) : q <= p.qty
      OBVIOUS
    <2>2. held \in Held(a, t)
      BY <2>1
    <2> HIDE DEF held
    <2>3. held = p
      BY <1>2, <2>1, <2>2 DEF OneSide
    <2> QED BY <1>2, <2>1, <2>2, <2>3
  <1>4. held.basis \in Nat /\ held.qty \in Nat \ {0}
    BY <1>3 DEF Position
  <1>5. /\ fill.kind = (IF q = held.qty THEN "CLOSE" ELSE "DECREASE")
        /\ fill.positions = (positions[a] \ {held}) \union (IF q = held.qty THEN {} ELSE {lot})
        /\ fill.cash = Rounded(accounts[a].cash * Fine + proceeds, Fine)
        /\ fill.released = Rounded(share, held.qty)
        /\ fill.realized = Rounded(proceeds * held.qty - share * Fine, held.qty * Fine)
    BY DEF Exit
  <1> HIDE DEF held, proceeds, fill
  <1>6. share \in Nat /\ held.basis * held.qty - share \in Nat
        /\ held.basis * held.qty - share = held.basis * held.qty + (0 - share)
    BY <1>1, <1>3, <1>4
  <1>7. /\ left \in Nat /\ Rounds(left, held.basis * held.qty + (0 - share), held.qty)
        /\ q = held.qty => Rounds(0, held.basis * held.qty + (0 - share), held.qty)
    <2>1. left \in Nat /\ Rounds(left, held.basis * held.qty + (0 - share), held.qty)
      BY <1>4, <1>6, RoundedRounds
    <2>2. q = held.qty => held.basis * held.qty + (0 - share) = 0
      BY <1>4
    <2> QED BY <1>4, <2>1, <2>2 DEF Rounds
  <1> HIDE DEF share, left
  <1>8. /\ Rounds(fill.released, share, held.qty)
        /\ Rounds(fill.realized, proceeds * held.qty - share * Fine, held.qty * Fine)
        /\ Rounds(fill.cash, accounts[a].cash * Fine + proceeds, Fine)
    <2>1. held.qty * Fine \in Nat \ {0} /\ proceeds * held.qty - share * Fine \in Int
          /\ accounts[a].cash * Fine + proceeds \in Int /\ share \in Int
      BY <1>1, <1>4, <1>6
    <2> QED BY <1>1, <1>4, <1>5, <2>1, RoundedRounds
  <1>9. Sells(a, t, q, proceeds, fill)
    <2>1. CASE q = held.qty
      <3>1. fill.positions = positions[a] \ {held} /\ fill.kind = "CLOSE"
        BY <1>5, <2>1
      <3>2. SellsOf(held, 0, q, proceeds, fill)
        BY <1>7, <1>8, <2>1 DEF SellsOf, share
      <3> QED BY <1>3, <1>8, <3>1, <3>2 DEF Sells
    <2>2. CASE q # held.qty
      <3>1. lot \in Position /\ lot.ticker = t /\ lot.dir = "LONG" /\ lot.basis = left
        <4>1. held.qty - q \in Nat \ {0}
          BY <1>1, <1>3, <1>4, <2>2
        <4> QED BY <1>1, <1>7, <4>1 DEF Long, Position, Directions
      <3> HIDE DEF lot
      <3>2. fill.positions = (positions[a] \ {held}) \union {lot} /\ fill.kind = "DECREASE"
        BY <1>5, <2>2
      <3>3. SellsOf(held, left, q, proceeds, fill)
        BY <1>7, <1>8 DEF SellsOf, share
      <3> QED BY <1>3, <1>7, <1>8, <3>1, <3>2, <3>3 DEF Sells
    <2> QED BY <2>1, <2>2
  <1> QED BY <1>9 DEF proceeds, fill

(* Replacing a position, and adding one.                                    *)
LEMMA BasisMoves ==
  ASSUME NEW S, IsFiniteSet(S), NEW lot, lot \notin S, \A x \in S \union {lot} : x.basis \in Int
  PROVE  Basis(S \union {lot}) = Basis(S) + lot.basis /\ Basis(S) \in Int
  <1>1. IsFiniteSet(S \union {lot}) /\ (S \union {lot}) \ {lot} = S
    BY FS_AddElement
  <1>2. /\ Basis((S \union {lot}) \ {lot}) \in Int
        /\ Basis(S \union {lot}) = lot.basis + Basis((S \union {lot}) \ {lot})
    BY <1>1, BasisRemoves
  <1>3. Basis((S \union {lot}) \ {lot}) = Basis(S)
    BY <1>1
  <1>4. lot.basis \in Int
    OBVIOUS
  <1> QED BY <1>2, <1>3, <1>4

LEMMA ValueMoves ==
  ASSUME NEW S, IsFiniteSet(S), NEW v, v \notin S, \A x \in S \union {v} : x.qty * x.price \in Int
  PROVE  Value(S \union {v}) = Value(S) + v.qty * v.price /\ Value(S) \in Int
  <1>1. IsFiniteSet(S \union {v}) /\ (S \union {v}) \ {v} = S
    BY FS_AddElement
  <1>2. /\ Value((S \union {v}) \ {v}) \in Int
        /\ Value(S \union {v}) = v.qty * v.price + Value((S \union {v}) \ {v})
    BY <1>1, ValueRemoves
  <1>3. Value((S \union {v}) \ {v}) = Value(S)
    BY <1>1
  <1>4. v.qty * v.price \in Int
    OBVIOUS
  <1> QED BY <1>2, <1>3, <1>4

(* An account holds finitely many positions.                                *)
HoldingsAreFinite == \A a \in Accounts : IsFiniteSet(positions[a])
MoneyInv == IInv /\ HoldingsAreFinite

(* What an accepted action leaves of the holdings.                          *)
Booking(a, i, t, q) ==
  /\ Recordable(a, i, t, q) /\ Covered(a, i, t, q)
  /\ \E x : /\ actions' = actions \union {x} /\ x.account = a /\ x.plan = i /\ x.ticker = t
            /\ x.kind = Fill(a, i, t, q).kind
            /\ x.released = Fill(a, i, t, q).released /\ x.realized = Fill(a, i, t, q).realized
  /\ accounts'[a].cash = Fill(a, i, t, q).cash /\ accounts'[a].starting = accounts[a].starting
  /\ positions' = [positions EXCEPT ![a] = Fill(a, i, t, q).positions]

LEMMA RecordBooks ==
  ASSUME TypeOK, NEW a \in DOMAIN accounts, NEW i \in DOMAIN plans, NEW t \in DOMAIN rows[i],
         NEW q \in Quantities, NEW v, NEW k, RecordAction(a, i, t, q, v, k)
  PROVE  Booking(a, i, t, q)
  <1> DEFINE fill == Fill(a, i, t, q)
             x == [key |-> k, account |-> a, plan |-> i, ticker |-> t, kind |-> fill.kind,
                   qty |-> q, before |-> v, after |-> v + 1, released |-> fill.released,
                   realized |-> fill.realized]
  <1>1. /\ Recordable(a, i, t, q) /\ Covered(a, i, t, q)
        /\ positions' = [positions EXCEPT ![a] = fill.positions]
        /\ accounts' = [accounts EXCEPT ![a].cash = fill.cash, ![a].version = @ + 1]
        /\ actions' = actions \union {x}
    BY DEF RecordAction, BookFill
  <1>2. x.account = a /\ x.plan = i /\ x.ticker = t /\ x.kind = fill.kind
        /\ x.released = fill.released /\ x.realized = fill.realized
    OBVIOUS
  <1> HIDE DEF x, fill
  <1>3. accounts \in [DOMAIN accounts -> Account] /\ accounts[a] \in Account
    BY DEF TypeOK
  <1>4. accounts'[a].cash = fill.cash /\ accounts'[a].starting = accounts[a].starting
    <2> DEFINE old == accounts[a]
               paid == [old EXCEPT !.cash = fill.cash]
               moved == [paid EXCEPT !.version = @ + 1]
    <2>1. accounts'[a] = moved
      BY <1>1, <1>3
    <2>2. paid = [version |-> old.version, cash |-> fill.cash,
                  starting |-> old.starting, request |-> old.request]
      BY <1>3 DEF Account
    <2> HIDE DEF paid
    <2>3. moved.cash = fill.cash /\ moved.starting = old.starting
      BY <2>2
    <2> QED BY <2>1, <2>3
  <1> QED BY <1>1, <1>2, <1>4 DEF Booking, fill

(* The positions after a step that books an action.                         *)
LEMMA BookingHolds ==
  ASSUME MoneyInv, NEW a \in DOMAIN accounts, NEW i \in DOMAIN plans, NEW t \in DOMAIN rows[i],
         NEW q \in Quantities, Booking(a, i, t, q)
  PROVE  /\ a \in Accounts /\ Close(i, t) \in Nat \ {0} /\ q \in Nat \ {0}
         /\ positions'[a] = Fill(a, i, t, q).positions
         /\ positions[a] \subseteq Position /\ OneSide(positions[a]) /\ IsFiniteSet(positions[a])
         /\ Buys(a, t, q, q * Close(i, t), Fill(a, i, t, q)) \/ Sells(a, t, q, q * Close(i, t), Fill(a, i, t, q))
         /\ accounts[a] \in Account
  <1>1. Recordable(a, i, t, q) /\ Covered(a, i, t, q) /\ Close(i, t) # None
        /\ positions' = [positions EXCEPT ![a] = Fill(a, i, t, q).positions]
    BY DEF Booking, Recordable
  <1>2. TypeOK /\ HoldingsAreFinite
    BY DEF MoneyInv, IInv
  <1>3. a \in Accounts /\ positions[a] \subseteq Position /\ OneSide(positions[a])
        /\ positions \in [Accounts -> SUBSET Position] /\ accounts[a] \in Account
    BY <1>2 DEF TypeOK
  <1>4. Close(i, t) \in Nat \ {0} /\ q \in Nat \ {0}
    BY <1>1, <1>2, CloseType, InputAssumption
  <1>5. positions'[a] = Fill(a, i, t, q).positions
    BY <1>1, <1>3
  <1>6. Buys(a, t, q, q * Close(i, t), Fill(a, i, t, q)) \/ Sells(a, t, q, q * Close(i, t), Fill(a, i, t, q))
    BY <1>1, <1>2, PurchaseBuys, ExitSells DEF Covered, Fill
  <1> QED BY <1>2, <1>3, <1>4, <1>5, <1>6 DEF HoldingsAreFinite

(* One position replaced by another of the same ticker and side.            *)
LEMMA BasisReplaces ==
  ASSUME NEW S, S \subseteq Position, OneSide(S), IsFiniteSet(S), NEW p \in S,
         NEW lot \in Position, lot.ticker = p.ticker, lot.dir = p.dir
  PROVE  /\ IsFiniteSet((S \ {p}) \union {lot}) /\ IsFiniteSet(S \ {p})
         /\ Basis(S) \in Int /\ Basis(S \ {p}) = Basis(S) - p.basis
         /\ Basis((S \ {p}) \union {lot}) = Basis(S) - p.basis + lot.basis
  <1>1. lot \notin S \ {p} /\ \A x \in S \union {lot} : x.basis \in Int
    BY DEF OneSide, Position
  <1>2. IsFiniteSet(S \ {p})
    BY FS_RemoveElement
  <1> DEFINE rest == S \ {p}
  <1>3. Basis(S) \in Int /\ Basis(rest) \in Int /\ Basis(S) = p.basis + Basis(rest)
    BY <1>1, BasisRemoves
  <1>4. lot \notin rest /\ IsFiniteSet(rest) /\ \A x \in rest \union {lot} : x.basis \in Int
    BY <1>1, <1>2
  <1>5. p.basis \in Int /\ lot.basis \in Int
    BY <1>1
  <1> HIDE DEF rest
  <1>6. Basis(rest \union {lot}) = Basis(rest) + lot.basis /\ IsFiniteSet(rest \union {lot})
    BY <1>4, BasisMoves, FS_AddElement
  <1>7. Basis(rest) = Basis(S) - p.basis
        /\ Basis(rest \union {lot}) = Basis(S) - p.basis + lot.basis
    BY <1>3, <1>5, <1>6
  <1> QED BY <1>3, <1>4, <1>6, <1>7 DEF rest

(* What the action x of account a may do to its money. *)
Conserves(a, x) ==
  LET earned == accounts'[a].cash - accounts[a].cash
      shed == Basis(positions[a]) - Basis(positions'[a])
  IN /\ Near(earned - shed, x.realized)
     /\ x.kind \in {"CLOSE", "DECREASE"} => Near(shed, x.released)

LEMMA BookingConserves ==
  ASSUME MoneyInv, NEW a \in DOMAIN accounts, NEW i \in DOMAIN plans, NEW t \in DOMAIN rows[i],
         NEW q \in Quantities, Booking(a, i, t, q)
  PROVE  /\ IsFiniteSet(positions'[a])
         /\ \A x \in actions' \ actions :
              x.account = a /\ Conserves(a, x)
  <1> DEFINE S == positions[a]
             T == positions'[a]
             fill == Fill(a, i, t, q)
             cost == q * Close(i, t)
  <1>1. /\ Close(i, t) \in Nat \ {0} /\ q \in Nat \ {0} /\ T = fill.positions
        /\ S \subseteq Position /\ OneSide(S) /\ IsFiniteSet(S)
        /\ Buys(a, t, q, cost, fill) \/ Sells(a, t, q, cost, fill)
        /\ accounts[a] \in Account
    BY BookingHolds
  <1>2. cost \in Nat
    BY <1>1
  <1>3. /\ Held(a, t) \subseteq S
        /\ \A p \in Held(a, t) : p \in S /\ p.ticker = t /\ p.dir = "LONG" /\ p.basis \in Nat
        /\ \A p \in S : p.ticker = t /\ p.dir = "LONG" => p \in Held(a, t)
    BY <1>1 DEF Held, Position
  <1>4. accounts[a].cash \in Nat /\ \A p \in Position : p.basis \in Nat
    BY <1>1 DEF Account, Position
  <1>5. PICK x : /\ actions' = actions \union {x} /\ x.account = a /\ x.kind = fill.kind
                 /\ x.released = fill.released /\ x.realized = fill.realized
    BY DEF Booking
  <1>6. accounts'[a].cash = fill.cash /\ Fine \in Nat \ {0}
    BY InputAssumption DEF Booking
  <1> HIDE DEF S, T, fill, cost
  <1>7. CASE Buys(a, t, q, cost, fill)
    <2>1. PICK lot \in Position :
            /\ lot.ticker = t /\ lot.dir = "LONG"
            /\ \/ /\ Held(a, t) = {} /\ fill.kind = "OPEN" /\ Rounds(lot.basis, cost, Fine)
                  /\ fill.positions = S \union {lot}
               \/ \E p \in Held(a, t) :
                    /\ fill.kind = "INCREASE" /\ Rounds(lot.basis, p.basis * Fine + cost, Fine)
                    /\ fill.positions = (S \ {p}) \union {lot}
      BY <1>7 DEF Buys, S
    <2>2. Rounds(fill.cash, accounts[a].cash * Fine + (0 - cost), Fine) /\ x.realized = 0
          /\ fill.kind \in {"OPEN", "INCREASE"}
      BY <1>5, <1>7 DEF Buys
    <2>3. \E put \in Int : /\ Rounds(put, cost, Fine) /\ IsFiniteSet(T)
                           /\ Basis(S) \in Int /\ Basis(T) = Basis(S) + put
      <3>1. CASE Held(a, t) = {} /\ Rounds(lot.basis, cost, Fine) /\ fill.positions = S \union {lot}
        <4>1. lot \notin S
          BY <1>3, <2>1, <3>1
        <4>2. \A y \in S \union {lot} : y.basis \in Int
          BY <1>1, <1>4
        <4>3. Basis(S \union {lot}) = Basis(S) + lot.basis /\ Basis(S) \in Int
              /\ IsFiniteSet(S \union {lot})
          BY <1>1, <4>1, <4>2, BasisMoves, FS_AddElement
        <4> QED BY <1>1, <3>1, <4>2, <4>3
      <3>2. ASSUME NEW p \in Held(a, t), Rounds(lot.basis, p.basis * Fine + cost, Fine),
                   fill.positions = (S \ {p}) \union {lot}
            PROVE  /\ Rounds(lot.basis - p.basis, cost, Fine) /\ IsFiniteSet(T)
                   /\ Basis(S) \in Int /\ Basis(T) = Basis(S) + (lot.basis - p.basis)
        <4>1. lot.ticker = p.ticker /\ lot.dir = p.dir /\ p \in S /\ p.basis \in Nat
              /\ lot.basis \in Nat
          BY <1>3, <1>4, <2>1
        <4>2. /\ IsFiniteSet((S \ {p}) \union {lot}) /\ Basis(S) \in Int
              /\ Basis((S \ {p}) \union {lot}) = Basis(S) - p.basis + lot.basis
          BY <1>1, <4>1, BasisReplaces
        <4>3. Basis(T) = Basis(S) - p.basis + lot.basis
          BY <1>1, <3>2, <4>2
        <4>4. Rounds(lot.basis - p.basis, cost, Fine)
          BY <1>2, <1>6, <3>2, <4>1, RoundsShifts
        <4> QED BY <1>1, <3>2, <4>1, <4>2, <4>3, <4>4
      <3>3. CASE \E p \in Held(a, t) : /\ Rounds(lot.basis, p.basis * Fine + cost, Fine)
                                       /\ fill.positions = (S \ {p}) \union {lot}
        <4>1. PICK p \in Held(a, t) : /\ Rounds(lot.basis, p.basis * Fine + cost, Fine)
                                      /\ fill.positions = (S \ {p}) \union {lot}
          BY <3>3
        <4>2. lot.basis - p.basis \in Int
          BY <1>3, <1>4
        <4> QED BY <3>2, <4>1, <4>2
      <3> QED BY <2>1, <3>1, <3>3
    <2>4. PICK put \in Int : /\ Rounds(put, cost, Fine) /\ IsFiniteSet(T)
                            /\ Basis(S) \in Int /\ Basis(T) = Basis(S) + put
      BY <2>3
    <2>5. Rounds(fill.cash - accounts[a].cash, 0 - cost, Fine)
      BY <1>2, <1>4, <1>6, <2>2, RoundsShifts
    <2>6. Rounds(0 - put, 0 - cost, Fine) /\ Rounds(0, (0 - cost) - (0 - cost), Fine)
      <3>1. Rounds(0 - put, 0 - cost, Fine)
        BY <1>2, <1>6, <2>4, RoundsTurns
      <3>2. (0 - cost) - (0 - cost) = 0
        BY <1>2
      <3> QED BY <1>6, <3>1, <3>2 DEF Rounds
    <2>7. Near((fill.cash - accounts[a].cash) - (0 - put), 0)
      BY <1>2, <1>6, <2>5, <2>6, RoundsBalance
    <2>8. Basis(S) - Basis(T) = 0 - put
      BY <2>4
    <2>9. Conserves(a, x)
      BY <1>5, <1>6, <2>2, <2>7, <2>8 DEF Conserves, S, T
    <2> QED BY <1>5, <2>4, <2>9 DEF S, T
  <1>8. CASE Sells(a, t, q, cost, fill)
    <2>1. PICK p \in Held(a, t), left \in Nat :
            /\ SellsOf(p, left, q, cost, fill)
            /\ \/ left = 0 /\ fill.positions = S \ {p}
               \/ \E lot \in Position :
                    /\ lot.ticker = t /\ lot.dir = "LONG" /\ lot.basis = left
                    /\ fill.positions = (S \ {p}) \union {lot}
      BY <1>8 DEF Sells, S
    <2>2. Rounds(fill.cash, accounts[a].cash * Fine + cost, Fine)
      BY <1>8 DEF Sells
    <2>3. p \in S /\ p.ticker = t /\ p.dir = "LONG" /\ p.basis \in Nat /\ p \in Position
          /\ p.qty \in Nat \ {0}
      BY <1>1, <1>3 DEF Position
    <2>4. /\ IsFiniteSet(S \ {p}) /\ Basis(S) \in Int /\ Basis(S \ {p}) = Basis(S) - p.basis
      BY <1>1, <2>3, BasisReplaces
    <2>5. IsFiniteSet(T) /\ Basis(T) = Basis(S) - p.basis + left
      <3>1. ASSUME NEW lot \in Position, lot.ticker = t, lot.dir = "LONG",
                   lot.basis = left, fill.positions = (S \ {p}) \union {lot}
            PROVE  IsFiniteSet(T) /\ Basis(T) = Basis(S) - p.basis + left
        <4>1. lot.ticker = p.ticker /\ lot.dir = p.dir
          BY <2>3, <3>1
        <4>2. /\ IsFiniteSet((S \ {p}) \union {lot})
              /\ Basis((S \ {p}) \union {lot}) = Basis(S) - p.basis + lot.basis
          BY <1>1, <2>3, <4>1, BasisReplaces
        <4> QED BY <1>1, <3>1, <4>2
      <3>2. CASE left = 0 /\ fill.positions = S \ {p}
        BY <1>1, <2>3, <2>4, <3>2
      <3> QED BY <2>1, <3>1, <3>2
    <2> DEFINE b == p.basis
               h == p.qty
               share == b * q
               earned == fill.cash - accounts[a].cash
               shed == b - left
    <2>6. /\ b \in Nat /\ h \in Nat \ {0} /\ share \in Nat /\ shed \in Int
          /\ shed = 0 - (left - b) /\ share = 0 - (0 - share)
      BY <1>1, <2>3
    <2>7. /\ Rounds(left, b * h + (0 - share), h) /\ Rounds(fill.released, share, h)
          /\ Rounds(fill.realized, cost * h - share * Fine, h * Fine)
      BY <2>1 DEF SellsOf
    <2>8. Basis(S) - Basis(T) = shed
      BY <2>3, <2>4, <2>5
    <2> HIDE DEF b, h, share
    <2>9. Rounds(earned, cost, Fine)
      BY <1>2, <1>4, <1>6, <2>2, RoundsShifts
    <2>10. Rounds(shed, share, h)
      <3>1. Rounds(left - b, 0 - share, h)
        <4>1. (left - b) * h = left * h - b * h /\ left * h \in Int /\ b * h \in Int
          BY <2>6
        <4> QED BY <2>6, <2>7, <4>1 DEF Rounds
      <3>2. Rounds(0 - (left - b), 0 - (0 - share), h)
        BY <2>6, <3>1, RoundsTurns
      <3> QED BY <2>6, <3>2
    <2> HIDE DEF earned, shed
    <2>11. Near(earned - shed, fill.realized)
      <3>1. Rounds(earned, cost * h, Fine * h) /\ cost * h \in Int
        BY <1>2, <1>6, <2>6, <2>9, RoundsScales
      <3>2. Rounds(shed, share * Fine, h * Fine) /\ share * Fine \in Int /\ h * Fine \in Nat \ {0}
        BY <1>6, <2>6, <2>10, RoundsScales
      <3>3. Fine * h = h * Fine
        BY <1>6, <2>6
      <3>4. Rounds(earned, cost * h, h * Fine)
        BY <3>1, <3>3
      <3> QED BY <2>7, <3>1, <3>2, <3>4, RoundsBalance
    <2>12. Near(shed, fill.released)
      <3>1. Rounds(0, share - share, h)
        BY <2>6 DEF Rounds
      <3>2. Near(shed - fill.released, 0)
        BY <2>6, <2>7, <2>10, <3>1, RoundsBalance
      <3>3. fill.released \in Int /\ shed \in Int
        BY <2>6, <2>7 DEF Rounds
      <3> QED BY <3>2, <3>3 DEF Near
    <2>13. Conserves(a, x)
      BY <1>5, <1>6, <2>8, <2>11, <2>12 DEF Conserves, S, T, earned
    <2> QED BY <1>5, <2>5, <2>13 DEF S, T
  <1> QED BY <1>1, <1>7, <1>8

(* The holdings of one ticker among the valued ones.                        *)
LEMMA ValuedWithout ==
  ASSUME NEW i, NEW t, NEW S, IsFiniteSet(S), \A x \in S : x.ticker # t
  PROVE  IsFiniteSet(Valued(S, i)) /\ Of(t, Valued(S, i)) = {} /\ Value(Of(t, Valued(S, i))) = 0
  <1> DEFINE f == [p \in S |-> [ticker |-> p.ticker, qty |-> p.qty, price |-> Close(i, p.ticker)]]
  <1>1. Valued(S, i) = {f[p] : p \in S}
    BY DEF Valued
  <1> HIDE DEF f
  <1>2. IsFiniteSet(Valued(S, i))
    BY <1>1, ImageIsFinite
  <1>3. Of(t, Valued(S, i)) = {}
    BY DEF Of, Valued
  <1> QED BY <1>2, <1>3, ValueOfNone

LEMMA ValuedWith ==
  ASSUME NEW i, NEW t, NEW S, S \subseteq Position, IsFiniteSet(S), \A x \in S : x.ticker # t,
         \A x \in S : Close(i, x.ticker) \in Nat, Close(i, t) \in Nat,
         NEW lot \in Position, lot.ticker = t
  PROVE  /\ Value(Valued(S, i)) \in Int
         /\ Value(Valued(S \union {lot}, i)) = Value(Valued(S, i)) + lot.qty * Close(i, t)
         /\ Value(Of(t, Valued(S \union {lot}, i))) = lot.qty * Close(i, t)
  <1> DEFINE v == [ticker |-> t, qty |-> lot.qty, price |-> Close(i, t)]
             V == Valued(S, i)
  <1>1. Valued(S \union {lot}, i) = V \union {v}
    BY DEF Valued
  <1>2. IsFiniteSet(V) /\ Of(t, V) = {} /\ \A x \in V : x.ticker # t
    <2>1. \A x \in V : x.ticker # t
      BY DEF Valued
    <2> QED BY <2>1, ValuedWithout
  <1>3. v.ticker = t /\ v.qty = lot.qty /\ v.price = Close(i, t) /\ v.qty * v.price \in Int
    BY DEF Position
  <1>4. \A x \in V : x.qty * x.price \in Int
    BY DEF Valued, Position
  <1> HIDE DEF v, V
  <1>5. v \notin V /\ Of(t, V \union {v}) = {v}
    BY <1>2, <1>3 DEF Of
  <1>6. Value(V \union {v}) = Value(V) + v.qty * v.price /\ Value(V) \in Int
    BY <1>2, <1>3, <1>4, <1>5, ValueMoves
  <1>7. Value({v}) = v.qty * v.price
    <2> DEFINE none == {}
    <2>1. IsFiniteSet(none) /\ v \notin none /\ \A x \in none \union {v} : x.qty * x.price \in Int
      BY <1>3, FS_EmptySet
    <2>2. Value(none \union {v}) = Value({v}) /\ Value(none) = 0
      BY ValueOfNone
    <2> HIDE DEF none
    <2>3. Value(none \union {v}) = Value(none) + v.qty * v.price
      BY <2>1, ValueMoves
    <2> DEFINE worth == v.qty * v.price
    <2>4. worth \in Int
      BY <1>3
    <2>5. Value({v}) = 0 + worth
      BY <2>2, <2>3
    <2> HIDE DEF worth
    <2>6. Value({v}) = worth
      BY <2>4, <2>5
    <2> QED BY <2>6 DEF worth
  <1> QED BY <1>1, <1>3, <1>5, <1>6, <1>7 DEF V

FitsAt(a, i, t) ==
  /\ Value(Valued(positions'[a], i)) <= accounts'[a].starting * Fine
  /\ Value(Of(t, Valued(positions'[a], i))) <= PurchaseCap * Fine

LEMMA BookingFits ==
  ASSUME MoneyInv, NEW a \in DOMAIN accounts, NEW i \in DOMAIN plans, NEW t \in DOMAIN rows[i],
         NEW q \in Quantities, Booking(a, i, t, q)
  PROVE  \A x \in actions' \ actions :
           /\ x.account = a /\ x.plan = i /\ x.ticker = t
           /\ x.kind \in {"OPEN", "INCREASE"} => FitsAt(a, i, t)
  <1> DEFINE S == positions[a]
             T == positions'[a]
             rest == S \ Held(a, t)
             fill == Fill(a, i, t, q)
             c == Close(i, t)
             cost == q * c
             start == accounts[a].starting * Fine
             cap == PurchaseCap * Fine
  <1>1. /\ c \in Nat \ {0} /\ q \in Nat \ {0} /\ T = fill.positions
        /\ S \subseteq Position /\ OneSide(S) /\ IsFiniteSet(S)
        /\ Buys(a, t, q, cost, fill) \/ Sells(a, t, q, cost, fill)
        /\ accounts[a] \in Account
    BY BookingHolds
  <1>2. cost \in Nat /\ start \in Nat /\ cap \in Nat
    <2>1. accounts[a].starting \in Nat /\ PurchaseCap \in Nat /\ Fine \in Nat
      BY <1>1, InputAssumption DEF Account
    <2> QED BY <1>1, <2>1
  <1>3. PICK y : actions' = actions \union {y} /\ y.account = a /\ y.plan = i /\ y.ticker = t
                 /\ y.kind = fill.kind
    BY DEF Booking
  <1>4. accounts'[a].starting * Fine = start
    BY DEF Booking
  <1>5. ASSUME fill.kind \in {"OPEN", "INCREASE"} PROVE FitsAt(a, i, t)
    <2>1. Buys(a, t, q, cost, fill)
      BY <1>1, <1>5 DEF Sells
    <2>2. Fits(a, i, t, cost)
      <3>1. rows[i][t].proposal.action = "BUY"
        <4>1. rows[i][t].proposal.action # "BUY" => fill = Exit(a, i, t, q)
          BY DEF Fill
        <4>2. Exit(a, i, t, q).kind \notin {"OPEN", "INCREASE"}
          BY DEF Exit
        <4> QED BY <1>5, <4>1, <4>2
      <3> QED BY <3>1 DEF Booking, Covered
    <2>3. \A p \in S : p.dir = "LONG" /\ Close(i, p.ticker) \in Nat
      <3>1. Priceable(a, i) /\ TypeOK
        BY DEF Booking, Recordable, MoneyInv, IInv
      <3>2. \A p \in S : p.dir = "LONG" /\ Close(i, p.ticker) # None
        BY <3>1 DEF Priceable
      <3>3. \A p \in S : Close(i, p.ticker) \in Nat
        <4> SUFFICES ASSUME NEW p \in S PROVE Close(i, p.ticker) \in Nat
          OBVIOUS
        <4>1. p.ticker \in DOMAIN rows[i]
          BY <3>2 DEF Close
        <4> QED BY <3>1, <3>2, <4>1, CloseType
      <3> QED BY <3>2, <3>3
    <2>4. /\ \A p \in S : p.ticker = t => p \in Held(a, t)
          /\ Held(a, t) \subseteq S /\ \A p \in Held(a, t) : p.ticker = t
          /\ rest \subseteq Position /\ \A p \in rest : p.ticker # t /\ Close(i, p.ticker) \in Nat
      BY <1>1, <2>3 DEF Held
    <2>5. IsFiniteSet(rest)
      BY <1>1, <2>4, FS_Subset
    <2>6. /\ Value(Valued(S, i)) + cost <= start
          /\ Value(Of(t, Valued(S, i))) + cost <= cap
      BY <2>2 DEF Fits
    <2>7. PICK lot \in Position :
            /\ lot.ticker = t
            /\ \/ Held(a, t) = {} /\ lot.qty = q /\ T = S \union {lot}
               \/ \E p \in Held(a, t) :
                    Held(a, t) = {p} /\ lot.qty = p.qty + q /\ T = (S \ {p}) \union {lot}
      BY <1>1, <2>1 DEF Buys
    <2> DEFINE vr == Value(Valued(rest, i))
               worth == lot.qty * c
    <2>8. /\ vr \in Int /\ Value(Valued(rest \union {lot}, i)) = vr + worth
          /\ Value(Of(t, Valued(rest \union {lot}, i))) = worth
      <3>1. /\ rest \subseteq Position /\ IsFiniteSet(rest) /\ \A x \in rest : x.ticker # t
            /\ \A x \in rest : Close(i, x.ticker) \in Nat
            /\ Close(i, t) \in Nat /\ lot \in Position /\ lot.ticker = t
        BY <1>1, <2>4, <2>5, <2>7
      <3> HIDE DEF rest
      <3> QED BY <3>1, ValuedWith
    <2>9. T = rest \union {lot}
      BY <2>7
    <2>10. vr + worth <= start /\ worth <= cap
      <3>1. CASE Held(a, t) = {} /\ lot.qty = q
        <4>1. rest = S
          BY <3>1
        <4>2. Value(Of(t, Valued(S, i))) = 0
          BY <2>4, <2>5, <4>1, ValuedWithout
        <4> HIDE DEF rest
        <4>3. worth = cost /\ vr = Value(Valued(S, i))
          BY <3>1, <4>1
        <4> HIDE DEF worth, vr, cost, start, cap
        <4> QED BY <1>2, <2>6, <4>2, <4>3
      <3>2. ASSUME NEW p \in Held(a, t), Held(a, t) = {p}, lot.qty = p.qty + q
            PROVE  vr + worth <= start /\ worth <= cap
        <4>1. S = rest \union {p} /\ p \in Position /\ p.ticker = t
          BY <1>1, <2>4, <3>2
        <4> DEFINE before == p.qty * c
        <4>2. /\ Value(Valued(rest \union {p}, i)) = vr + before
              /\ Value(Of(t, Valued(rest \union {p}, i))) = before
          <5>1. /\ rest \subseteq Position /\ IsFiniteSet(rest) /\ \A x \in rest : x.ticker # t
                /\ \A x \in rest : Close(i, x.ticker) \in Nat
                /\ Close(i, t) \in Nat /\ p \in Position /\ p.ticker = t
            BY <1>1, <2>4, <2>5, <4>1
          <5> HIDE DEF rest
          <5> QED BY <5>1, ValuedWith
        <4>3. Value(Valued(S, i)) = vr + before /\ Value(Of(t, Valued(S, i))) = before
          BY <4>1, <4>2
        <4>4. worth = before + cost /\ before \in Int
          <5>1. p.qty \in Nat
            BY <4>1 DEF Position
          <5> QED BY <1>1, <3>2, <5>1
        <4> HIDE DEF before, worth, vr, cost, start, cap
        <4> QED BY <1>2, <2>6, <2>8, <4>3, <4>4
      <3> QED BY <2>7, <3>1, <3>2
    <2> HIDE DEF vr, worth, rest
    <2> QED BY <1>4, <2>8, <2>9, <2>10 DEF FitsAt
  <1> QED BY <1>3, <1>5

(* Only an accepted action adds to paper_actions.                           *)
SomeBooking ==
  \E a \in DOMAIN accounts, i \in DOMAIN plans, q \in Quantities : \E t \in DOMAIN rows[i] :
    Booking(a, i, t, q)

LEMMA StepBooks ==
  ASSUME MoneyInv, [Next]_vars
  PROVE  MoneyInv' /\ (UNCHANGED actions \/ SomeBooking)
  <1>1. IInv'
    BY NextIInv DEF MoneyInv
  <1>2. IInv /\ TypeOK /\ HoldingsAreFinite
    BY DEF MoneyInv, IInv
  <1>3. CASE UNCHANGED <<positions, actions>>
    BY <1>1, <1>2, <1>3 DEF MoneyInv, HoldingsAreFinite
  <1>4. CASE Create
    BY <1>3, <1>4 DEF Create, CreatePortfolio
  <1>5. CASE Update
    <2>1. PICK a \in DOMAIN accounts, f \in Forms : \E v \in Seen(a) : UpdateSnapshot(a, v, f)
      BY <1>5 DEF Update
    <2>2. /\ positions'[a] = f.positions /\ \A b \in Accounts \ {a} : positions'[b] = positions[b]
      BY <1>2, <2>1, UpdateEffect
    <2>3. IsFiniteSet(f.positions)
      BY InputAssumption
    <2>4. HoldingsAreFinite'
      BY <1>2, <2>2, <2>3 DEF HoldingsAreFinite
    <2>5. UNCHANGED actions
      BY <2>1 DEF UpdateSnapshot
    <2> QED BY <1>1, <2>4, <2>5 DEF MoneyInv
  <1>6. CASE Begin \/ Save \/ Review \/ UNCHANGED vars
    BY <1>3, <1>6 DEF Begin, BeginSave, Save, SavePlan, Review, SetStatus, vars, book
  <1>7. CASE Record
    <2>1. PICK a \in DOMAIN accounts, i \in DOMAIN plans, q \in Quantities, k \in Keys :
            \E t \in DOMAIN rows[i], v \in Seen(a) : RecordAction(a, i, t, q, v, k)
      BY <1>7 DEF Record
    <2>2. PICK t \in DOMAIN rows[i], v \in Seen(a) : RecordAction(a, i, t, q, v, k)
      BY <2>1
    <2>3. Booking(a, i, t, q)
      BY <1>2, <2>2, RecordBooks
    <2>4. IsFiniteSet(positions'[a])
      BY <2>3, BookingConserves
    <2>5. \A b \in Accounts \ {a} : positions'[b] = positions[b]
      BY <1>2, <2>3 DEF Booking, TypeOK
    <2>6. HoldingsAreFinite'
      BY <1>2, <2>4, <2>5 DEF HoldingsAreFinite
    <2> QED BY <1>1, <2>3, <2>6 DEF MoneyInv, SomeBooking
  <1> QED BY <1>4, <1>5, <1>6, <1>7 DEF Next

LEMMA AlwaysMoneyInv == Spec => []MoneyInv
  <1>1. Init => MoneyInv
    <2> SUFFICES ASSUME Init PROVE MoneyInv
      OBVIOUS
    <2>1. \A a \in Accounts : positions[a] = {}
      BY DEF Init
    <2>2. HoldingsAreFinite
      BY <2>1, FS_EmptySet DEF HoldingsAreFinite
    <2> QED BY <2>2, InitIInv DEF MoneyInv
  <1>2. MoneyInv /\ [Next]_vars => MoneyInv'
    BY StepBooks
  <1> QED BY <1>1, <1>2, PTL DEF Spec

(* A paper action moves money and never makes it: whatever the form had put *)
(* into the account, and although every column is rounded on its own, cash  *)
(* plus cost basis grows by the profit the action reports, and the holdings *)
(* lose the basis it reports, to within one unit of the last decimal.       *)
THEOREM ActionsConserveBasis == Spec => ActionConservesBasis
  <1>1. MoneyInv /\ [Next]_vars =>
          [\A x \in actions' \ actions :
             LET earned == accounts'[x.account].cash - accounts[x.account].cash
                 shed == Basis(positions[x.account]) - Basis(positions'[x.account])
             IN /\ Near(earned - shed, x.realized)
                /\ x.kind \in {"CLOSE", "DECREASE"} => Near(shed, x.released)]_vars
    <2> SUFFICES ASSUME MoneyInv, [Next]_vars, NEW x \in actions' \ actions
                 PROVE  Conserves(x.account, x)
      BY DEF Conserves
    <2>1. PICK a \in DOMAIN accounts, i \in DOMAIN plans, q \in Quantities :
            \E t \in DOMAIN rows[i] : Booking(a, i, t, q)
      BY StepBooks DEF SomeBooking
    <2>2. x.account = a /\ Conserves(a, x)
      BY <2>1, BookingConserves
    <2> QED BY <2>2
  <1> QED BY <1>1, AlwaysMoneyInv, PTL DEF Spec, ActionConservesBasis

(* After a recorded purchase the account fits its starting capital and the  *)
(* per-purchase limit at the closes of the plan, with the shares held       *)
(* before counted.                                                          *)
THEOREM PurchasesFitCapacity == Spec => PurchaseFitsCapacity
  <1>1. MoneyInv /\ [Next]_vars =>
          [\A x \in actions' \ actions : x.kind \in {"OPEN", "INCREASE"} =>
             LET held == Valued(positions'[x.account], x.plan)
             IN /\ Value(held) <= accounts'[x.account].starting * Fine
                /\ Value(Of(x.ticker, held)) <= PurchaseCap * Fine]_vars
    <2> SUFFICES ASSUME MoneyInv, [Next]_vars, NEW x \in actions' \ actions,
                        x.kind \in {"OPEN", "INCREASE"}
                 PROVE  FitsAt(x.account, x.plan, x.ticker)
      BY DEF FitsAt
    <2>1. PICK a \in DOMAIN accounts, i \in DOMAIN plans, q \in Quantities :
            \E t \in DOMAIN rows[i] : Booking(a, i, t, q)
      BY StepBooks DEF SomeBooking
    <2>2. PICK t \in DOMAIN rows[i] : Booking(a, i, t, q)
      BY <2>1
    <2>3. x.account = a /\ x.plan = i /\ x.ticker = t /\ FitsAt(a, i, t)
      BY <2>2, BookingFits
    <2> QED BY <2>3
  <1> QED BY <1>1, AlwaysMoneyInv, PTL DEF Spec, PurchaseFitsCapacity

-----------------------------------------------------------------------------
(* The functions implement PlanOffer.                                       *)

VersionOf == [a \in DOMAIN accounts |-> accounts[a].version]
AnyOf(S) == CHOOSE i \in S : TRUE
OfferOf == [a \in Accounts |->
              IF CurrentPlans(a) = {} THEN None ELSE AnyOf(CurrentPlans(a))]
FilledRows == {<<x.plan, x.ticker>> : x \in actions}

(* The CURRENT plan of an account is its offer. *)
LEMMA OfferIsCurrent ==
  ASSUME CurrentPlanMatchesAccount, NEW a \in Accounts
  PROVE  /\ \A i \in CurrentPlans(a) : OfferOf[a] = i
         /\ CurrentPlans(a) = {} => OfferOf[a] = None
  <1>1. ASSUME NEW i \in CurrentPlans(a) PROVE CurrentPlans(a) = {i}
    BY DEF CurrentPlanMatchesAccount, CurrentPlans, Plans
  <1>2. ASSUME NEW i \in CurrentPlans(a) PROVE OfferOf[a] = i
    <2>1. CurrentPlans(a) = {i}
      BY <1>1
    <2> QED BY <2>1 DEF OfferOf, AnyOf
  <1> QED BY <1>2 DEF OfferOf

LEMMA OfferUnchanged ==
  ASSUME UNCHANGED plans
  PROVE  OfferOf' = OfferOf
  BY DEF OfferOf, CurrentPlans, Plans

(* If the CURRENT plans of the accounts other than a are the same, only the *)
(* offer of a may differ.                                                   *)
LEMMA OfferMoves ==
  ASSUME IInv, IInv', NEW a \in Accounts, NEW o,
         \A b \in Accounts \ {a} : CurrentPlans(b)' = CurrentPlans(b),
         OfferOf'[a] = o
  PROVE  OfferOf' = [OfferOf EXCEPT ![a] = o]
  <1>1. \A b \in Accounts \ {a} : OfferOf'[b] = OfferOf[b]
    BY DEF OfferOf
  <1>2. OfferOf = [b \in Accounts |-> OfferOf[b]] /\ OfferOf' = [b \in Accounts |-> OfferOf'[b]]
    BY DEF OfferOf
  <1> QED BY <1>1, <1>2

LEMMA InitOffers == Init => Offers!Init
  <1> SUFFICES ASSUME Init PROVE Offers!Init
    OBVIOUS
  <1>1. DOMAIN accounts = {} /\ plans = <<>> /\ actions = {} /\ DOMAIN plans = {} /\ Len(plans) = 0
    BY DEF Init
  <1>2. VersionOf = [a \in {} |-> 1]
    BY <1>1 DEF VersionOf
  <1>3. OfferOf = [a \in Accounts |-> None]
    BY <1>1 DEF OfferOf, CurrentPlans, Plans
  <1>4. FilledRows = {}
    BY <1>1 DEF FilledRows
  <1> QED BY <1>1, <1>2, <1>3, <1>4 DEF Offers!Init, VersionOf, OfferOf, AnyOf, FilledRows

LEMMA CreateOffers ==
  ASSUME IInv, NEW a \in Accounts, NEW r, NEW c, NEW k, CreatePortfolio(a, r, c, k)
  PROVE  Offers!Open(a)
  <1>1. /\ a \notin DOMAIN accounts /\ DOMAIN accounts' = DOMAIN accounts \union {a}
        /\ accounts'[a].version = 1 /\ \A b \in DOMAIN accounts : accounts'[b] = accounts[b]
        /\ UNCHANGED <<plans, actions>>
    BY DEF CreatePortfolio
  <1>2. VersionOf' = [b \in DOMAIN VersionOf \union {a} |-> IF b = a THEN 1 ELSE VersionOf[b]]
    BY <1>1 DEF VersionOf
  <1>3. a \notin DOMAIN VersionOf
    BY <1>1 DEF VersionOf
  <1>4. UNCHANGED <<OfferOf, Len(plans), FilledRows>>
    BY <1>1, OfferUnchanged DEF FilledRows
  <1> QED BY <1>2, <1>3, <1>4 DEF Offers!Open, VersionOf, OfferOf, AnyOf, FilledRows

LEMMA UpdateOffers ==
  ASSUME IInv, IInv', NEW a \in DOMAIN accounts, NEW v, NEW f \in Forms, UpdateSnapshot(a, v, f)
  PROVE  Offers!Change(a)
  <1>1. /\ DOMAIN accounts' = DOMAIN accounts /\ accounts'[a].version = accounts[a].version + 1
        /\ \A b \in DOMAIN accounts \ {a} : accounts'[b] = accounts[b]
    BY UpdateEffect DEF IInv
  <1>2. VersionOf' = [VersionOf EXCEPT ![a] = VersionOf[a] + 1]
    BY <1>1 DEF VersionOf
  <1>3. /\ DOMAIN plans' = DOMAIN plans /\ Len(plans') = Len(plans)
        /\ \A i \in DOMAIN plans :
             /\ plans'[i].account = plans[i].account
             /\ plans'[i].status = IF plans[i].account = a /\ plans[i].status = "CURRENT"
                                  THEN "STALE" ELSE plans[i].status
    BY RetireStep DEF IInv, UpdateSnapshot
  <1>4. a \in Accounts /\ CurrentPlans(a)' = {} /\ \A b \in Accounts \ {a} : CurrentPlans(b)' = CurrentPlans(b)
    BY <1>3 DEF IInv, TypeOK, CurrentPlans, Plans
  <1>5. OfferOf'[a] = None
    BY <1>4 DEF OfferOf
  <1>6. OfferOf' = [OfferOf EXCEPT ![a] = None]
    BY <1>4, <1>5, OfferMoves
  <1>7. UNCHANGED <<Len(plans), FilledRows>>
    BY <1>3 DEF UpdateSnapshot, FilledRows
  <1> QED BY <1>2, <1>6, <1>7 DEF Offers!Change, VersionOf, OfferOf, AnyOf, FilledRows

LEMMA SaveOffers ==
  ASSUME IInv, IInv', NEW w \in Writers, SavePlan(w), plans' # plans
  PROVE  saving[w].account \in DOMAIN accounts /\ Offers!Issue(saving[w].account)
  <1> SUFFICES ASSUME NEW a, NEW n, a = saving[w].account, n = Len(plans) + 1
               PROVE  a \in DOMAIN accounts /\ Offers!Issue(a)
    OBVIOUS
  <1>1. Saved(saving[w], n)
    BY SaveEffect
  <1>2. /\ a \in DOMAIN accounts /\ a \in Accounts /\ Len(plans') = n
        /\ DOMAIN plans' = DOMAIN plans \union {n}
        /\ plans'[n].account = a /\ plans'[n].status = "CURRENT"
        /\ \A i \in DOMAIN plans :
             /\ plans'[i].account = plans[i].account
             /\ plans'[i].status = IF plans[i].account = a /\ plans[i].status = "CURRENT"
                                  THEN "ARCHIVED" ELSE plans[i].status
    BY <1>1 DEF Saved, IInv, TypeOK
  <1>3. n \notin DOMAIN plans
    BY Numbers DEF IInv
  <1>4. CurrentPlans(a)' = {n}
    <2>1. \A i \in DOMAIN plans' :
            plans'[i].account = a /\ plans'[i].status = "CURRENT" <=> i = n
      <3>1. ASSUME NEW i \in DOMAIN plans, plans[i].account = a
            PROVE  plans'[i].status # "CURRENT"
        <4>1. CASE plans[i].status = "CURRENT"
          BY <1>2, <3>1, <4>1
        <4>2. CASE plans[i].status # "CURRENT"
          BY <1>2, <3>1, <4>2
        <4> QED BY <4>1, <4>2
      <3> QED BY <1>2, <1>3, <3>1
    <2>2. \A i : i \in CurrentPlans(a)' <=> i \in {n}
      BY <1>2, <2>1 DEF CurrentPlans, Plans
    <2> QED BY <2>2
  <1>5. \A b \in Accounts \ {a} : CurrentPlans(b)' = CurrentPlans(b)
    <2> SUFFICES ASSUME NEW b \in Accounts \ {a} PROVE CurrentPlans(b)' = CurrentPlans(b)
      OBVIOUS
    <2>1. \A i \in DOMAIN plans' :
            plans'[i].account = b /\ plans'[i].status = "CURRENT"
            <=> i \in DOMAIN plans /\ plans[i].account = b /\ plans[i].status = "CURRENT"
      BY <1>2, <1>3
    <2>2. \A i : i \in CurrentPlans(b)' <=> i \in CurrentPlans(b)
      BY <1>2, <2>1 DEF CurrentPlans, Plans
    <2> QED BY <2>2
  <1>6. OfferOf'[a] = n
    <2>1. AnyOf({n}) = n
      BY DEF AnyOf
    <2>2. AnyOf(CurrentPlans(a)') = n /\ CurrentPlans(a)' # {}
      BY <1>4, <2>1
    <2>3. OfferOf'[a] = IF CurrentPlans(a)' = {} THEN None ELSE AnyOf(CurrentPlans(a)')
      BY <1>2 DEF OfferOf, AnyOf
    <2> QED BY <2>2, <2>3
  <1>7. OfferOf' = [OfferOf EXCEPT ![a] = n]
    BY <1>2, <1>5, <1>6, OfferMoves
  <1>8. UNCHANGED <<VersionOf, FilledRows>>
    BY DEF SavePlan, book, VersionOf, FilledRows
  <1> QED BY <1>2, <1>7, <1>8 DEF Offers!Issue, VersionOf, OfferOf, AnyOf, FilledRows

LEMMA RecordOffers ==
  ASSUME IInv, IInv', NEW a \in DOMAIN accounts, NEW i, NEW t, NEW y, Booked(a, i, t, y)
  PROVE  t \in Tickers /\ Offers!Fill(a, t)
  <1>1. /\ DOMAIN accounts' = DOMAIN accounts /\ accounts'[a].version = accounts[a].version + 1
        /\ \A b \in DOMAIN accounts \ {a} : accounts'[b] = accounts[b]
    BY DEF Booked
  <1>2. VersionOf' = [VersionOf EXCEPT ![a] = VersionOf[a] + 1]
    BY <1>1 DEF VersionOf
  <1>3. /\ i \in DOMAIN plans /\ plans[i].account = a /\ plans[i].status = "CURRENT" /\ a \in Accounts
        /\ plans \in Seq(Plan) /\ plans[i] \in Plan /\ i \in Nat /\ i \in 1 .. Len(plans)
        /\ plans' = [plans EXCEPT ![i].status = "STALE"]
    BY Numbers DEF Booked, IInv, TypeOK
  <1>4. i \in CurrentPlans(a) /\ \A j \in CurrentPlans(a) : j = i
    BY <1>3 DEF IInv, CurrentPlanMatchesAccount, CurrentPlans, Plans
  <1>5. OfferOf[a] = i /\ i # None
    BY <1>3, <1>4, OfferIsCurrent, NoneAssumption DEF IInv
  <1>6. DOMAIN plans' = DOMAIN plans /\ Len(plans') = Len(plans)
        /\ \A j \in DOMAIN plans :
             /\ plans'[j].account = plans[j].account
             /\ plans'[j].status = IF j = i THEN "STALE" ELSE plans[j].status
    BY <1>3 DEF Plan
  <1>7. CurrentPlans(a)' = {} /\ \A b \in Accounts \ {a} : CurrentPlans(b)' = CurrentPlans(b)
    BY <1>3, <1>4, <1>6 DEF CurrentPlans, Plans
  <1>8. OfferOf'[a] = None
    BY <1>3, <1>7 DEF OfferOf
  <1>9. OfferOf' = [OfferOf EXCEPT ![a] = None]
    BY <1>3, <1>7, <1>8, OfferMoves
  <1>10. FilledRows' = FilledRows \union {<<OfferOf[a], t>>}
    BY <1>5 DEF Booked, FilledRows
  <1>11. t \in Tickers
    BY <1>3, RowNumbers DEF Booked
  <1> QED BY <1>2, <1>5, <1>6, <1>9, <1>10, <1>11 DEF Offers!Fill, VersionOf, OfferOf, AnyOf, FilledRows

LEMMA StepOffers ==
  ASSUME IInv, IInv', [Next]_vars
  PROVE  [Offers!Next]_(Offers!vars)
  <1>1. CASE Create
    BY <1>1, CreateOffers DEF Create, Offers!Next
  <1>2. CASE Update
    <2>1. PICK a \in DOMAIN accounts : Offers!Change(a)
      BY <1>2, UpdateOffers DEF Update
    <2> QED BY <2>1 DEF Offers!Next
  <1>3. CASE UNCHANGED <<accounts, plans, actions>>
    <2>1. UNCHANGED <<VersionOf, OfferOf, Len(plans), FilledRows>>
      BY <1>3, OfferUnchanged DEF VersionOf, FilledRows
    <2> QED BY <2>1 DEF Offers!vars, VersionOf, OfferOf, AnyOf, FilledRows
  <1>4. CASE Save
    <2>1. PICK w \in Writers : SavePlan(w)
      BY <1>4 DEF Save
    <2>2. CASE plans' = plans
      BY <1>3, <2>1, <2>2 DEF SavePlan, book
    <2>3. CASE plans' # plans
      <3>1. PICK a \in DOMAIN accounts : Offers!Issue(a)
        BY <2>1, <2>3, SaveOffers
      <3> QED BY <3>1 DEF Offers!Next
    <2> QED BY <2>2, <2>3
  <1>5. CASE Begin \/ Review \/ UNCHANGED vars
    BY <1>3, <1>5 DEF Begin, BeginSave, Review, SetStatus, vars, book
  <1>6. CASE Record
    <2>1. PICK a \in DOMAIN accounts, i \in DOMAIN plans, q \in Quantities, k \in Keys :
            \E t \in DOMAIN rows[i], v \in Seen(a) : RecordAction(a, i, t, q, v, k)
      BY <1>6 DEF Record
    <2>2. PICK t \in DOMAIN rows[i], v \in Seen(a) : RecordAction(a, i, t, q, v, k)
      BY <2>1
    <2>3. \E x : Booked(a, i, t, x)
      BY <2>2, RecordEffect
    <2>4. t \in Tickers /\ Offers!Fill(a, t)
      BY <2>3, RecordOffers
    <2> QED BY <2>4 DEF Offers!Next
  <1> QED BY <1>1, <1>2, <1>4, <1>5, <1>6 DEF Next

(* The hosted portfolios implement the offer protocol: a plan is an offer   *)
(* for one version, and the first change of the account consumes it.        *)
THEOREM OffersImplemented == Spec => ImplementsOffers
  <1>1. Init => Offers!Init
    BY InitOffers
  <1>2. IInv /\ IInv' /\ [Next]_vars => [Offers!Next]_(Offers!vars)
    BY StepOffers
  <1> QED BY <1>1, <1>2, AccountInvariant, PTL DEF Spec, ImplementsOffers, Offers!Spec
(* An offer can be filled once: a filled one is no account's offer again,   *)
(* and no two accounts have the same.                                       *)
OfferInv ==
  /\ \A a \in Accounts : OfferOf[a] = None \/ OfferOf[a] \in 1 .. Len(plans)
  /\ \A a, b \in Accounts : OfferOf[a] = OfferOf[b] => a = b \/ OfferOf[a] = None
  /\ \A f \in FilledRows :
       f[1] \in 1 .. Len(plans) /\ \A a \in Accounts : OfferOf[a] # f[1]
  /\ \A f, g \in FilledRows : f[1] = g[1] => f = g

LEMMA OfferInvInit == Offers!Init => OfferInv
  <1> SUFFICES ASSUME Offers!Init PROVE OfferInv
    OBVIOUS
  <1>1. OfferOf = [a \in Accounts |-> None] /\ FilledRows = {}
    BY DEF Offers!Init, OfferOf, AnyOf, FilledRows
  <1> QED BY <1>1 DEF OfferInv

LEMMA OfferInvStep ==
  ASSUME Len(plans) \in Nat, OfferInv, DOMAIN accounts \subseteq Accounts,
         [Offers!Next]_(Offers!vars)
  PROVE  OfferInv'
  <1> DEFINE n == Len(plans)
  <1>0. DOMAIN OfferOf = Accounts /\ DOMAIN VersionOf = DOMAIN accounts
    BY DEF OfferOf, VersionOf
  <1>1. CASE UNCHANGED <<OfferOf, Len(plans), FilledRows>>
    BY <1>1 DEF OfferInv
  <1>2. ASSUME NEW a \in Accounts, Offers!Issue(a) PROVE OfferInv'
    <2>1. Len(plans)' = n + 1 /\ OfferOf' = [OfferOf EXCEPT ![a] = n + 1] /\ FilledRows' = FilledRows
      BY <1>2 DEF Offers!Issue, OfferOf, AnyOf, FilledRows
    <2>2. \A b \in Accounts : OfferOf'[b] = IF b = a THEN n + 1 ELSE OfferOf[b]
      BY <1>0, <2>1
    <2>3. None # n + 1
      BY NoneAssumption
    <2> QED BY <2>1, <2>2, <2>3 DEF OfferInv
  <1>3. ASSUME NEW a \in Accounts, Offers!Change(a) PROVE OfferInv'
    <2>1. Len(plans)' = n /\ OfferOf' = [OfferOf EXCEPT ![a] = None] /\ FilledRows' = FilledRows
      BY <1>3 DEF Offers!Change, OfferOf, AnyOf, FilledRows
    <2>2. \A b \in Accounts : OfferOf'[b] = IF b = a THEN None ELSE OfferOf[b]
      BY <1>0, <2>1
    <2>3. \A f \in FilledRows : f[1] # None
      BY NoneAssumption DEF OfferInv
    <2> QED BY <2>1, <2>2, <2>3 DEF OfferInv
  <1>4. ASSUME NEW a \in Accounts, NEW t, Offers!Fill(a, t) PROVE OfferInv'
    <2>1. /\ OfferOf[a] # None /\ Len(plans)' = n
          /\ OfferOf' = [OfferOf EXCEPT ![a] = None]
          /\ FilledRows' = FilledRows \union {<<OfferOf[a], t>>}
      BY <1>4 DEF Offers!Fill, OfferOf, AnyOf, FilledRows
    <2>2. \A b \in Accounts : OfferOf'[b] = IF b = a THEN None ELSE OfferOf[b]
      BY <1>0, <2>1
    <2>3. OfferOf[a] \in 1 .. n /\ OfferOf[a] \in Nat
      BY <2>1 DEF OfferInv
    <2>4. \A f \in FilledRows' : f \in FilledRows \/ f = <<OfferOf[a], t>>
      BY <2>1
    <2>5. \A f \in FilledRows : f[1] # None /\ f[1] # OfferOf[a]
      BY NoneAssumption DEF OfferInv
    <2>6. \A b \in Accounts : OfferOf'[b] # OfferOf[a]
      BY <2>1, <2>2 DEF OfferInv
    <2>7. /\ \A b \in Accounts : OfferOf'[b] = None \/ OfferOf'[b] \in 1 .. n
          /\ \A b, c \in Accounts : OfferOf'[b] = OfferOf'[c] => b = c \/ OfferOf'[b] = None
      BY <2>2 DEF OfferInv
    <2>8. \A f \in FilledRows' : f[1] \in 1 .. n /\ \A b \in Accounts : OfferOf'[b] # f[1]
      BY <2>2, <2>3, <2>4, <2>5, <2>6 DEF OfferInv
    <2>9. \A f, g \in FilledRows' : f[1] = g[1] => f = g
      BY <2>4, <2>5 DEF OfferInv
    <2> QED BY <2>1, <2>7, <2>8, <2>9 DEF OfferInv
  <1>5. CASE UNCHANGED Offers!vars
    BY <1>1, <1>5 DEF Offers!vars, OfferOf, AnyOf, FilledRows
  <1>6. ASSUME NEW a \in Accounts, Offers!Open(a) PROVE OfferInv'
    BY <1>1, <1>6 DEF Offers!Open, OfferOf, AnyOf, FilledRows
  <1>7. CASE Offers!Next
    <2>1. CASE \E a \in Accounts : Offers!Open(a)
      BY <1>6, <2>1
    <2>2. CASE \E a \in DOMAIN VersionOf :
                 Offers!Issue(a) \/ Offers!Change(a) \/ \E t \in Tickers : Offers!Fill(a, t)
      BY <1>0, <1>2, <1>3, <1>4, <2>2
    <2> QED BY <1>7, <2>1, <2>2 DEF Offers!Next, VersionOf
  <1> QED BY <1>5, <1>7

(* A plan is used up by the first action recorded from it: however many     *)
(* recommendations it has, and whatever requests race or are repeated, at   *)
(* most one of them is ever booked, and the others need a new plan          *)
(* (record_recommendation_paper_action).  The offer protocol promises it,   *)
(* and the hosted portfolios implement the protocol.                        *)
THEOREM PlansAreUsedOnce == Spec => [](\A x, y \in actions : x.plan = y.plan => x = y)
  <1>1. IInv => Len(plans) \in Nat /\ DOMAIN accounts \subseteq Accounts
    BY Numbers DEF IInv, TypeOK
  <1>2. IInv /\ OfferInv /\ [Offers!Next]_(Offers!vars) => OfferInv'
    BY <1>1, OfferInvStep
  <1>3. IInv /\ OfferInv => \A x, y \in actions : x.plan = y.plan => x = y
    <2> SUFFICES ASSUME IInv, OfferInv, NEW x \in actions, NEW y \in actions, x.plan = y.plan
                 PROVE  x = y
      OBVIOUS
    <2>1. <<x.plan, x.ticker>> \in FilledRows /\ <<y.plan, y.ticker>> \in FilledRows
      BY DEF FilledRows
    <2>2. <<x.plan, x.ticker>> = <<y.plan, y.ticker>>
      BY <2>1 DEF OfferInv
    <2>3. x.ticker = y.ticker
      BY <2>2
    <2> QED BY <2>3 DEF IInv, ActionInv, RecordedOnce
  <1> QED BY <1>2, <1>3, OfferInvInit, AccountInvariant, OffersImplemented, PTL
          DEF ImplementsOffers, Offers!Spec

-----------------------------------------------------------------------------
(* When a CURRENT plan is the one shown.                                    *)

(* A save that commits a plan began before every save of the same account   *)
(* that is still under way: so it is when saves of one account do not       *)
(* overlap, or get the row lock in the order they began.                    *)
SavesCommitInOrder ==
  [][\A w, u \in Writers :
       (/\ plans' # plans /\ saving[w] # None /\ saving'[w] = None
        /\ saving[u] # None /\ saving[u].account = saving[w].account) =>
       saving[w].at <= saving[u].at]_vars

(* Saves begin at different times, one under way began after the plans its  *)
(* account has, and a CURRENT plan has the last time of its account's.      *)
TimesInv ==
  /\ \A i \in DOMAIN plans : plans[i].at \in Nat /\ plans[i].at <= clock
  /\ \A w, u \in Writers : w # u /\ saving[w] # None /\ saving[u] # None =>
       saving[w].at # saving[u].at
  /\ \A w \in Writers : saving[w] # None =>
       \A i \in DOMAIN plans : plans[i].account = saving[w].account => plans[i].at < saving[w].at
  /\ \A i, j \in DOMAIN plans :
       plans[i].status = "CURRENT" /\ plans[j].account = plans[i].account =>
         plans[j].at <= plans[i].at

LEMMA TimesOfOldPlans ==
  ASSUME TimesInv, UNCHANGED <<saving, clock>>, DOMAIN plans' = DOMAIN plans,
         \A i \in DOMAIN plans :
           /\ plans'[i].account = plans[i].account /\ plans'[i].at = plans[i].at
           /\ plans'[i].status = "CURRENT" => plans[i].status = "CURRENT"
  PROVE  TimesInv'
  BY DEF TimesInv

LEMMA TimesBegin ==
  ASSUME IInv, TimesInv, NEW w \in Writers, NEW a, NEW v, NEW ps, BeginSave(w, a, v, ps)
  PROVE  TimesInv'
  <1>1. /\ clock \in Nat /\ clock' = clock + 1 /\ plans' = plans
        /\ DOMAIN saving = Writers
        /\ \A u \in Writers : saving[u] # None => saving[u].at \in Nat /\ saving[u].at <= clock
    BY DEF IInv, TypeOK, SavingOK, BeginSave
  <1>2. /\ saving'[w].at = clock + 1
        /\ \A u \in Writers \ {w} : saving'[u] = saving[u]
    BY <1>1 DEF BeginSave
  <1>3. \A u \in Writers : saving'[u] # None /\ u # w => saving'[u].at # saving'[w].at
    BY <1>1, <1>2
  <1>4. \A x, u \in Writers : x # u /\ saving'[x] # None /\ saving'[u] # None =>
          saving'[x].at # saving'[u].at
    BY <1>2, <1>3 DEF TimesInv
  <1>5. \A i \in DOMAIN plans : plans[i].at \in Nat /\ plans[i].at <= clock
    BY DEF TimesInv
  <1>6. \A i \in DOMAIN plans : plans[i].at <= clock' /\ plans[i].at < saving'[w].at
    BY <1>1, <1>2, <1>5
  <1> QED BY <1>1, <1>2, <1>4, <1>5, <1>6 DEF TimesInv

LEMMA TimesSave ==
  ASSUME IInv, TimesInv, NEW w \in Writers, SavePlan(w),
         \A u \in Writers :
           (plans' # plans /\ saving[u] # None /\ saving[u].account = saving[w].account) =>
             saving[w].at <= saving[u].at
  PROVE  TimesInv'
  <1>1. /\ clock \in Nat /\ clock' = clock /\ DOMAIN saving = Writers
        /\ saving[w] # None /\ saving[w].at \in Nat /\ saving[w].at <= clock
        /\ \A u \in Writers : saving[u] # None => saving[u].at \in Nat
    BY DEF IInv, TypeOK, SavingOK, SavePlan
  <1>2. saving'[w] = None /\ \A u \in Writers \ {w} : saving'[u] = saving[u]
    BY <1>1 DEF SavePlan
  <1>3. CASE plans' = plans
    BY <1>1, <1>2, <1>3 DEF TimesInv
  <1>4. CASE plans' # plans
    <2> DEFINE tx == saving[w]  n == Len(plans) + 1
    <2>1. Saved(tx, n)
      BY <1>4, SaveEffect
    <2>2. /\ DOMAIN plans' = DOMAIN plans \union {n} /\ n \notin DOMAIN plans
          /\ plans'[n].account = tx.account /\ plans'[n].at = tx.at
          /\ \A i \in DOMAIN plans :
               /\ plans'[i].account = plans[i].account /\ plans'[i].at = plans[i].at
               /\ plans'[i].status = IF plans[i].account = tx.account /\ plans[i].status = "CURRENT"
                                    THEN "ARCHIVED" ELSE plans[i].status
      BY <2>1, Numbers DEF Saved, IInv
    <2> HIDE DEF n
    <2>3. \A i \in DOMAIN plans' : plans'[i].at \in Nat /\ plans'[i].at <= clock'
      BY <1>1, <2>2 DEF TimesInv
    <2>4. \A x, u \in Writers : x # u /\ saving'[x] # None /\ saving'[u] # None =>
            saving'[x].at # saving'[u].at
      BY <1>2 DEF TimesInv
    <2>5. \A u \in Writers : saving'[u] # None =>
            \A i \in DOMAIN plans' :
              plans'[i].account = saving'[u].account => plans'[i].at < saving'[u].at
      <3> SUFFICES ASSUME NEW u \in Writers, saving'[u] # None, NEW i \in DOMAIN plans',
                          plans'[i].account = saving'[u].account
                   PROVE  plans'[i].at < saving'[u].at
        OBVIOUS
      <3>1. u # w /\ saving'[u] = saving[u] /\ saving[u].at \in Nat
        BY <1>1, <1>2
      <3>2. CASE i \in DOMAIN plans
        BY <2>2, <3>1, <3>2 DEF TimesInv
      <3>3. CASE i = n
        <4>1. tx.at <= saving[u].at /\ tx.at # saving[u].at
          BY <1>1, <1>4, <2>2, <3>1, <3>3 DEF TimesInv
        <4> QED BY <1>1, <2>2, <3>1, <3>3, <4>1
      <3> QED BY <2>2, <3>2, <3>3
    <2>6. ASSUME NEW i \in DOMAIN plans', NEW j \in DOMAIN plans',
                 plans'[i].status = "CURRENT", plans'[j].account = plans'[i].account
          PROVE  plans'[j].at <= plans'[i].at
      <3>1. CASE i = n /\ j = n
        BY <1>1, <2>2, <3>1
      <3>2. CASE i = n /\ j \in DOMAIN plans
        <4>1. plans[j].at < tx.at /\ plans[j].at \in Nat
          BY <1>1, <2>2, <2>6, <3>2 DEF TimesInv
        <4> QED BY <1>1, <2>2, <3>2, <4>1
      <3>3. CASE i \in DOMAIN plans
        <4>1. plans[i].status = "CURRENT" /\ plans[i].account # tx.account
          <5>1. CASE plans[i].account = tx.account /\ plans[i].status = "CURRENT"
            BY <2>2, <2>6, <3>3, <5>1
          <5>2. CASE ~(plans[i].account = tx.account /\ plans[i].status = "CURRENT")
            BY <2>2, <2>6, <3>3, <5>2
          <5> QED BY <5>1, <5>2
        <4>2. j \in DOMAIN plans
          BY <2>2, <2>6, <3>3, <4>1
        <4> QED BY <2>2, <2>6, <3>3, <4>1, <4>2 DEF TimesInv
      <3> QED BY <2>2, <3>1, <3>2, <3>3
    <2> QED BY <2>3, <2>4, <2>5, <2>6 DEF TimesInv
  <1> QED BY <1>3, <1>4

LEMMA TimesStep ==
  ASSUME IInv, TimesInv, Next,
         \A w, u \in Writers :
           (/\ plans' # plans /\ saving[w] # None /\ saving'[w] = None
            /\ saving[u] # None /\ saving[u].account = saving[w].account) =>
           saving[w].at <= saving[u].at
  PROVE  TimesInv'
  <1>1. CASE UNCHANGED <<plans, saving, clock>>
    BY <1>1 DEF TimesInv
  <1>2. CASE Create \/ Review
    BY <1>1, <1>2 DEF Create, CreatePortfolio, Review, SetStatus
  <1>3. CASE Update
    <2>1. PICK a \in DOMAIN accounts, f \in Forms : \E v \in Seen(a) : UpdateSnapshot(a, v, f)
      BY <1>3 DEF Update
    <2>2. plans' = Retire(a, "STALE") /\ UNCHANGED <<saving, clock>>
      BY <2>1 DEF UpdateSnapshot
    <2>3. /\ DOMAIN plans' = DOMAIN plans
          /\ \A i \in DOMAIN plans :
               /\ plans'[i].account = plans[i].account /\ plans'[i].at = plans[i].at
               /\ plans'[i].status = IF plans[i].account = a /\ plans[i].status = "CURRENT"
                                    THEN "STALE" ELSE plans[i].status
      BY <2>2, RetireStep DEF IInv
    <2>4. \A i \in DOMAIN plans : plans'[i].status = "CURRENT" => plans[i].status = "CURRENT"
      BY <2>3
    <2> QED BY <2>2, <2>3, <2>4, TimesOfOldPlans
  <1>4. CASE Begin
    BY <1>4, TimesBegin DEF Begin
  <1>5. CASE Save
    <2>1. PICK w \in Writers : SavePlan(w)
      BY <1>5 DEF Save
    <2>2. saving[w] # None /\ saving'[w] = None
      BY <2>1 DEF SavePlan, IInv, TypeOK
    <2>3. \A u \in Writers :
            (plans' # plans /\ saving[u] # None /\ saving[u].account = saving[w].account) =>
              saving[w].at <= saving[u].at
      BY <2>2
    <2> QED BY <2>1, <2>3, TimesSave
  <1>6. CASE Record
    <2>1. PICK a \in DOMAIN accounts, i \in DOMAIN plans, q \in Quantities, k \in Keys :
            \E t \in DOMAIN rows[i], v \in Seen(a) : RecordAction(a, i, t, q, v, k)
      BY <1>6 DEF Record
    <2>2. plans' = [plans EXCEPT ![i].status = "STALE"] /\ UNCHANGED <<saving, clock>>
      BY <2>1 DEF RecordAction
    <2>3. \A j \in DOMAIN plans : plans[j] \in Plan
      BY Numbers DEF IInv
    <2>4. /\ DOMAIN plans' = DOMAIN plans
          /\ \A j \in DOMAIN plans :
               /\ plans'[j].account = plans[j].account /\ plans'[j].at = plans[j].at
               /\ plans'[j].status = "CURRENT" => plans[j].status = "CURRENT"
      BY <2>2, <2>3 DEF Plan
    <2> QED BY <2>2, <2>4, TimesOfOldPlans
  <1> QED BY <1>2, <1>3, <1>4, <1>5, <1>6 DEF Next

(* The plan an account can act on is the plan it is shown, in every state,  *)
(* as long as saves of one account commit in the order they began: only a   *)
(* save that overtakes another one of its account can hide a CURRENT plan   *)
(* (generated_at is the start of the saving transaction).                   *)
THEOREM SavesInOrderAreShown == Spec /\ SavesCommitInOrder => []CurrentPlanIsShown
  <1>1. Init => TimesInv
    BY DEF Init, TimesInv
  <1>2. IInv /\ TimesInv /\ [Next]_vars
        /\ [\A w, u \in Writers :
              (/\ plans' # plans /\ saving[w] # None /\ saving'[w] = None
               /\ saving[u] # None /\ saving[u].account = saving[w].account) =>
              saving[w].at <= saving[u].at]_vars
        => TimesInv'
    <2>1. ASSUME TimesInv, UNCHANGED vars PROVE TimesInv'
      BY <2>1 DEF vars, TimesInv
    <2> QED BY <2>1, TimesStep
  <1>3. TimesInv => CurrentPlanIsShown
    BY DEF TimesInv, CurrentPlanIsShown, ShownPlans, IsLatest, Live, Plans
  <1> QED BY <1>1, <1>2, <1>3, AccountInvariant, PTL DEF Spec, SavesCommitInOrder
=============================================================================
