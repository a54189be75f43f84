----------------------------- MODULE PlanBuild -----------------------------
(***************************************************************************)
(* How a trading plan is computed (src/paper_trading/trading_plan.py and   *)
(* scan_coverage.py): two price loads, one for the market regime and one   *)
(* for the stocks, then the pure builder, which ranks, allocates and       *)
(* reviews.  PlanExecution starts where this ends, with any plan of this   *)
(* kind.                                                                   *)
(*                                                                         *)
(* Quantities are whole shares.  The consensus score, which orders nothing *)
(* once the candidates are sorted by their evidence, the texts and the     *)
(* timings are left out.                                                   *)
(***************************************************************************)
EXTENDS Regime

CONSTANTS
  PlanUniverse,   \* the stocks scanned, in alphabetical order
  PlanFeeds,      \* what a load may return: completed daily rows by ticker
  PlanBooks,      \* [cash, starting, lots, target]; a lot is [ticker, side, quantity]
  PlanModes,      \* "CONSENSUS", "AUTOMATIC" or a strategy
  PlanCap, PlanMinPrice,
  NoTarget

ASSUME PlanBuildAssumption ==
  /\ PlanCap \in Nat \ {0} /\ PlanMinPrice \in Nat /\ NoTarget \in Int \ Nat
  /\ PlanUniverse \in Seq(ToSet(PlanUniverse))
  /\ \A i, j \in DOMAIN PlanUniverse : PlanUniverse[i] = PlanUniverse[j] => i = j
  /\ \A b \in PlanBooks :
       /\ b.cash \in Nat /\ b.starting \in Nat \ {0} /\ b.target \in Int
       /\ b.lots \in Seq(ToSet(b.lots)) /\ \A lot \in ToSet(b.lots) : lot.quantity \in Nat
  /\ \A f \in PlanFeeds :
       /\ {"SPY", "QQQ"} \cup ToSet(PlanUniverse) \subseteq DOMAIN f
       /\ \A b \in PlanBooks : \A lot \in ToSet(b.lots) : lot.ticker \in DOMAIN f
       /\ \A t \in DOMAIN f : f[t] \in Seq([open : Nat, close : Nat, volume : Int])

VARIABLES
  planMode, planBook,
  planRegime,   \* of the first load, "NONE" when there was none
  planFeed,     \* the rows of the second load
  planQuotes,   \* their latest closes
  planOutputs,  \* name -> ticker -> what the strategy answers
  planStage,    \* "regime", "prices", "scan", "build", "built", "failed"
  plan          \* the plan built

planVars == <<planMode, planBook, planRegime, planFeed, planQuotes, planOutputs, planStage, plan>>

-----------------------------------------------------------------------------
(* Quotes, and the strategy of a mode                                      *)

NoQuote == [price |-> 0, session |-> 0]
Latest(rows) == IF ~HasClose(rows) THEN NoQuote
                ELSE [price |-> rows[AsOf(rows)].close, session |-> AsOf(rows)]
Quote(t) == planQuotes[t]

Lots == planBook.lots
Held == {lot.ticker : lot \in ToSet(Lots)}

(* The session of SPY and QQQ, else the latest of any stock.               *)
Reference ==
  LET of(tickers) == {Quote(t).session : t \in tickers} \ {0}
      index == of({"SPY", "QQQ"})
      known == IF index # {} THEN index ELSE of(ToSet(PlanUniverse) \cup Held)
  IN IF known = {} THEN 0 ELSE CHOOSE s \in known : \A r \in known : r <= s

ByRegime == planMode \in {"CONSENSUS", "AUTOMATIC"}
Chosen ==
  LET names == Preferred(planRegime)
  IN IF planMode # "AUTOMATIC" THEN planMode
     ELSE IF Available(names) = {} THEN "NONE" ELSE names[Min(Available(names))]

(* analyze_ticker: a result computed from an older close than the quote,   *)
(* because the strategy drops rows without volume, is no result.           *)
AsQuoted(result, used, rows) ==
  IF result = Nothing \/ Last(Closes(used)) # Last(Closes(rows)) THEN Nothing ELSE result
AnalyzeTicker(name, t) ==
  LET rows == planFeed[t]
      relative == IF PreferredBenchmark(name) = {} THEN <<>> ELSE planFeed["QQQ"]
      voluminous == name \in {"Aggressive Momentum V1", "Breakout Volume V1"}
  IN AsQuoted(Analyze(name, t, rows, relative), IF voluminous THEN Traded(rows) ELSE rows, rows)

Votes(t, signal) == {name \in LiveStrategies : planOutputs[name][t].signal = signal}
NamesFor(chosen) == CASE chosen = "CONSENSUS" -> LiveStrategies [] chosen = "NONE" -> {} [] OTHER -> {chosen}
Names == NamesFor(Chosen)
Complete(t) == \A name \in Names : planOutputs[name][t] # Nothing

-----------------------------------------------------------------------------
(* Candidates: the stocks that qualify, by the evidence for them.          *)

(* mutant: a held stock two strategies would leave may be bought again.    *)
ConsensusQualifiesHeld(t) ==
  LET minimum == IF planRegime = "HIGH_VOLATILITY" THEN 3 ELSE 2
  IN /\ Cardinality(Votes(t, "BUY")) >= minimum /\ Cardinality(Votes(t, "AVOID")) <= 2
     /\ Votes(t, "BUY") \cap ToSet(Preferred(planRegime)) # {}

ConsensusQualifies(t) ==
  LET buys == Votes(t, "BUY")  avoids == Cardinality(Votes(t, "AVOID"))
      minimum == IF planRegime = "HIGH_VOLATILITY" THEN 3 ELSE 2
  IN /\ ~(t \in Held /\ avoids >= 2)
     /\ Cardinality(buys) >= minimum /\ avoids <= 2
     /\ buys \cap ToSet(Preferred(planRegime)) # {}

Qualifies(t) ==
  /\ Names # {} /\ Complete(t)
  /\ IF Chosen = "CONSENSUS" THEN ConsensusQualifies(t) ELSE planOutputs[Chosen][t].signal = "BUY"

(* _candidate_rank_evidence: the sum over the strategies of the midpoint   *)
(* rank among all rankable stocks; the less the better.                    *)
Rankable ==
  {t \in ToSet(PlanUniverse) :
     Names # {} /\ Complete(t) /\ Quote(t).session = Reference /\ Reference > 0}
RankLoss(rankable, t) ==
  LET loss(name) ==
        LET above(u, v) == RankedAbove(planOutputs[name][u], planOutputs[name][v], TieFactor(name))
        IN 2 * Cardinality({u \in rankable : above(u, t)})
             + Cardinality({u \in rankable : ~above(u, t) /\ ~above(t, u)})
      order == SetToSeq(Names)
  IN Total([i \in DOMAIN order |-> loss(order[i])])
Evidence(rankable) == [t \in rankable |-> RankLoss(rankable, t)]

Sorted(evidence) ==
  LET better(t, u) ==
        t \in DOMAIN evidence /\ (u \notin DOMAIN evidence \/ evidence[t] < evidence[u])
      place(s, t) == IF ~Qualifies(t) THEN s
                     ELSE Inserted(s, t, {i \in DOMAIN s : better(t, s[i])})
  IN FoldLeft(place, <<>>, PlanUniverse)
Candidates == Sorted(Evidence(Rankable))

-----------------------------------------------------------------------------
(* allocate_buy_candidates: one shared budget, spent in order.             *)

Mark(lot) == lot.quantity * Quote(lot.ticker).price
Marked(lots) == Total([i \in DOMAIN lots |-> Mark(lots[i])])
CapacityError == \E t \in Held : Quote(t) = NoQuote \/ Quote(t).session < Reference
Room(t) ==
  LET long(lot) == IF lot.ticker = t /\ lot.side = "LONG" THEN Mark(lot) ELSE 0
  IN Larger(0, PlanCap - Total([i \in DOMAIN Lots |-> long(Lots[i])]))
Budget(a, t) ==
  Smaller(Smaller(a.cash, a.capacity),
          Smaller(Room(t), IF planBook.target = NoTarget THEN PlanCap ELSE planBook.target))

Spend(a, t) ==
  LET quote == Quote(t)  price == quote.price
      quantity == Budget(a, t) \div price
      usable == quote # NoQuote /\ quote.session >= Reference /\ price >= PlanMinPrice
  IN IF ~usable \/ Budget(a, t) < price THEN a
     ELSE [buys |-> Append(a.buys, [ticker |-> t, quantity |-> quantity, price |-> price]),
           cash |-> a.cash - quantity * price, capacity |-> a.capacity - quantity * price]

Allocation(candidates) ==
  LET untouched == [buys |-> <<>>, cash |-> planBook.cash,
                    capacity |-> Larger(0, planBook.starting - Marked(Lots))]
  IN IF CapacityError THEN untouched ELSE FoldLeft(Spend, untouched, candidates)

-----------------------------------------------------------------------------
(* Reviews, statuses and the audit of the scan                             *)

Review(t) ==
  LET avoided == IF Chosen = "CONSENSUS" THEN Cardinality(Votes(t, "AVOID")) >= 2
                 ELSE planOutputs[Chosen][t].signal = "AVOID"
  IN IF Names = {} \/ ~Complete(t) THEN "UNAVAILABLE" ELSE IF avoided THEN "REVIEW EXIT" ELSE "KEEP"

Status(t, buys) ==
  IF t \in {buys[i].ticker : i \in DOMAIN buys} THEN "RECOMMENDED"
  ELSE IF Names # {} /\ ~Complete(t) THEN "UNAVAILABLE"
  ELSE IF Qualifies(t) THEN "ALLOCATION_BLOCKED" ELSE "NOT_SELECTED"

NoPurchase(candidates, buys) ==
  IF Chosen = "NONE" THEN "NO STRATEGY"
  ELSE IF CapacityError THEN "CAPACITY"
  ELSE IF candidates = <<>> THEN "NO SIGNAL" ELSE IF buys = <<>> THEN "BLOCKED" ELSE "NONE"

(* summarize_scan_coverage: what counts as dated, priced and rankable.     *)
Coverage(failed, buys) ==
  LET stale == {t \in ToSet(PlanUniverse) : Quote(t) # NoQuote /\ Quote(t).session < Reference}
      missing == {t \in ToSet(PlanUniverse) : Quote(t) = NoQuote}
      below == {t \in ToSet(PlanUniverse) \ missing : Quote(t).price < PlanMinPrice}
      silent == {t \in ToSet(PlanUniverse) : Status(t, buys) = "UNAVAILABLE"}
  IN [stale |-> stale, missing |-> missing, below |-> below, failed |-> failed,
      eligible |-> ToSet(PlanUniverse) \ (stale \cup missing \cup below \cup silent \cup failed)]

(* _price_session_bounds: of the proposed and the held stocks; 0 is today. *)
PriceSessions(buys) ==
  LET known == {Quote(t).session : t \in Held \cup {buys[i].ticker : i \in DOMAIN buys}} \ {0}
      end(Before_(_, _)) == CHOOSE s \in known : \A r \in known : Before_(s, r)
  IN IF known = {} THEN <<0, 0>> ELSE <<end(<=), end(>=)>>

-----------------------------------------------------------------------------
(* load_and_build_trading_plan                                             *)

NoPlan == [buys |-> <<>>]
PlanInit ==
  /\ planMode \in PlanModes /\ planBook \in PlanBooks
  /\ planRegime = "NONE" /\ planFeed \in {[t \in DOMAIN f |-> <<>>] : f \in PlanFeeds}
  /\ planStage = IF ByRegime THEN "regime" ELSE "prices"
  /\ planOutputs = [name \in {} |-> NoPlan] /\ planQuotes = [t \in {} |-> NoQuote] /\ plan = NoPlan

LoadRegime ==
  /\ planStage = "regime"
  /\ \E feed \in PlanFeeds :
       /\ planRegime' = RegimeOf(feed["SPY"], feed["QQQ"])
       /\ planStage' = IF RegimeOf(feed["SPY"], feed["QQQ"]) = "NONE" THEN "failed" ELSE "prices"
  /\ UNCHANGED <<planMode, planBook, planFeed, planQuotes, planOutputs, plan>>

(* scan_tickers_for_plan: SPY is asked for with QQQ's regime or strategy.  *)
LoadPrices ==
  /\ planStage = "prices"
  /\ \E feed \in PlanFeeds :
       planFeed' = [t \in DOMAIN feed |->
         IF t = "SPY" /\ ~ByRegime /\ PreferredBenchmark(planMode) = {} THEN <<>> ELSE feed[t]]
  /\ planStage' = "scan"
  /\ UNCHANGED <<planMode, planBook, planRegime, planQuotes, planOutputs, plan>>

Scan ==
  /\ planStage = "scan"
  /\ IF Names \ LiveStrategies # {} \/ (planBook.target # NoTarget /\ planBook.target \notin 1..PlanCap)
     THEN planStage' = "failed" /\ UNCHANGED <<planQuotes, planOutputs>>
     ELSE /\ planStage' = "build"
          /\ planQuotes' = [t \in DOMAIN planFeed |-> Latest(planFeed[t])]
          /\ planOutputs' = [name \in Names |->
               [t \in ToSet(PlanUniverse) \cup Held |-> AnalyzeTicker(name, t)]]
  /\ UNCHANGED <<planMode, planBook, planRegime, planFeed, plan>>

Reviewed(candidates, spent, failed) ==
  [buys |-> spent.buys, cashAfter |-> spent.cash,
   status |-> [t \in ToSet(PlanUniverse) |-> Status(t, spent.buys)],
   holdings |-> [t \in Held |-> Review(t)],
   explanation |-> NoPurchase(candidates, spent.buys),
   coverage |-> Coverage(failed, spent.buys),
   sessions |-> PriceSessions(spent.buys)]
Built(candidates, failed) == Reviewed(candidates, Allocation(candidates), failed)

BuildPlan ==
  /\ planStage = "build"
  /\ planStage' = "built"
  /\ \E failed \in {{}, {PlanUniverse[1]}} : plan' = Built(Candidates, failed)
  /\ UNCHANGED <<planMode, planBook, planRegime, planFeed, planQuotes, planOutputs>>

PlanNext == LoadRegime \/ LoadPrices \/ Scan \/ BuildPlan

PlanSpec == PlanInit /\ [][PlanNext]_planVars

-----------------------------------------------------------------------------
(* The shape of a plan under construction.                                 *)
PlanTypeOK ==
  /\ planMode \in PlanModes /\ planBook \in PlanBooks
  /\ planStage \in {"regime", "prices", "scan", "build", "built", "failed"}
  /\ \A i \in DOMAIN plan.buys : plan.buys[i] \in [ticker : ToSet(PlanUniverse), quantity : Nat, price : Nat]
  /\ planStage = "built" => plan.cashAfter \in Nat /\ DOMAIN plan.holdings = Held

(* A plan can be carried out as it stands: its purchases together fit the  *)
(* cash and the capacity left by the holdings at today's marks, each keeps *)
(* its stock's long lots under the limit, every price a plan spends or     *)
(* counts on is of the reference session, and no stock is proposed while   *)
(* its holding is up for exit or, unless the provider failed to answer for *)
(* it, while its evidence is incomplete.                                   *)
PlanFits ==
  LET proposed == {plan.buys[i].ticker : i \in DOMAIN plan.buys}
      costs == [i \in DOMAIN plan.buys |-> plan.buys[i].quantity * plan.buys[i].price]
  IN planStage = "built" /\ proposed # {} =>
       /\ Cardinality(proposed) = Len(plan.buys)
       /\ Total(costs) <= planBook.cash /\ Total(costs) + Marked(Lots) <= planBook.starting
       /\ \A i \in DOMAIN plan.buys : 0 < costs[i] /\ costs[i] <= Room(plan.buys[i].ticker)
       /\ \A t \in proposed \cup Held : Quote(t).session >= Reference
       /\ \A t \in proposed \cap Held : plan.holdings[t] = "KEEP"
       /\ proposed \subseteq plan.coverage.eligible \cup plan.coverage.failed
=============================================================================
