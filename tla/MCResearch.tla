----------------------------- MODULE MCResearch -----------------------------
(* The research: a weekly simulation, a trading plan, the price cache, the *)
(* training rows and a benchmark run.  They share no state here, so a      *)
(* behaviour is one of theirs: `part' says whose.                          *)
EXTENDS SimulationProperties, PlanBuild, PriceCache, Training, Benchmark, TLC

VARIABLE part

MCDays == 5 :> 1 @@ 14 :> 2 @@ 20 :> 2 @@ 50 :> 2 @@ 60 :> 2 @@ 120 :> 3 @@ 200 :> 3
MinusOne == -1
AB == <<"A", "B">>

(* Rows of closes c that open at the close before; 0 is a missing price.   *)
Opened(c) ==
  [i \in DOMAIN c |-> [open |-> IF c[i] = 0 \/ i = 1 \/ c[Larger(1, i - 1)] = 0 THEN c[i] ELSE c[i - 1],
                       close |-> c[i], volume |-> 10]]
Silent(c, days) == [i \in DOMAIN c |-> [Opened(c)[i] EXCEPT !.volume = IF i \in days THEN -1 ELSE 10]]
Growing(c) == [i \in DOMAIN c |-> [open |-> c[i], close |-> c[i], volume |-> 10 * i]]

-----------------------------------------------------------------------------
(* Simulation: rising, falling, wavering, interrupted and late stocks, and *)
(* an index that begins after the first rebalance.                         *)

Rising == <<100, 101, 102, 103, 110, 120, 121, 122>>
Dipping == <<106, 100, 104, 103, 104, 103, 106, 108>>
Falling == <<110, 108, 106, 104, 102, 100, 98, 96>>
Wild == <<100, 100, 110, 90, 120, 80, 140, 60>>
None8 == <<0, 0, 0, 0, 0, 0, 0, 0>>
Stocks8 == {Rising, Dipping, Falling, Wild, <<100, 102, 104, 106, 0, 0, 104, 102>>,
            <<0, 0, 102, 103, 104, 105, 0, 107>>}
Indices8 == {<<100, 101, 102, 103, 104, 105, 106, 107>>, <<110, 109, 108, 107, 108, 109, 110, 111>>,
             <<100, 102, 106, 105, 104, 102, 98, 96>>, Wild}

MCFeeds ==
  {[A |-> Opened(a), B |-> Opened(b), SPY |-> Opened(i), QQQ |-> Opened(i)] :
     a, b \in Stocks8, i \in Indices8 \cup {<<100, 101, 102, 103, 104, 103, 0, 101>>}}
  \cup {[A |-> Opened(Rising), B |-> Opened(b), SPY |-> Opened(Falling),
          QQQ |-> Opened(<<0, 0, 0, 0, 0, 0, 103, 104>>)] : b \in Stocks8}
MCMembers == [d \in 1..8 |-> IF d < 7 THEN AB ELSE <<"B", "A">>]
MCPredict(c) == IF Last(c) > 110 THEN -1 ELSE 500 + Change(Last(c), c[1])
MCMethods ==
  {[kind |-> "strategy", name |-> n, top |-> 0] : n \in Registered}
    \cup {[kind |-> k, name |-> k, top |-> 1] : k \in {"learned", "switching", "adaptive"}}

-----------------------------------------------------------------------------
(* Plan: the same stocks, some without the last days or without volumes.   *)

PlanStocks == {Opened(Rising), Opened(Dipping), Opened(Wild), Opened(None8),
               Opened(<<100, 102, 104, 106, 0, 0, 104, 0>>),
               Silent(<<97, 98, 99, 99, 100, 115, 112, 110>>, {6, 7}), Silent(Rising, {8})}
MCPlanFeeds ==
  {[A |-> a, B |-> b, SPY |-> Opened(i), QQQ |-> Opened(i)] :
     a \in PlanStocks, b \in {r \in PlanStocks : r[1].close = 106 \/ r[6].close = 115},
     i \in (Indices8 \ {Wild}) \cup {<<100, 101, 102, 103, 104, 103, 0, 0>>}}
  \cup {[A |-> a, B |-> a, SPY |-> Opened(None8), QQQ |-> Opened(None8)] : a \in PlanStocks}

Lot(t, side, q) == [ticker |-> t, side |-> side, quantity |-> q]
BookOf(lots, target) == [cash |-> 900, starting |-> 2000, lots |-> lots, target |-> target]
MCPlanBooks ==
  {BookOf(<<>>, -1), BookOf(<<>>, 300), BookOf(<<>>, 1500), BookOf(<<Lot("A", "LONG", 6)>>, -1),
   BookOf(<<Lot("A", "SHORT", 5), Lot("B", "LONG", 3)>>, -1)}
MCPlanModes == {"CONSENSUS", "AUTOMATIC"} \cup Registered

-----------------------------------------------------------------------------
(* Price cache: one stock, traded on days 2 to 4.                          *)

OneSymbol == {"T"}
MCListed == "T" :> <<2, 4>>
RequestOf(from, to, whole, needed, live) ==
  [from |-> from, to |-> to, whole |-> whole, needed |-> needed, live |-> live]
MCRequests == {RequestOf(1, 2, TRUE, {}, FALSE), RequestOf(2, 4, TRUE, {}, TRUE), RequestOf(1, 4, FALSE, {3}, TRUE)}
MCReplies == {{}, 1..4, {2, 4}}
MCFiles == {{}, {4}}

-----------------------------------------------------------------------------
(* Training: twelve days with holes in the stocks and in the indices.      *)

Stocks12 == {<<100, 102, 101, 103, 105, 104, 107, 103, 109, 102, 110, 108>>,
             <<100, 99, 98, 101, 97, 0, 96, 104, 95, 103, 94, 0>>,
             <<0, 0, 0, 100, 104, 0, 0, 0, 103, 102, 105, 106>>}
Spy12 == {<<100, 101, 102, 103, 104, 103, 104, 105, 106, 105, 104, 103>>,
          <<100, 101, 102, 103, 0, 0, 104, 103, 0, 102, 103, 105>>,
          <<110, 108, 0, 106, 105, 104, 103, 102, 101, 100, 99, 98>>}
Qqq12 == {<<100, 101, 102, 103, 104, 105, 104, 105, 106, 107, 106, 105>>,
          <<100, 0, 101, 102, 103, 104, 103, 102, 101, 0, 100, 99>>}
MCTrainFeeds == {[A |-> Growing(a), B |-> Growing(b), SPY |-> Growing(s), QQQ |-> Growing(q)] :
                   a, b \in Stocks12, s \in Spy12, q \in Qqq12}
MCTrainTasks ==
  {[kind |-> "period", start |-> d, target |-> "beats"] : d \in {3, 7, 10, 12}}
  \cup {[kind |-> "walk", start |-> 4, end |-> 12, target |-> t, train |-> 4, validate |-> 2,
         step |-> 1, rolling |-> r] : t \in {"beats", "positive", "gain"}, r \in BOOLEAN}
MCTrainMembers == [d \in 1..12 |-> IF d < 9 THEN {"A", "B"} ELSE {"B"}]

-----------------------------------------------------------------------------
(* Benchmark: a complete and a gapped load; orders that pass and that fail.*)

Quoted(missing) == [d \in 1..10 |-> IF d \in missing THEN [open |-> 0, close |-> 0, volume |-> 0]
                                    ELSE [open |-> 10, close |-> 10, volume |-> 1]]
MCBenchFeeds == {[A |-> Quoted(gap.A), SPY |-> Quoted(gap.SPY), QQQ |-> Quoted({})] :
                   gap \in {[A |-> {}, SPY |-> {}], [A |-> {3}, SPY |-> {7}], [A |-> {}, SPY |-> 6..8]}}
Asking(rules, models, tests) ==
  [rules |-> rules, switching |-> FALSE, models |-> models, tops |-> <<5>>, tests |-> tests,
   exploratory |-> FALSE, excluded |-> {}, pinned |-> FALSE, loads |-> {{}}]
MCBenchTasks ==
  {Asking(<<"Baseline">>, <<"Forest">>, 2),
   [Asking(<<>>, <<"Forest">>, 2) EXCEPT !.tops = <<5, 10>>, !.switching = TRUE, !.pinned = TRUE],
   Asking(<<"Baseline", "Unheard Of">>, <<"Forest">>, 2),
   Asking(<<"Baseline", "Baseline">>, <<"Forest">>, 1),
   [Asking(<<"Baseline">>, <<>>, 1) EXCEPT !.exploratory = TRUE, !.excluded = {"A"}, !.loads = {{}, {"A"}}],
   [Asking(<<"Baseline">>, <<"Forest">>, 1) EXCEPT !.excluded = {"A"}]}
MCSpyReturn == [d \in 1..10 |-> 5]

-----------------------------------------------------------------------------
researchVars == <<simVars, planVars, cacheVars, trainVars, benchVars>>

(* A part that does not run rests in one of its initial states.            *)
SimRests == /\ data = [t \in {"A", "B", "SPY", "QQQ"} |-> Opened(Rising)]
            /\ method = [kind |-> "adaptive", name |-> "adaptive", top |-> 1]
            /\ stage = "load" /\ date = StartDate /\ book = EmptyBook
PlanRests == /\ planMode = "AUTOMATIC" /\ planBook = BookOf(<<>>, -1) /\ planRegime = "NONE"
             /\ planFeed = [t \in {"A", "B", "SPY", "QQQ"} |-> <<>>] /\ planStage = "regime"
             /\ planOutputs = [name \in {} |-> NoPlan] /\ planQuotes = [t \in {} |-> NoQuote] /\ plan = NoPlan
TrainRests == /\ trainFeed = [t \in {"A", "B", "SPY", "QQQ"} |-> <<>>] /\ trainStage = "begin"
              /\ trainTask = [kind |-> "period", start |-> 3, target |-> "beats"]
              /\ trainDate = 0 /\ dataset = {} /\ fits = {}

ResearchInit ==
  /\ IF part = "simulation" THEN SimInit ELSE SimRests
  /\ IF part = "plan" THEN PlanInit ELSE PlanRests
  /\ IF part = "training" THEN TrainInit ELSE TrainRests
  /\ CacheInit /\ BenchInit /\ (part # "benchmark" => benchTask.rules = <<>>)

ResearchNext ==
  \/ part = "simulation" /\ SimNext /\ UNCHANGED <<planVars, cacheVars, trainVars, benchVars>>
  \/ part = "plan" /\ PlanNext /\ UNCHANGED <<simVars, cacheVars, trainVars, benchVars>>
  \/ part = "cache" /\ CacheNext /\ UNCHANGED <<simVars, planVars, trainVars, benchVars>>
  \/ part = "training" /\ TrainNext /\ UNCHANGED <<simVars, planVars, cacheVars, benchVars>>
  \/ part = "benchmark" /\ BenchNext /\ UNCHANGED <<simVars, planVars, cacheVars, trainVars>>

(* A simulation alone.                                                     *)
SwitchingSpec == /\ part = "simulation" /\ ResearchInit
                 /\ [][ResearchNext /\ UNCHANGED part]_<<part, researchVars>>
=============================================================================
