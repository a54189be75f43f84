-------------------------- MODULE SimulationProofs --------------------------
(* Proofs about the weekly simulation: whatever the prices, the stocks, the*)
(* methods and the fees, no selection looks ahead and no money appears.    *)
EXTENDS SimulationProperties, FiniteSums, SequenceTheorems

-----------------------------------------------------------------------------
(* Price data that agree on the rows before a day and on who is traded.    *)

Quoted_ == {"SPY", "QQQ"} \cup ToSet(Stocks)
SameView(P, Q, d) ==
  /\ \A t \in Quoted_ : \A n \in 0..d - 1 : SubSeq(P[t], 1, n) = SubSeq(Q[t], 1, n)
  /\ \A t \in Quoted_ : Eligible(P, t, d) = Eligible(Q, t, d)
  /\ \A b \in {"SPY", "QQQ"} : HasRows(P[b]) = HasRows(Q[b])
  /\ \A t \in Quoted_ : DOMAIN Before(P[t], d) \subseteq 1..d - 1

LEMMA SameBefore ==
  ASSUME NEW P, NEW Q, NEW d \in Nat \ {0}, SameView(P, Q, d), NEW t \in Quoted_
  PROVE  Before(P[t], d) = Before(Q[t], d)
  <1>1. d - 1 \in 0..d - 1
    OBVIOUS
  <1> QED BY <1>1 DEF Before, SameView

(* The day a stock was last closed on is before the date.                  *)
LEMMA AsOfBefore ==
  ASSUME NEW P, NEW Q, NEW d \in Nat \ {0}, SameView(P, Q, d), NEW t \in Quoted_,
         HasClose(Before(P[t], d))
  PROVE  AsOf(Before(P[t], d)) \in 0..d - 1
  <1> DEFINE rows == Before(P[t], d)
             known == {i \in DOMAIN rows : rows[i].close > 0}
  <1>1. known \subseteq 1..d - 1 /\ known # {}
    BY DEF HasClose, SameView
  <1>2. \A i \in known : i <= d
    BY <1>1
  <1>3. PICK i \in known : \A j \in known : j <= i
    <2>1. known \subseteq Nat
      BY <1>1
    <2> HIDE DEF known
    <2> QED BY <1>1, <1>2, <2>1, GreatestExists
  <1>4. AsOf(rows) = CHOOSE k \in known : \A j \in known : j <= k
    BY DEF AsOf
  <1>5. AsOf(rows) \in known
    <2> HIDE DEF known, rows
    <2> QED BY <1>3, <1>4
  <1> QED BY <1>1, <1>5

LEMMA SameRegimeUpTo ==
  ASSUME NEW P, NEW Q, NEW d \in Nat \ {0}, SameView(P, Q, d), NEW n \in 0..d - 1
  PROVE  RegimeUpTo(P, n) = RegimeUpTo(Q, n)
  <1>1. /\ SubSeq(P["SPY"], 1, n) = SubSeq(Q["SPY"], 1, n)
        /\ SubSeq(P["QQQ"], 1, n) = SubSeq(Q["QQQ"], 1, n)
    BY DEF SameView, Quoted_
  <1> QED BY <1>1 DEF RegimeUpTo

LEMMA SameDelegateAt ==
  ASSUME NEW P, NEW Q, NEW d \in Nat \ {0}, SameView(P, Q, d), NEW n \in 0..d - 1
  PROVE  DelegateAt(P, n) = DelegateAt(Q, n)
  <1>1. HasRows(P["SPY"]) = HasRows(Q["SPY"]) /\ HasRows(P["QQQ"]) = HasRows(Q["QQQ"])
    BY DEF SameView
  <1>2. RegimeUpTo(P, n) = RegimeUpTo(Q, n)
    BY SameRegimeUpTo
  <1> QED BY <1>1, <1>2 DEF DelegateAt

LEMMA SameScored ==
  ASSUME NEW P, NEW Q, NEW d \in Nat \ {0}, SameView(P, Q, d), NEW t \in Quoted_
  PROVE  Scored(P, t, d) = Scored(Q, t, d)
  <1>1. Before(P[t], d) = Before(Q[t], d)
    BY SameBefore
  <1>2. CASE ~HasClose(Before(P[t], d))
    BY <1>1, <1>2 DEF Scored
  <1>3. CASE HasClose(Before(P[t], d))
    <2>1. AsOf(Before(P[t], d)) \in 0..d - 1
      BY <1>3, AsOfBefore
    <2>2. RegimeUpTo(P, AsOf(Before(P[t], d))) = RegimeUpTo(Q, AsOf(Before(P[t], d)))
      BY <2>1, SameRegimeUpTo
    <2> QED BY <1>1, <2>2 DEF Scored
  <1> QED BY <1>2, <1>3

LEMMA SameSwitched ==
  ASSUME NEW P, NEW Q, NEW d \in Nat \ {0}, SameView(P, Q, d), NEW t \in Quoted_
  PROVE  Switched(P, t, d) = Switched(Q, t, d)
  <1>1. Before(P[t], d) = Before(Q[t], d)
    BY SameBefore
  <1>2. CASE ~HasClose(Before(P[t], d))
    BY <1>1, <1>2 DEF Switched
  <1>3. CASE HasClose(Before(P[t], d))
    <2> DEFINE rows == Before(P[t], d)
               name == DelegateAt(P, AsOf(rows))
    <2>1. AsOf(rows) \in 0..d - 1
      BY <1>3, AsOfBefore
    <2>2. name = DelegateAt(Q, AsOf(rows))
      BY <2>1, SameDelegateAt
    <2>3. SubSeq(P["QQQ"], 1, AsOf(rows)) = SubSeq(Q["QQQ"], 1, AsOf(rows))
      BY <2>1 DEF SameView, Quoted_
    <2>4. DelegateOf(P, name, t, rows) = DelegateOf(Q, name, t, rows)
      BY <2>3 DEF DelegateOf
    <2>5. Switched(P, t, d) = DelegateOf(P, name, t, rows)
      BY <1>3 DEF Switched
    <2>6. Switched(Q, t, d) = DelegateOf(Q, DelegateAt(Q, AsOf(rows)), t, rows)
      BY <1>1, <1>3 DEF Switched
    <2> QED BY <2>2, <2>4, <2>5, <2>6
  <1> QED BY <1>2, <1>3

(* A stock of the universe is quoted.                                      *)
LEMMA SameFactor ==
  ASSUME NEW P, NEW Q, NEW d \in Nat \ {0}, SameView(P, Q, d), NEW u \in Seq(Quoted_)
  PROVE  /\ Analyzed(P, u, d) = Analyzed(Q, u, d)
         /\ SwitchFactor(P, u, d) = SwitchFactor(Q, u, d)
  <1>1. Analyzed(P, u, d) = Analyzed(Q, u, d)
    <2>1. ASSUME NEW i \in DOMAIN u
          PROVE  /\ Eligible(P, u[i], d) = Eligible(Q, u[i], d)
                 /\ Before(P[u[i]], d) = Before(Q[u[i]], d)
      <3>1. Eligible(P, u[i], d) = Eligible(Q, u[i], d)
        BY DEF SameView
      <3> QED BY <3>1, SameBefore
    <2> QED BY <2>1 DEF Analyzed
  <1>2. ASSUME NEW i \in Analyzed(P, u, d)
        PROVE  LastDelegate(P, u[i], d) = LastDelegate(Q, u[i], d)
    <2>1. u[i] \in Quoted_ /\ HasClose(Before(P[u[i]], d))
      BY <1>2 DEF Analyzed
    <2>2. AsOf(Before(P[u[i]], d)) \in 0..d - 1
      BY <2>1, AsOfBefore
    <2>3. Before(P[u[i]], d) = Before(Q[u[i]], d)
      BY <2>1, SameBefore
    <2>4. DelegateAt(P, AsOf(Before(P[u[i]], d))) = DelegateAt(Q, AsOf(Before(P[u[i]], d)))
      BY <2>2, SameDelegateAt
    <2> QED BY <2>3, <2>4 DEF LastDelegate
  <1> DEFINE asked == Analyzed(P, u, d)
             last == CHOOSE i \in asked : \A j \in asked : j <= i
  <1>3. asked # {} => last \in asked
    <2>1. asked \subseteq Nat /\ \A i \in asked : i <= Len(u)
      BY DEF Analyzed
    <2>2. Len(u) \in Nat
      OBVIOUS
    <2> HIDE DEF asked
    <2>3. asked # {} => \E i \in asked : \A j \in asked : j <= i
      BY <2>1, <2>2, GreatestExists
    <2> QED BY <2>3
  <1>4. SwitchFactor(P, u, d) = IF asked = {} THEN "none" ELSE TieFactor(LastDelegate(P, u[last], d))
    BY DEF SwitchFactor
  <1>5. SwitchFactor(Q, u, d) = IF asked = {} THEN "none" ELSE TieFactor(LastDelegate(Q, u[last], d))
    BY <1>1 DEF SwitchFactor
  <1>6. asked # {} => LastDelegate(P, u[last], d) = LastDelegate(Q, u[last], d)
    <2> HIDE DEF last
    <2> QED BY <1>2, <1>3
  <1> HIDE DEF asked, last
  <1> QED BY <1>1, <1>4, <1>5, <1>6 DEF asked

-----------------------------------------------------------------------------
(* What each method selects depends on the view alone.                     *)

LEMMA SameStrategySelects ==
  ASSUME NEW P, NEW Q, NEW d \in Nat \ {0}, SameView(P, Q, d), NEW name,
         Universe(d) \in Seq(Quoted_)
  PROVE  StrategySelects(P, name, d) = StrategySelects(Q, name, d)
  <1> DEFINE u == Universe(d)
             chosen(R) == {b \in PreferredBenchmark(name) : HasRows(R[b])}
             index(R) == IF chosen(R) = {} THEN "SPY" ELSE CHOOSE b \in chosen(R) : TRUE
             at(R, i) == IF Eligible(R, u[i], d)
                         THEN Analyze(name, u[i], Before(R[u[i]], d), Before(R[index(R)], d))
                         ELSE Nothing
  <1>1. chosen(P) = chosen(Q) /\ chosen(P) \subseteq {"QQQ"}
    <2>1. PreferredBenchmark(name) \subseteq {"QQQ"}
      BY DEF PreferredBenchmark
    <2> QED BY <2>1 DEF SameView
  <1>2. index(P) = index(Q) /\ index(P) \in Quoted_
    <2>1. chosen(P) # {} => (CHOOSE b \in chosen(P) : TRUE) = "QQQ"
      BY <1>1
    <2> QED BY <1>1, <2>1 DEF Quoted_
  <1>3. Before(P[index(P)], d) = Before(Q[index(Q)], d)
    <2> HIDE DEF index
    <2> QED BY <1>2, SameBefore
  <1>4. ASSUME NEW i \in DOMAIN u
        PROVE  at(P, i) = at(Q, i)
    <2>1. Eligible(P, u[i], d) = Eligible(Q, u[i], d)
      BY DEF SameView
    <2>2. Before(P[u[i]], d) = Before(Q[u[i]], d)
      BY SameBefore
    <2> HIDE DEF index, u
    <2> QED BY <1>3, <2>1, <2>2
  <1>5. [i \in DOMAIN u |-> at(P, i)] = [i \in DOMAIN u |-> at(Q, i)]
    <2> HIDE DEF at, u
    <2> QED BY <1>4
  <1>6. \A R : Observed(R, name, u, d, "SPY") = [i \in DOMAIN u |-> at(R, i)]
    BY DEF Observed
  <1>7. Observed(P, name, u, d, "SPY") = Observed(Q, name, u, d, "SPY")
    <2> HIDE DEF at, u
    <2> QED BY <1>5, <1>6
  <1> QED BY <1>7 DEF StrategySelects

LEMMA SameLearnedSelects ==
  ASSUME NEW P, NEW Q, NEW d \in Nat \ {0}, SameView(P, Q, d),
         Universe(d) \in Seq(Quoted_)
  PROVE  LearnedSelects(P, d) = LearnedSelects(Q, d)
  <1> DEFINE u == Universe(d)
             at(R, i) == IF Eligible(R, u[i], d) THEN Scored(R, u[i], d) ELSE Nothing
  <1>1. ASSUME NEW i \in DOMAIN u
        PROVE  at(P, i) = at(Q, i)
    <2>1. Eligible(P, u[i], d) = Eligible(Q, u[i], d)
      BY DEF SameView
    <2>2. Scored(P, u[i], d) = Scored(Q, u[i], d)
      BY SameScored
    <2> QED BY <2>1, <2>2
  <1>2. [i \in DOMAIN u |-> at(P, i)] = [i \in DOMAIN u |-> at(Q, i)]
    <2> HIDE DEF at, u
    <2> QED BY <1>1
  <1>3. \A R : LearnedSelects(R, d) = Tickers_(Ranked([i \in DOMAIN u |-> at(R, i)], "none"))
    BY DEF LearnedSelects
  <1> HIDE DEF at, u
  <1> QED BY <1>2, <1>3

LEMMA SameSwitchSelects ==
  ASSUME NEW P, NEW Q, NEW d \in Nat \ {0}, SameView(P, Q, d),
         Universe(d) \in Seq(Quoted_)
  PROVE  SwitchSelects(P, d) = SwitchSelects(Q, d)
  <1> DEFINE u == Universe(d)
             at(R, i) == IF Eligible(R, u[i], d) THEN Switched(R, u[i], d) ELSE Nothing
  <1>1. ASSUME NEW i \in DOMAIN u
        PROVE  at(P, i) = at(Q, i)
    <2>1. Eligible(P, u[i], d) = Eligible(Q, u[i], d)
      BY DEF SameView
    <2>2. Switched(P, u[i], d) = Switched(Q, u[i], d)
      BY SameSwitched
    <2> QED BY <2>1, <2>2
  <1>2. [i \in DOMAIN u |-> at(P, i)] = [i \in DOMAIN u |-> at(Q, i)]
    <2> HIDE DEF at, u
    <2> QED BY <1>1
  <1>3. SwitchFactor(P, u, d) = SwitchFactor(Q, u, d)
    BY SameFactor
  <1>4. \A R : SwitchSelects(R, d) =
                 RankedBy([i \in DOMAIN u |-> at(R, i)], SwitchFactor(R, u, d))
    BY DEF SwitchSelects
  <1> HIDE DEF at, u
  <1> QED BY <1>2, <1>3, <1>4

LEMMA SameAdaptiveSelects ==
  ASSUME NEW P, NEW Q, NEW d \in Nat \ {0}, SameView(P, Q, d),
         Universe(d) \in Seq(Quoted_)
  PROVE  AdaptiveSelects(P, d) = AdaptiveSelects(Q, d)
  <1> DEFINE u == ToSet(Universe(d))
  <1>1. /\ Before(P["SPY"], d) = Before(Q["SPY"], d)
        /\ Before(P["QQQ"], d) = Before(Q["QQQ"], d)
        /\ \A t \in u : Before(P[t], d) = Before(Q[t], d)
    <2>1. {"SPY", "QQQ"} \cup u \subseteq Quoted_
      BY DEF ToSet, Quoted_
    <2> QED BY <2>1, SameBefore
  <1>2. Measured(P, u, d) = Measured(Q, u, d)
    BY <1>1 DEF Measured
  <1>3. [t \in Measured(P, u, d) |-> Closes(Before(P[t], d))] =
          [t \in Measured(Q, u, d) |-> Closes(Before(Q[t], d))]
    <2>1. Measured(P, u, d) \subseteq u
      BY DEF Measured
    <2> HIDE DEF u
    <2> QED BY <1>1, <1>2, <2>1
  <1>4. Breadth(P, u, d) = Breadth(Q, u, d)
    <2> HIDE DEF u
    <2> QED BY <1>2, <1>3 DEF Breadth
  <1>5. StrategySelects(P, "Controlled Breakout V1", d) = StrategySelects(Q, "Controlled Breakout V1", d)
    BY SameStrategySelects
  <1> DEFINE spy == Before(P["SPY"], d)
             qqq == Before(P["QQQ"], d)
             count(R) == Count(R, RegimeOf(spy, qqq), Closes(spy), Closes(qqq), d)
  <1>6. count(P) = count(Q)
    BY <1>4 DEF Count
  <1>7. \A n : Adaptive(P, n, d) = Adaptive(Q, n, d)
    BY <1>5 DEF Adaptive
  <1>8. AdaptiveSelects(P, d) = Adaptive(P, count(P), d) /\ AdaptiveSelects(Q, d) = Adaptive(Q, count(Q), d)
    BY <1>1 DEF AdaptiveSelects
  <1> HIDE DEF count
  <1> QED BY <1>6, <1>7, <1>8

LEMMA SameSelects ==
  ASSUME NEW P, NEW Q, NEW d \in Nat \ {0}, SameView(P, Q, d), Universe(d) \in Seq(Quoted_)
  PROVE  Selects(P, d) = Selects(Q, d)
  <1>1. /\ StrategySelects(P, method.name, d) = StrategySelects(Q, method.name, d)
        /\ LearnedSelects(P, d) = LearnedSelects(Q, d)
        /\ SwitchSelects(P, d) = SwitchSelects(Q, d)
        /\ AdaptiveSelects(P, d) = AdaptiveSelects(Q, d)
    BY SameStrategySelects, SameLearnedSelects, SameSwitchSelects, SameAdaptiveSelects
  <1> QED BY <1>1 DEF Selects

-----------------------------------------------------------------------------
(* The prices keep their shape, and the date stays in the period.          *)

RowType == [open : Nat, close : Nat, volume : Int]
Loaded(prices) ==
  /\ prices \in [Quoted_ -> Seq(RowType)]
  /\ \A t \in Quoted_ : Len(prices[t]) = EndDate
SimInv == Loaded(data) /\ date \in StartDate..EndDate + 1

LEMMA Dates == StartDate \in Nat \ {0} /\ EndDate \in Nat \ {0} /\ StartDate < EndDate
  BY SimulationAssumption

LEMMA FeedsAreLoaded ==
  ASSUME NEW feed \in Feeds
  PROVE  Loaded(feed)
  BY SimulationAssumption DEF Loaded, Quoted_, RowType

(* Reading a row of the view: only its open is kept on the date.           *)
LEMMA HiddenRow ==
  ASSUME Loaded(data), date \in StartDate..EndDate, NEW t \in Quoted_
  PROVE  /\ DOMAIN Hidden[t] = 1..EndDate /\ DOMAIN data[t] = 1..EndDate
         /\ \A i \in 1..date - 1 : Hidden[t][i] = data[t][i]
         /\ Hidden[t][date].open = data[t][date].open
         /\ \A i \in 1..EndDate : Present(Hidden[t][i]) => Present(data[t][i])
  <1>1. DOMAIN data = Quoted_ /\ data[t] \in Seq(RowType) /\ Len(data[t]) = EndDate
    BY DEF Loaded
  <1>2. DOMAIN data[t] = 1..EndDate /\ \A i \in 1..EndDate : data[t][i] \in RowType
    BY <1>1
  <1> DEFINE hide(i) == IF i < date THEN data[t][i]
               ELSE [open |-> IF i = date THEN data[t][i].open ELSE 0,
                     close |-> IF i = date /\ data[t][i].close > 0 THEN 2 * data[t][i].close ELSE 0,
                     volume |-> 0]
  <1>3. Hidden[t] = [i \in 1..EndDate |-> hide(i)]
    BY <1>1, <1>2 DEF Hidden
  <1>4. DOMAIN Hidden[t] = 1..EndDate /\ \A i \in 1..EndDate : Hidden[t][i] = hide(i)
    <2> HIDE DEF hide
    <2> QED BY <1>3
  <1>5. date \in Nat \ {0} /\ 1..date - 1 \subseteq 1..EndDate /\ date \in 1..EndDate
    BY Dates
  <1>6. \A i \in 1..date - 1 : hide(i) = data[t][i]
    BY <1>5
  <1>7. hide(date).open = data[t][date].open
    BY <1>5
  <1>8. \A i \in 1..EndDate : Present(hide(i)) => Present(data[t][i])
    BY <1>2, <1>5 DEF Present, RowType
  <1> HIDE DEF hide
  <1> QED BY <1>2, <1>4, <1>5, <1>6, <1>7, <1>8

LEMMA SameOnHidden ==
  ASSUME Loaded(data), date \in StartDate..EndDate, Begun
  PROVE  SameView(data, Hidden, date)
  <1>1. date \in Nat \ {0} /\ 1..date - 1 \subseteq 1..EndDate /\ date \in 1..EndDate
    BY Dates
  <1>2. ASSUME NEW t \in Quoted_, NEW n \in 0..date - 1
        PROVE  SubSeq(data[t], 1, n) = SubSeq(Hidden[t], 1, n)
    <2>1. \A i \in 1..n : data[t][i] = Hidden[t][i]
      BY <1>1, HiddenRow
    <2>2. /\ SubSeq(data[t], 1, n) = [i \in 1..n |-> data[t][i]]
          /\ SubSeq(Hidden[t], 1, n) = [i \in 1..n |-> Hidden[t][i]]
      BY <1>1
    <2> QED BY <2>1, <2>2
  <1>3. ASSUME NEW t \in Quoted_
        PROVE  Eligible(data, t, date) = Eligible(Hidden, t, date)
    <2>1. /\ Hidden[t][date].open = data[t][date].open
          /\ date \in DOMAIN Hidden[t] /\ date \in DOMAIN data[t]
      BY <1>1, HiddenRow
    <2>2. /\ data[t][date].open > 0 => HasRows(data[t])
          /\ Hidden[t][date].open > 0 => HasRows(Hidden[t])
      BY <2>1 DEF HasRows
    <2> QED BY <2>1, <2>2 DEF Eligible, TradePrice
  <1>4. ASSUME NEW b \in {"SPY", "QQQ"}
        PROVE  HasRows(data[b]) = HasRows(Hidden[b])
    <2>1. b \in Quoted_
      BY DEF Quoted_
    <2>2. ASSUME HasRows(data[b])
          PROVE  HasRows(Hidden[b])
      <3>1. HasRows(Before(data[b], date))
        BY <2>2 DEF Begun
      <3>2. Before(data[b], date) = Before(Hidden[b], date)
        BY <1>1, <1>2, <2>1 DEF Before
      <3>3. Before(Hidden[b], date) = [i \in 1..date - 1 |-> Hidden[b][i]]
        BY <1>1 DEF Before
      <3>4. PICK i \in 1..date - 1 : Hidden[b][i].open > 0 \/ Hidden[b][i].close > 0
        BY <3>1, <3>2, <3>3 DEF HasRows
      <3>5. i \in DOMAIN Hidden[b]
        BY <1>1, <2>1, HiddenRow
      <3> QED BY <3>4, <3>5 DEF HasRows
    <2>3. ASSUME HasRows(Hidden[b])
          PROVE  HasRows(data[b])
      <3>1. /\ DOMAIN Hidden[b] = 1..EndDate /\ DOMAIN data[b] = 1..EndDate
            /\ \A i \in 1..EndDate : Present(Hidden[b][i]) => Present(data[b][i])
        BY <2>1, HiddenRow
      <3> QED BY <2>3, <3>1 DEF HasRows, Present
    <2> QED BY <2>2, <2>3 DEF HasRows
  <1>5. ASSUME NEW t \in Quoted_
        PROVE  DOMAIN Before(data[t], date) \subseteq 1..date - 1
    BY <1>1 DEF Before
  <1> QED BY <1>2, <1>3, <1>4, <1>5 DEF SameView

LEMMA InvSelectsTheSame ==
  ASSUME SimInv
  PROVE  NoLookAhead
  <1> SUFFICES ASSUME date \in SimulationDates, Begun
               PROVE  Selects(data, date) = Selects(Hidden, date)
    BY DEF NoLookAhead
  <1>1. date \in StartDate..EndDate /\ date \in Nat \ {0}
    BY Dates DEF SimulationDates
  <1>2. SameView(data, Hidden, date)
    BY <1>1, SameOnHidden DEF SimInv
  <1>3. Universe(date) \in Seq(Quoted_)
    <2>1. Members[date] \in Seq(ToSet(Stocks)) /\ ToSet(Stocks) \subseteq Quoted_
      BY <1>1, SimulationAssumption DEF Quoted_
    <2> HIDE DEF Quoted_
    <2> QED BY <2>1 DEF Universe
  <1> QED BY <1>1, <1>2, <1>3, SameSelects

LEMMA SimInit_ == SimInit => SimInv
  BY Dates, FeedsAreLoaded DEF SimInit, SimInv

LEMMA SimStep ==
  ASSUME SimInv, [SimNext]_simVars
  PROVE  SimInv'
  <1>1. CASE Load
    <2>1. date' = date
      BY <1>1 DEF Load
    <2>2. CASE data' = data
      BY <2>1, <2>2 DEF SimInv, Loaded, Quoted_
    <2>3. CASE data' # data
      <3>1. PICK feed \in Feeds : data' = [data EXCEPT !["SPY"] = feed["SPY"]]
        BY <1>1, <2>3 DEF Load
      <3>2. Loaded(feed)
        BY FeedsAreLoaded
      <3>3. "SPY" \in Quoted_
        BY DEF Quoted_
      <3>4. Loaded(data')
        BY <3>1, <3>2, <3>3 DEF SimInv, Loaded
      <3> QED BY <2>1, <3>4 DEF SimInv, Loaded, Quoted_
    <2> QED BY <2>2, <2>3
  <1>2. CASE Skip
    BY <1>2, Dates DEF Skip, SimInv, Loaded, Quoted_
  <1>3. CASE Simulate
    <2>1. date \in StartDate..EndDate /\ data' = data /\ (date' = date \/ date' = date + 1)
      BY <1>3 DEF Simulate, Day, SimulationDates
    <2> QED BY <2>1, Dates DEF SimInv, Loaded, Quoted_
  <1>4. CASE Finish
    BY <1>4 DEF Finish, SimInv, Loaded, Quoted_
  <1>5. CASE UNCHANGED simVars
    BY <1>5 DEF simVars, SimInv, Loaded, Quoted_
  <1> QED BY <1>1, <1>2, <1>3, <1>4, <1>5 DEF SimNext

(* The invariant the selections rest on: the prices loaded are rows of every*)
(* stock and index, and the day is one of the period or the one after it.  *)
THEOREM SimInvariant == SimSpec => []SimInv
  <1> QED BY SimInit_, SimStep, PTL DEF SimSpec

(* No selection of a rebalance depends on what is not yet known then.      *)
THEOREM SelectsWithoutLookAhead == SimSpec => []NoLookAhead
  <1> QED BY SimInvariant, InvSelectsTheSame, PTL

-----------------------------------------------------------------------------
(* Folds over a sequence take its last place out first.                     *)
LEMMA MaxIs ==
  ASSUME NEW n \in Nat, NEW s \in SUBSET (1..n), s # {}
  PROVE  Max(s) \in s /\ \A i \in s : i <= Max(s)
  <1>1. s \subseteq Nat /\ \A x \in s : x <= n
    OBVIOUS
  <1>2. \E x \in s : \A y \in s : x >= y
    <2>1. PICK x \in s : \A y \in s : y <= x
      BY <1>1, GreatestExists
    <2> QED BY <1>1, <2>1
  <1>3. Max(s) \in s /\ \A y \in s : Max(s) >= y
    BY <1>2 DEF Max
  <1> QED BY <1>1, <1>3

LEMMA MinIs ==
  ASSUME NEW s, s \subseteq Nat, s # {}
  PROVE  Min(s) \in s /\ \A i \in s : Min(s) <= i
  <1>1. \E x \in s : \A y \in s : x =< y
    BY LeastExists
  <1> QED BY <1>1 DEF Min

LastOf(S) == [u \in SUBSET S |-> Max(u)]
LEMMA LastOfIs ==
  ASSUME NEW n \in Nat
  PROVE  \A u \in SUBSET (1..n) : u # {} => LastOf(1..n)[u] \in u
  BY MaxIs DEF LastOf

LEMMA TotalIsSum ==
  ASSUME NEW s \in Seq(Int)
  PROVE  Total(s) = Sum(s, DOMAIN s) /\ Total(s) \in Int
  <1> DEFINE S == DOMAIN s
             Iterates(F) == F = [u \in SUBSET S |->
                                  IF u = {} THEN 0 ELSE F[u \ {Max(u)}] + s[Max(u)]]
  <1>1. Total(s) = (CHOOSE F : Iterates(F))[S]
    BY DEF Total, FoldLeft, MapThenFoldSet
  <1>2. ASSUME NEW F
        PROVE  Iterates(F) <=> SumsBy(s, S, LastOf(S), F)
    BY DEF SumsBy, LastOf
  <1>3. IsFiniteSet(S) /\ \A x \in S : s[x] \in Int
    BY Intervals
  <1>4. \A u \in SUBSET S : u # {} => LastOf(S)[u] \in u
    BY LastOfIs
  <1> HIDE DEF S, Iterates
  <1>5. /\ \E F : SumsBy(s, S, LastOf(S), F)
        /\ \A F : SumsBy(s, S, LastOf(S), F) => F[S] = Sum(s, S)
    BY <1>3, <1>4, SumsByChoice
  <1>6. Sum(s, S) \in Int
    BY <1>3, SumTakes
  <1>7. (CHOOSE F : Iterates(F))[S] = Sum(s, S)
    BY <1>2, <1>5
  <1> QED BY <1>1, <1>6, <1>7 DEF S

LEMMA TotalAppend ==
  ASSUME NEW s \in Seq(Int), NEW x \in Int
  PROVE  Total(Append(s, x)) = Total(s) + x /\ Append(s, x) \in Seq(Int)
  <1> DEFINE t == Append(s, x)
             n == Len(s)
  <1>1. t \in Seq(Int) /\ n \in Nat
    OBVIOUS
  <1>2. DOMAIN t = 1..n + 1 /\ DOMAIN s = 1..n /\ t[n + 1] = x /\ \A i \in 1..n : t[i] = s[i]
    OBVIOUS
  <1>3. (1..n + 1) \ {n + 1} = 1..n /\ n + 1 \in 1..n + 1
    BY <1>1
  <1>4. IsFiniteSet(1..n + 1) /\ IsFiniteSet(1..n)
    <2>1. n + 1 \in Nat
      BY <1>1
    <2> HIDE DEF n
    <2> QED BY <1>1, <2>1, Intervals
  <1>5. \A i \in 1..n + 1 : t[i] \in Int
    BY <1>1, <1>2
  <1> HIDE DEF t, n
  <1>6. Sum(t, 1..n + 1) = t[n + 1] + Sum(t, (1..n + 1) \ {n + 1})
    BY <1>3, <1>4, <1>5, SumTakes
  <1>7. Sum(t, 1..n) = Sum(s, 1..n)
    BY <1>2, <1>4, SumSame
  <1>8. Total(t) = Sum(t, DOMAIN t) /\ Total(s) = Sum(s, DOMAIN s) /\ Total(s) \in Int
    BY <1>1, TotalIsSum
  <1>9. Total(t) = x + Total(s)
    BY <1>2, <1>3, <1>6, <1>7, <1>8
  <1> QED BY <1>1, <1>8, <1>9 DEF t

(* A fold whose steps stay in a set.                                        *)
Steps_(op, base, n, F) ==
  F = [u \in SUBSET (1..n) |-> IF u = {} THEN base ELSE op[<<F[u \ {Max(u)}], Max(u)>>]]

LEMMA StepsStay ==
  ASSUME NEW n \in Nat, NEW X, NEW F, F[{}] \in X,
         \A u \in SUBSET (1..n) : u # {} /\ F[u \ {Max(u)}] \in X => F[u] \in X
  PROVE  \A u \in SUBSET (1..n) : F[u] \in X
  <1> DEFINE S == 1..n
             pick == LastOf(S)
             B == [u \in SUBSET S |-> X]
  <1>1. IsFiniteSet(S) /\ \A u \in SUBSET S : u # {} => pick[u] \in u
    BY Intervals, LastOfIs
  <1>2. \A u \in SUBSET S : B[u] = X /\ pick[u] = Max(u)
    BY DEF LastOf
  <1>3. \A u \in SUBSET S : u # {} /\ F[u \ {Max(u)}] \in X => F[u] \in X
    OBVIOUS
  <1> HIDE DEF S, pick, B
  <1>4. \A u \in SUBSET S :
          u # {} /\ F[u \ {pick[u]}] \in B[u \ {pick[u]}] => F[u] \in B[u]
    BY <1>1, <1>2, <1>3
  <1>5. F[{}] \in B[{}]
    BY <1>2
  <1>6. \A u \in SUBSET S : F[u] \in B[u]
    BY <1>1, <1>4, <1>5, FoldsKeep
  <1> QED BY <1>2, <1>6 DEF S

LEMMA StepsExist ==
  ASSUME NEW n \in Nat, NEW X, NEW base \in X, NEW op,
         \A x \in X : \A i \in 1..n : op[<<x, i>>] \in X
  PROVE  \E F : Steps_(op, base, n, F) /\ \A u \in SUBSET (1..n) : F[u] \in X
  <1> DEFINE S == 1..n
             pick == LastOf(S)
  <1>1. ASSUME NEW F
        PROVE  Steps_(op, base, n, F) <=> Folded(op, base, S, pick, F)
    BY DEF Steps_, Folded, LastOf
  <1>2. IsFiniteSet(S) /\ \A u \in SUBSET S : u # {} => pick[u] \in u
    BY Intervals, LastOfIs
  <1> HIDE DEF S, pick
  <1>3. PICK F : Folded(op, base, S, pick, F)
    BY <1>2, FoldsExist
  <1>4. Steps_(op, base, n, F)
    BY <1>1, <1>3
  <1>5. F[{}] = base /\ \A u \in SUBSET (1..n) : u # {} => F[u] = op[<<F[u \ {Max(u)}], Max(u)>>]
    BY <1>4 DEF Steps_
  <1>6. \A u \in SUBSET (1..n) : u # {} /\ F[u \ {Max(u)}] \in X => F[u] \in X
    <2>1. \A u \in SUBSET (1..n) : u # {} => Max(u) \in 1..n
      BY MaxIs
    <2> QED BY <1>5, <2>1
  <1>7. F[{}] \in X
    BY <1>5
  <1>8. \A u \in SUBSET (1..n) : F[u] \in X
    BY <1>6, <1>7, StepsStay
  <1> QED BY <1>4, <1>8

-----------------------------------------------------------------------------
(* What is selected are stocks of the universe.                             *)

Tradable == ToSet(Stocks)

LEMMA InsertedStays ==
  ASSUME NEW C, NEW s \in Seq(C), NEW r \in C, NEW behind \in SUBSET (DOMAIN s)
  PROVE  Inserted(s, r, behind) \in Seq(C)
  <1> DEFINE k == IF behind = {} THEN Len(s) + 1 ELSE Min(behind)
  <1>1. k \in 1..Len(s) + 1
    <2>1. CASE behind = {}
      BY <2>1
    <2>2. CASE behind # {}
      <3>1. behind \subseteq Nat /\ behind \subseteq 1..Len(s)
        OBVIOUS
      <3>2. Min(behind) \in behind
        BY <2>2, <3>1, MinIs
      <3> QED BY <2>2, <3>1, <3>2
    <2> QED BY <2>1, <2>2
  <1>2. Inserted(s, r, behind) = InsertAt(s, k, r)
    BY DEF Inserted
  <1> HIDE DEF k
  <1>3. SubSeq(s, 1, k - 1) \in Seq(C) /\ SubSeq(s, k, Len(s)) \in Seq(C)
    BY <1>1
  <1> QED BY <1>2, <1>3 DEF InsertAt

LEMMA RankedTakes ==
  ASSUME NEW n \in Nat, NEW results, DOMAIN results = 1..n, NEW factor, NEW H,
         \A i \in 1..n : results[i].signal = "BUY" => results[i].ticker \in H
  PROVE  Tickers_(Ranked(results, factor)) \in Seq(H)
  <1> DEFINE C == {results[i] : i \in {j \in 1..n : results[j].signal = "BUY"}}
             X == Seq(C)
             placed(s, i) == IF results[i].signal # "BUY" THEN s
               ELSE Inserted(s, results[i], {j \in DOMAIN s : RankedAbove(results[i], s[j], factor)})
             op == [p \in X \X (1..n) |-> placed(p[1], p[2])]
             Iterates(F) == F = [u \in SUBSET (1..n) |->
                                  IF u = {} THEN <<>> ELSE placed(F[u \ {Max(u)}], Max(u))]
  <1>1. Ranked(results, factor) = (CHOOSE F : Iterates(F))[1..n]
    BY DEF Ranked, FoldLeft, MapThenFoldSet
  <1>2. ASSUME NEW s \in X, NEW i \in 1..n
        PROVE  placed(s, i) \in X
    <2>1. {j \in DOMAIN s : RankedAbove(results[i], s[j], factor)} \in SUBSET (DOMAIN s)
      OBVIOUS
    <2>2. results[i].signal = "BUY" => results[i] \in C
      OBVIOUS
    <2> HIDE DEF C
    <2> QED BY <2>1, <2>2, InsertedStays
  <1>3. \A s \in X : \A i \in 1..n : op[<<s, i>>] = placed(s, i)
    <2> HIDE DEF X, placed
    <2> QED OBVIOUS
  <1>4. <<>> \in X
    OBVIOUS
  <1>5. \A c \in C : c.ticker \in H
    OBVIOUS
  <1> HIDE DEF op, placed, C
  <1>6. \E F : Steps_(op, <<>>, n, F) /\ \A u \in SUBSET (1..n) : F[u] \in X
    <2>1. \A s \in X : \A i \in 1..n : op[<<s, i>>] \in X
      BY <1>2, <1>3
    <2> HIDE DEF X
    <2> QED BY <1>4, <2>1, StepsExist
  <1> HIDE DEF X
  <1>7. \A u \in SUBSET (1..n) : u # {} => Max(u) \in 1..n /\ u \ {Max(u)} \in SUBSET (1..n)
    BY MaxIs
  <1>8. \E F : Iterates(F)
    <2>1. PICK F : Steps_(op, <<>>, n, F) /\ \A u \in SUBSET (1..n) : F[u] \in X
      BY <1>6
    <2>2. ASSUME NEW u \in SUBSET (1..n), u # {}
          PROVE  op[<<F[u \ {Max(u)}], Max(u)>>] = placed(F[u \ {Max(u)}], Max(u))
      BY <1>3, <1>7, <2>1, <2>2
    <2>3. Iterates(F)
      BY <2>1, <2>2 DEF Steps_
    <2> QED BY <2>3
  <1>9. ASSUME NEW F, Iterates(F)
        PROVE  F[1..n] \in X
    <2>1. F[{}] = <<>> /\ \A u \in SUBSET (1..n) : u # {} => F[u] = placed(F[u \ {Max(u)}], Max(u))
      BY <1>9
    <2>2. \A u \in SUBSET (1..n) : u # {} /\ F[u \ {Max(u)}] \in X => F[u] \in X
      BY <1>2, <1>7, <2>1
    <2>3. F[{}] \in X
      BY <1>4, <2>1
    <2>4. \A u \in SUBSET (1..n) : F[u] \in X
      BY <2>2, <2>3, StepsStay
    <2> QED BY <2>4
  <1> HIDE DEF Iterates
  <1>10. Ranked(results, factor) \in Seq(C)
    BY <1>1, <1>8, <1>9 DEF X
  <1> QED BY <1>5, <1>10 DEF Tickers_

LEMMA AnalyzedTicker ==
  ASSUME NEW name \in Registered, NEW t, NEW h, NEW benchmark,
         Analyze(name, t, h, benchmark).signal = "BUY"
  PROVE  Analyze(name, t, h, benchmark).ticker = t
  <1> DEFINE IsFor(r) == r = Nothing \/ \E signal, score, tie : r = Answer(t, signal, score, tie)
  <1>1. ASSUME NEW c, NEW v, NEW b
        PROVE  /\ IsFor(Baseline(t, c)) /\ IsFor(MomentumV2(t, c))
               /\ IsFor(AggressiveMomentum(t, c, v)) /\ IsFor(RelativeStrength(t, c, b))
               /\ IsFor(BreakoutVolume(t, c, v)) /\ IsFor(MeanReversion(t, c))
    <2>1. IsFor(Baseline(t, c))
      BY DEF Baseline
    <2>2. IsFor(MomentumV2(t, c))
      BY DEF MomentumV2
    <2>3. IsFor(AggressiveMomentum(t, c, v))
      BY DEF AggressiveMomentum
    <2>4. IsFor(RelativeStrength(t, c, b))
      BY DEF RelativeStrength
    <2>5. IsFor(BreakoutVolume(t, c, v))
      BY DEF BreakoutVolume
    <2>6. IsFor(MeanReversion(t, c))
      BY DEF MeanReversion, Reverted
    <2> QED BY <2>1, <2>2, <2>3, <2>4, <2>5, <2>6
  <1>2. ASSUME NEW r, IsFor(r), NEW c
        PROVE  Controlled(r, c) = Nothing \/ Controlled(r, c).ticker = t
    <2>1. CASE r = Nothing
      BY <2>1 DEF Controlled
    <2>2. CASE r # Nothing
      <3>1. PICK signal, score, tie : r = Answer(t, signal, score, tie)
        BY <1>2, <2>2
      <3> QED BY <2>2, <3>1 DEF Controlled, Answer
    <2> QED BY <2>1, <2>2
  <1> DEFINE answer == Analyze(name, t, h, benchmark)
  <1>3. IsFor(answer) \/ \E r, c : IsFor(r) /\ answer = Controlled(r, c)
    <2> HIDE DEF IsFor
    <2> QED BY <1>1 DEF Analyze, Registered
  <1>4. answer = Nothing \/ answer.ticker = t
    <2>1. CASE IsFor(answer)
      <3> HIDE DEF answer
      <3> QED BY <2>1 DEF Answer
    <2>2. CASE ~IsFor(answer)
      <3> HIDE DEF answer, IsFor
      <3> QED BY <1>2, <1>3, <2>2
    <2> QED BY <2>1, <2>2
  <1> HIDE DEF answer
  <1> QED BY <1>4 DEF Nothing, answer

LEMMA UniverseIsHeld ==
  ASSUME NEW d \in StartDate..EndDate
  PROVE  /\ Universe(d) \in Seq(Tradable) /\ Len(Universe(d)) \in Nat
         /\ DOMAIN Universe(d) = 1..Len(Universe(d))
         /\ \A i \in 1..Len(Universe(d)) : Universe(d)[i] \in Tradable
  <1>1. Universe(d) \in Seq(Tradable)
    BY SimulationAssumption DEF Universe, Tradable
  <1> HIDE DEF Tradable
  <1> QED BY <1>1

(* Results that answer for a place of the universe, or nothing.             *)
LEMMA ResultsTake ==
  ASSUME NEW d \in StartDate..EndDate, NEW results, DOMAIN results = DOMAIN Universe(d), NEW factor,
         \A i \in DOMAIN Universe(d) :
           results[i].signal = "BUY" => results[i].ticker = Universe(d)[i]
  PROVE  Tickers_(Ranked(results, factor)) \in Seq(Tradable)
  <1> DEFINE u == Universe(d)
             n == Len(u)
  <1>1. n \in Nat /\ DOMAIN u = 1..n /\ \A i \in 1..n : u[i] \in Tradable
    BY UniverseIsHeld
  <1>2. DOMAIN results = 1..n /\ \A i \in 1..n : results[i].signal = "BUY" => results[i].ticker \in Tradable
    BY <1>1
  <1> HIDE DEF u, n
  <1> QED BY <1>1, <1>2, RankedTakes

LEMMA StrategySelectsHeld ==
  ASSUME NEW d \in StartDate..EndDate, NEW name \in Registered, NEW P
  PROVE  StrategySelects(P, name, d) \in Seq(Tradable)
  <1> DEFINE u == Universe(d)
             results == Observed(P, name, u, d, "SPY")
  <1>1. DOMAIN results = DOMAIN u
    BY DEF Observed
  <1>2. ASSUME NEW i \in DOMAIN u
        PROVE  results[i] = Nothing \/ \E h, b : results[i] = Analyze(name, u[i], h, b)
    BY DEF Observed
  <1>3. \A i \in DOMAIN u : results[i].signal = "BUY" => results[i].ticker = u[i]
    <2> HIDE DEF u, results
    <2> SUFFICES ASSUME NEW i \in DOMAIN u, results[i].signal = "BUY"
                 PROVE  results[i].ticker = u[i]
      OBVIOUS
    <2>1. results[i] # Nothing
      BY DEF Nothing
    <2>2. PICK h, b : results[i] = Analyze(name, u[i], h, b)
      BY <1>2, <2>1
    <2> QED BY <2>2, AnalyzedTicker
  <1>4. StrategySelects(P, name, d) = Tickers_(Ranked(results, TieFactor(name)))
    BY DEF StrategySelects
  <1> HIDE DEF results
  <1> QED BY <1>1, <1>3, <1>4, ResultsTake

LEMMA LearnedSelectsHeld ==
  ASSUME NEW d \in StartDate..EndDate, NEW P
  PROVE  LearnedSelects(P, d) \in Seq(Tradable)
  <1> DEFINE u == Universe(d)
             results == [i \in DOMAIN u |-> IF Eligible(P, u[i], d) THEN Scored(P, u[i], d) ELSE Nothing]
  <1>1. ASSUME NEW t
        PROVE  Scored(P, t, d).signal = "BUY" => Scored(P, t, d).ticker = t
    <2>1. Scored(P, t, d) = Nothing \/ \E score, tie : Scored(P, t, d) = Answer(t, "BUY", score, tie)
      BY DEF Scored
    <2> QED BY <2>1 DEF Answer, Nothing
  <1>2. DOMAIN results = DOMAIN u
    OBVIOUS
  <1>3. \A i \in DOMAIN u : results[i].signal = "BUY" => results[i].ticker = u[i]
    BY <1>1 DEF Nothing
  <1>4. LearnedSelects(P, d) = Tickers_(Ranked(results, "none"))
    BY DEF LearnedSelects
  <1> HIDE DEF results
  <1> QED BY <1>2, <1>3, <1>4, ResultsTake

LEMMA DelegateIsKnown ==
  ASSUME NEW regime
  PROVE  Delegate(regime) \in Registered \cup {"CASH"}
  <1> DEFINE names == Preferred(regime)
  <1>1. DOMAIN names \subseteq Nat
    <2>1. names \in {Preferred("STRONG_UPTREND"), Preferred("WEAK_UPTREND"), Preferred("SIDEWAYS"),
                     Preferred("HIGH_VOLATILITY"), <<>>}
      BY Zenon DEF Preferred
    <2>2. /\ DOMAIN Preferred("STRONG_UPTREND") = 1..3 /\ DOMAIN Preferred("WEAK_UPTREND") = 1..3
          /\ DOMAIN Preferred("SIDEWAYS") = 1..2 /\ DOMAIN Preferred("HIGH_VOLATILITY") = 1..1
      BY DEF Preferred
    <2>3. DOMAIN <<>> = {}
      OBVIOUS
    <2> HIDE DEF names
    <2> QED BY <2>1, <2>2, <2>3
  <1>2. Available(names) \subseteq Nat /\ \A i \in Available(names) : names[i] \in Registered
    <2> HIDE DEF names
    <2> QED BY <1>1 DEF Available
  <1>3. Available(names) # {} => Min(Available(names)) \in Available(names)
    <2> HIDE DEF names
    <2> QED BY <1>2, MinIs
  <1>4. "Baseline" \in Registered
    BY DEF Registered
  <1> HIDE DEF names
  <1> QED BY <1>2, <1>3, <1>4 DEF Delegate, names

LEMMA SwitchSelectsHeld ==
  ASSUME NEW d \in StartDate..EndDate, NEW P
  PROVE  SwitchSelects(P, d) \in Seq(Tradable) \/ SwitchSelects(P, d) = Error
  <1> DEFINE u == Universe(d)
             results == [i \in DOMAIN u |-> IF Eligible(P, u[i], d) THEN Switched(P, u[i], d) ELSE Nothing]
             factor == SwitchFactor(P, u, d)
  <1>1. ASSUME NEW t, Switched(P, t, d).signal = "BUY"
        PROVE  Switched(P, t, d).ticker = t
    <2> DEFINE rows == Before(P[t], d)
               name == DelegateAt(P, AsOf(rows))
    <2>1. Switched(P, t, d) = DelegateOf(P, name, t, rows)
      BY <1>1 DEF Switched, Nothing
    <2>2. name \in Registered \cup {"CASH"}
      BY DelegateIsKnown DEF DelegateAt, Registered
    <2> HIDE DEF name, rows
    <2>3. name # "CASH"
      BY <1>1, <2>1 DEF DelegateOf, Answer
    <2>4. PICK b : Switched(P, t, d) = Analyze(name, t, rows, b)
      BY <2>1, <2>3 DEF DelegateOf
    <2> QED BY <1>1, <2>2, <2>3, <2>4, AnalyzedTicker
  <1>2. DOMAIN results = DOMAIN u
    OBVIOUS
  <1>3. \A i \in DOMAIN u : results[i].signal = "BUY" => results[i].ticker = u[i]
    BY <1>1 DEF Nothing
  <1>4. SwitchSelects(P, d) = RankedBy(results, factor)
    BY DEF SwitchSelects
  <1> HIDE DEF results, factor
  <1>5. RankedBy(results, factor) = Error \/ RankedBy(results, factor) = Tickers_(Ranked(results, factor))
    BY DEF RankedBy
  <1> QED BY <1>2, <1>3, <1>4, <1>5, ResultsTake

LEMMA FirstStays ==
  ASSUME NEW S, NEW s \in Seq(S), NEW n \in Nat
  PROVE  First(s, n) \in Seq(S)
  BY DEF First, Smaller

LEMMA SelectsHeld ==
  ASSUME NEW d \in StartDate..EndDate, NEW P, method \in Methods
  PROVE  Selects(P, d) \in Seq(Tradable) \/ Selects(P, d) = Error
  <1>1. /\ method.kind \in {"strategy", "learned", "switching", "adaptive"} /\ method.top \in Nat
        /\ method.kind = "strategy" => method.name \in Registered
    BY SimulationAssumption
  <1>2. ASSUME NEW s, s \in Seq(Tradable) \/ s = Error
        PROVE  Top(s) \in Seq(Tradable) \/ Top(s) = Error
    BY <1>1, <1>2, FirstStays DEF Top
  <1>3. AdaptiveSelects(P, d) \in Seq(Tradable) \/ AdaptiveSelects(P, d) = Error
    <2>1. PICK n : AdaptiveSelects(P, d) = Adaptive(P, n, d) /\ n \in {-1, 0, 2, 5}
      BY DEF AdaptiveSelects, Count, Participation
    <2>2. StrategySelects(P, "Controlled Breakout V1", d) \in Seq(Tradable)
      BY StrategySelectsHeld DEF Registered
    <2>3. n # -1 => n \in Nat
      BY <2>1
    <2> QED BY <2>1, <2>2, <2>3, FirstStays DEF Adaptive
  <1>4. method.kind = "strategy" => StrategySelects(P, method.name, d) \in Seq(Tradable)
    BY <1>1, StrategySelectsHeld
  <1>5. LearnedSelects(P, d) \in Seq(Tradable)
    BY LearnedSelectsHeld
  <1>6. SwitchSelects(P, d) \in Seq(Tradable) \/ SwitchSelects(P, d) = Error
    BY SwitchSelectsHeld
  <1> QED BY <1>1, <1>2, <1>3, <1>4, <1>5, <1>6 DEF Selects

-----------------------------------------------------------------------------
(* The portfolio: what a trade keeps.                                       *)

TradeType == [ticker : Tradable, shares : Int \ {0}, price : Nat \ {0}, fee : Nat]
Costs(b) == [i \in DOMAIN b.trades |-> Cost(b.trades[i])]
Affordable == FeeRate <= 100
Books ==
  {b \in [cash : Int, shares : [Tradable -> Nat], trades : Seq(TradeType), worth : Seq(Int)] :
     /\ b.cash + Total(Costs(b)) = StartCash
     /\ \A i \in DOMAIN b.trades : Paid(b.trades[i]) <= MaxPosition
     /\ Affordable => b.cash \in Nat /\ b.worth \in Seq(Nat)}

LEMMA Amounts ==
  /\ StartCash \in Nat /\ MaxPosition \in Nat \ {0} /\ FeeRate \in Nat /\ MinPrice \in Nat
  BY SimulationAssumption

LEMMA CostsAre ==
  ASSUME NEW trade \in TradeType
  PROVE  Cost(trade) \in Int /\ Paid(trade) \in Int
  BY DEF TradeType, Cost, Paid

LEMMA FeeIs ==
  ASSUME NEW amount \in Nat
  PROVE  /\ Fee(amount) \in Nat /\ 100 * Fee(amount) <= amount * FeeRate
         /\ Affordable => Fee(amount) <= amount
  <1>1. FeeRate \in Nat
    BY Amounts
  <1> DEFINE product == amount * FeeRate
  <1>2. product \in Nat
    BY <1>1
  <1>3. Affordable => product <= 100 * amount
    <2>1. Affordable => FeeRate * amount <= 100 * amount
      BY <1>1, TimesGrows DEF Affordable
    <2>2. FeeRate * amount = amount * FeeRate
      BY <1>1
    <2> QED BY <2>1, <2>2
  <1> HIDE DEF product
  <1>4. product \div 100 \in Nat /\ 100 * (product \div 100) <= product
    BY <1>2
  <1>5. Affordable => product \div 100 <= amount
    BY <1>2, <1>3
  <1> QED BY <1>4, <1>5 DEF Fee, product

LEMMA DivBelow ==
  ASSUME NEW a \in Int, NEW b \in Nat \ {0}
  PROVE  a \div b \in Int /\ b * (a \div b) <= a
  OBVIOUS

(* A trade at a price, cash that pays it, and at most the limit at once.    *)
LEMMA TradeKeeps ==
  ASSUME NEW b \in Books, NEW trade \in TradeType, Paid(trade) <= MaxPosition,
         Affordable => b.cash - Cost(trade) >= 0, NEW shares \in [Tradable -> Nat]
  PROVE  [cash |-> b.cash - Cost(trade), shares |-> shares, trades |-> Append(b.trades, trade),
          worth |-> b.worth] \in Books
  <1> DEFINE c == [cash |-> b.cash - Cost(trade), shares |-> shares,
                   trades |-> Append(b.trades, trade), worth |-> b.worth]
  <1>1. /\ b.cash \in Int /\ b.trades \in Seq(TradeType) /\ b.worth \in Seq(Int)
        /\ b.cash + Total(Costs(b)) = StartCash
        /\ \A i \in DOMAIN b.trades : Paid(b.trades[i]) <= MaxPosition
        /\ Affordable => b.worth \in Seq(Nat)
    BY DEF Books
  <1>2. Cost(trade) \in Int
    BY CostsAre
  <1> DEFINE ts == b.trades
             us == Append(ts, trade)
             cs == [i \in DOMAIN ts |-> Cost(ts[i])]
             ds == [i \in DOMAIN us |-> Cost(us[i])]
  <1>3. us \in Seq(TradeType) /\ DOMAIN us = 1..Len(ts) + 1 /\ Len(ts) \in Nat
    BY <1>1
  <1>4. DOMAIN ts = 1..Len(ts) /\ (\A i \in 1..Len(ts) : us[i] = ts[i] /\ ts[i] \in TradeType)
    BY <1>1
  <1>5. us[Len(ts) + 1] = trade
    BY <1>1
  <1>6. cs \in Seq(Int)
    <2>1. \A i \in 1..Len(ts) : Cost(ts[i]) \in Int
      BY <1>4, CostsAre
    <2> QED BY <1>3, <1>4, <2>1
  <1>7. ds = Append(cs, Cost(trade))
    <2>1. Len(cs) = Len(ts) /\ DOMAIN cs = 1..Len(ts)
      BY <1>3, <1>4
    <2>2. \A i \in 1..Len(ts) : ds[i] = cs[i]
      BY <1>3, <1>4
    <2>3. ds[Len(ts) + 1] = Cost(trade)
      BY <1>3, <1>5
    <2>4. DOMAIN ds = 1..Len(ts) + 1 /\ ds = [i \in DOMAIN ds |-> ds[i]]
      BY <1>3
    <2> DEFINE x == Cost(trade)
               longer == Append(cs, x)
    <2>7. x \in Int
      BY <1>2
    <2> HIDE DEF cs, ds, x
    <2>5. /\ DOMAIN longer = 1..Len(ts) + 1
          /\ longer[Len(ts) + 1] = x /\ \A i \in 1..Len(ts) : longer[i] = cs[i]
      <3>1. cs \in Seq(Int) /\ x \in Int /\ Len(cs) = Len(ts)
        BY <1>6, <2>1, <2>7
      <3> HIDE DEF ts
      <3>2. /\ DOMAIN longer = 1..Len(cs) + 1
            /\ longer[Len(cs) + 1] = x /\ \A i \in 1..Len(cs) : longer[i] = cs[i]
        BY <3>1
      <3> QED BY <3>1, <3>2
    <2>8. longer = [i \in DOMAIN longer |-> longer[i]]
      <3>1. longer \in Seq(Int)
        BY <1>6, <2>7
      <3> HIDE DEF longer
      <3> QED BY <3>1
    <2>6. \A i \in 1..Len(ts) + 1 : ds[i] = longer[i]
      <3>1. \A i \in 1..Len(ts) + 1 : i = Len(ts) + 1 \/ i \in 1..Len(ts)
        BY <1>3
      <3> HIDE DEF longer
      <3> QED BY <2>2, <2>3, <2>5, <3>1 DEF x
    <2> HIDE DEF longer
    <2> QED BY <2>4, <2>5, <2>6, <2>8 DEF longer, x
  <1>8. Total(ds) = Total(cs) + Cost(trade) /\ Total(cs) \in Int
    <2> HIDE DEF cs, ds
    <2> QED BY <1>2, <1>6, <1>7, TotalAppend, TotalIsSum
  <1>9. Costs(b) = cs /\ Costs(c) = ds
    BY DEF Costs
  <1> DEFINE more == b.cash - Cost(trade)
             old == Total(cs)
             new == Total(ds)
  <1>10. more + new = StartCash
    <2>1. b.cash + old = StartCash
      BY <1>1, <1>9
    <2>2. new = old + Cost(trade) /\ old \in Int
      BY <1>8
    <2> HIDE DEF old, new
    <2> QED BY <1>1, <1>2, <2>1, <2>2
  <1>11. \A i \in 1..Len(ts) + 1 : Paid(us[i]) <= MaxPosition
    <2> SUFFICES ASSUME NEW i \in 1..Len(ts) + 1
                 PROVE  Paid(us[i]) <= MaxPosition
      OBVIOUS
    <2>1. CASE i = Len(ts) + 1
      BY <1>5, <2>1
    <2>2. CASE i \in 1..Len(ts)
      BY <1>1, <1>4, <2>2
    <2> QED BY <1>3, <2>1, <2>2
  <1>12. more \in Int /\ (Affordable => more \in Nat)
    BY <1>1, <1>2
  <1>13. c \in [cash : Int, shares : [Tradable -> Nat], trades : Seq(TradeType), worth : Seq(Int)]
    <2> HIDE DEF more, us
    <2> QED BY <1>1, <1>3, <1>12 DEF more, us
  <1>14. c.cash = more /\ c.trades = us /\ c.worth = b.worth
    OBVIOUS
  <1> HIDE DEF c, more, us, ds, cs, new, ts
  <1> QED BY <1>1, <1>3, <1>9, <1>10, <1>11, <1>12, <1>13, <1>14 DEF Books, new, c, more, us, ts

LEMMA PricesAre ==
  ASSUME Loaded(data), NEW d \in StartDate..EndDate, NEW t \in Quoted_
  PROVE  TradePrice(data, t, d) \in Nat
  <1>1. data[t] \in Seq(RowType) /\ Len(data[t]) = EndDate
    BY DEF Loaded
  <1>2. d \in 1..EndDate
    BY Dates
  <1>3. data[t][d] \in RowType
    BY <1>1, <1>2
  <1> QED BY <1>3 DEF TradePrice, RowType

LEMMA SellKeeps ==
  ASSUME Loaded(data), NEW d \in StartDate..EndDate, NEW b \in Books, NEW t \in Tradable, NEW selected
  PROVE  Sell(b, t, d, selected) \in Books
  <1> DEFINE price == TradePrice(data, t, d)
             limit == MaxPosition \div price
             target == IF t \notin ToSet(selected) THEN 0
                       ELSE IF Trims THEN Smaller(b.shares[t], limit) ELSE b.shares[t]
             sold == b.shares[t] - target
             amount == sold * price
             trade == Order(t, -sold, price, Fee(amount))
             shares == [b.shares EXCEPT ![t] = target]
  <1>1. price \in Nat
    BY PricesAre DEF Tradable, Quoted_
  <1>2. b.shares \in [Tradable -> Nat] /\ b.shares[t] \in Nat /\ b.cash \in Int
    BY DEF Books
  <1>3. CASE price = 0 \/ sold = 0
    BY <1>3 DEF Sell
  <1>4. CASE price # 0 /\ sold # 0
    <2>1. price \in Nat \ {0} /\ limit \in Nat
      <3>1. price \in Nat \ {0} /\ MaxPosition \in Nat
        BY <1>1, <1>4, Amounts
      <3> HIDE DEF price
      <3> QED BY <3>1
    <2>2. target \in Nat /\ target <= b.shares[t]
      <3> HIDE DEF limit
      <3> QED BY <1>2, <2>1 DEF Smaller
    <2>3. sold \in Nat \ {0}
      <3> HIDE DEF target
      <3> QED BY <1>2, <1>4, <2>2
    <2>4. amount \in Nat
      <3> HIDE DEF sold, price
      <3> QED BY <2>1, <2>3
    <2>5. Fee(amount) \in Nat /\ (Affordable => Fee(amount) <= amount)
      <3> HIDE DEF amount
      <3> QED BY <2>4, FeeIs
    <2> DEFINE fee == Fee(amount)
    <2>6. trade \in TradeType
      <3> HIDE DEF sold, price, fee
      <3> QED BY <2>1, <2>3, <2>5 DEF Order, TradeType, fee
    <2>7. Paid(trade) = -amount /\ Cost(trade) = fee - amount
      <3>1. (-sold) * price = -(sold * price)
        <4> HIDE DEF sold, price
        <4> QED BY <2>1, <2>3
      <3>2. Paid(trade) = -amount
        BY <3>1 DEF Paid, Order
      <3>3. Cost(trade) = Paid(trade) + fee
        BY DEF Cost, Order
      <3> HIDE DEF amount, fee
      <3> QED BY <2>4, <2>5, <3>2, <3>3 DEF fee
    <2>8. Paid(trade) <= MaxPosition /\ (Affordable => b.cash - Cost(trade) >= 0)
      <3>1. Affordable => b.cash >= 0
        BY DEF Books
      <3> HIDE DEF amount, trade, fee
      <3> QED BY <1>2, <2>4, <2>5, <2>7, <3>1, Amounts DEF fee
    <2>9. shares \in [Tradable -> Nat]
      <3> HIDE DEF target
      <3> QED BY <1>2, <2>2
    <2> DEFINE c == [cash |-> b.cash - Cost(trade), shares |-> shares,
                     trades |-> Append(b.trades, trade), worth |-> b.worth]
    <2>10. c \in Books
      <3> HIDE DEF trade, shares
      <3> QED BY <2>6, <2>8, <2>9, TradeKeeps
    <2>11. Sell(b, t, d, selected) = c
      <3>1. b = [cash |-> b.cash, shares |-> b.shares, trades |-> b.trades, worth |-> b.worth]
        BY DEF Books
      <3>2. b.cash - Cost(trade) = b.cash + amount - fee
        <4> HIDE DEF amount, trade, fee
        <4> QED BY <1>2, <2>4, <2>5, <2>7 DEF fee
      <3>3. Sell(b, t, d, selected) =
              [b EXCEPT !.cash = b.cash + amount - fee, !.shares = shares, !.trades = Append(b.trades, trade)]
        BY <1>4 DEF Sell
      <3> HIDE DEF amount, trade, fee, shares
      <3> QED BY <3>1, <3>2, <3>3
    <2> QED BY <2>10, <2>11
  <1> QED BY <1>3, <1>4

LEMMA BuyKeeps ==
  ASSUME Loaded(data), NEW d \in StartDate..EndDate, NEW b \in Books, NEW t \in Tradable
  PROVE  Buy(b, t, d) \in Books
  <1> DEFINE price == TradePrice(data, t, d)
             limit == MaxPosition \div price
             wanted == limit - b.shares[t]
             dear == price * (100 + FeeRate)
             afforded == (100 * b.cash) \div dear
             bought == Smaller(wanted, afforded)
             cost == bought * price
             fee == Fee(cost)
             trade == Order(t, bought, price, fee)
             shares == [b.shares EXCEPT ![t] = b.shares[t] + bought]
             refused == price = 0 \/ b.shares[t] * price >= MaxPosition \/ bought <= 0
  <1>1. price \in Nat /\ FeeRate \in Nat
    BY PricesAre, Amounts DEF Tradable, Quoted_
  <1>2. b.shares \in [Tradable -> Nat] /\ b.shares[t] \in Nat /\ b.cash \in Int
    BY DEF Books
  <1>3. CASE refused
    BY <1>3 DEF Buy
  <1>4. CASE ~refused
    <2>1. price \in Nat \ {0}
      <3> HIDE DEF bought
      <3> QED BY <1>1, <1>4
    <2>2. limit \in Nat /\ price * limit <= MaxPosition
      <3>1. MaxPosition \in Nat
        BY Amounts
      <3> HIDE DEF price
      <3> QED BY <2>1, <3>1, DivBelow
    <2>3. dear \in Nat \ {0}
      <3> HIDE DEF price
      <3> QED BY <1>1, <2>1
    <2>4. afforded \in Int /\ dear * afforded <= 100 * b.cash
      <3>1. 100 * b.cash \in Int
        BY <1>2
      <3> HIDE DEF dear
      <3> QED BY <2>3, <3>1, DivBelow
    <2>5. bought \in Nat \ {0} /\ bought <= limit /\ bought <= afforded /\ afforded \in Nat
      <3>1. ~(bought <= 0)
        BY <1>4
      <3>2. wanted \in Int /\ wanted <= limit
        <4> HIDE DEF limit
        <4> QED BY <1>2, <2>2
      <3> HIDE DEF wanted, limit, afforded, refused
      <3> QED BY <2>2, <2>4, <3>1, <3>2 DEF Smaller
    <2>6. cost \in Nat /\ cost <= MaxPosition
      <3> HIDE DEF bought, limit, price, refused
      <3>1. bought * price <= limit * price /\ bought * price \in Nat
        BY <2>1, <2>2, <2>5, TimesGrows
      <3>2. limit * price = price * limit
        BY <2>1, <2>2
      <3> QED BY <2>1, <2>2, <3>1, <3>2, Amounts
    <2>7. fee \in Nat /\ 100 * fee <= cost * FeeRate
      <3> HIDE DEF cost
      <3> QED BY <2>6, FeeIs
    <2>8. 100 * cost + cost * FeeRate <= 100 * b.cash
      <3> HIDE DEF bought, limit, price, refused, afforded
      <3>1. bought * dear <= afforded * dear
        <4> HIDE DEF dear
        <4> QED BY <2>3, <2>5, TimesGrows
      <3>2. afforded * dear = dear * afforded
        <4> HIDE DEF dear
        <4> QED BY <2>3, <2>5
      <3>3. bought * dear = (bought * price) * (100 + FeeRate)
        BY <1>1, <2>1, <2>5
      <3>4. cost * (100 + FeeRate) = 100 * cost + cost * FeeRate
        <4> HIDE DEF cost
        <4> QED BY <1>1, <2>6
      <3> DEFINE x == bought * dear
                 y == dear * afforded
                 z == 100 * cost + cost * FeeRate
      <3>5. x <= y /\ y <= 100 * b.cash /\ z = x
        BY <2>4, <3>1, <3>2, <3>3, <3>4
      <3>6. x \in Int /\ y \in Int /\ z \in Int
        <4>1. x \in Int /\ y \in Int
          <5> HIDE DEF dear
          <5> QED BY <2>3, <2>4, <2>5
        <4> HIDE DEF x
        <4> QED BY <3>5, <4>1
      <3> HIDE DEF x, y, z
      <3>7. z <= 100 * b.cash
        BY <1>2, <3>5, <3>6
      <3> QED BY <3>7 DEF z
    <2>9. cost + fee <= b.cash
      <3> DEFINE w == cost * FeeRate
      <3>1. w \in Nat /\ 100 * fee <= w /\ 100 * cost + w <= 100 * b.cash
        <4>1. w \in Nat
          <5> HIDE DEF cost
          <5> QED BY <1>1, <2>6
        <4> QED BY <2>7, <2>8, <4>1
      <3> HIDE DEF w, cost, fee
      <3> QED BY <1>2, <2>6, <2>7, <3>1
    <2>10. trade \in TradeType
      <3> HIDE DEF bought, price, fee, refused
      <3> QED BY <2>1, <2>5, <2>7 DEF Order, TradeType
    <2>11. Paid(trade) = cost /\ Cost(trade) = cost + fee
      BY DEF Paid, Cost, Order
    <2>12. Paid(trade) <= MaxPosition /\ b.cash - Cost(trade) >= 0
      <3> HIDE DEF cost, trade, fee
      <3> QED BY <1>2, <2>6, <2>7, <2>9, <2>11, Amounts
    <2>13. shares \in [Tradable -> Nat]
      <3> HIDE DEF bought, refused
      <3> QED BY <1>2, <2>5
    <2> DEFINE c == [cash |-> b.cash - Cost(trade), shares |-> shares,
                     trades |-> Append(b.trades, trade), worth |-> b.worth]
    <2>14. c \in Books
      <3> HIDE DEF trade, shares
      <3> QED BY <2>10, <2>12, <2>13, TradeKeeps
    <2>15. Buy(b, t, d) = c
      <3>1. b = [cash |-> b.cash, shares |-> b.shares, trades |-> b.trades, worth |-> b.worth]
        BY DEF Books
      <3>2. b.cash - Cost(trade) = b.cash - cost - fee
        <4> HIDE DEF cost, trade, fee
        <4> QED BY <1>2, <2>6, <2>7, <2>11
      <3>3. Buy(b, t, d) =
              [b EXCEPT !.cash = b.cash - cost - fee, !.shares = shares, !.trades = Append(b.trades, trade)]
        BY <1>4 DEF Buy
      <3> HIDE DEF cost, trade, fee, shares, refused
      <3> QED BY <3>1, <3>2, <3>3
    <2> QED BY <2>14, <2>15
  <1> QED BY <1>3, <1>4

LEMMA StocksAre ==
  /\ Stocks \in Seq(Tradable) /\ Len(Stocks) \in Nat /\ DOMAIN Stocks = 1..Len(Stocks)
  /\ \A i \in 1..Len(Stocks) : Stocks[i] \in Tradable
  <1>1. Stocks \in Seq(Tradable)
    BY SimulationAssumption DEF Tradable
  <1> HIDE DEF Tradable
  <1> QED BY <1>1

LEMMA RebalanceKeeps ==
  ASSUME Loaded(data), NEW d \in StartDate..EndDate, NEW b \in Books, NEW selected \in Seq(Tradable)
  PROVE  Rebalance(b, d, selected) \in Books
  <1> DEFINE sell(x, i) == Sell(x, Stocks[i], d, selected)
             buy(x, i) == Buy(x, selected[i], d)
             n == Len(Stocks)
             m == Len(selected)
             Sells(F) == F = [u \in SUBSET (1..n) |->
                               IF u = {} THEN b ELSE sell(F[u \ {Max(u)}], Max(u))]
             sold == (CHOOSE F : Sells(F))[1..n]
             Buys(F) == F = [u \in SUBSET (1..m) |->
                              IF u = {} THEN sold ELSE buy(F[u \ {Max(u)}], Max(u))]
  <1>1. n \in Nat /\ DOMAIN Stocks = 1..n /\ m \in Nat /\ DOMAIN selected = 1..m
    BY StocksAre
  <1>2. Rebalance(b, d, selected) = (CHOOSE F : Buys(F))[1..m]
    BY <1>1 DEF Rebalance, FoldLeft, MapThenFoldSet
  <1>3. \A x \in Books : \A i \in 1..n : sell(x, i) \in Books
    BY StocksAre, SellKeeps
  <1>4. \A x \in Books : \A i \in 1..m : buy(x, i) \in Books
    <2>1. \A i \in 1..m : selected[i] \in Tradable
      BY <1>1
    <2> QED BY <2>1, BuyKeeps
  <1> DEFINE sells == [p \in Books \X (1..n) |-> sell(p[1], p[2])]
             buys == [p \in Books \X (1..m) |-> buy(p[1], p[2])]
  <1>5. /\ \A x \in Books : \A i \in 1..n : sells[<<x, i>>] = sell(x, i)
        /\ \A x \in Books : \A i \in 1..m : buys[<<x, i>>] = buy(x, i)
    <2> HIDE DEF sell, buy, n, m
    <2> QED OBVIOUS
  <1> HIDE DEF sells, buys, sell, buy, n, m, sold
  <1>6. sold \in Books
    <2>1. \A u \in SUBSET (1..n) : u # {} => Max(u) \in 1..n /\ u \ {Max(u)} \in SUBSET (1..n)
      BY <1>1, MaxIs
    <2>2. \E F : Sells(F)
      <3>1. PICK F : Steps_(sells, b, n, F) /\ \A u \in SUBSET (1..n) : F[u] \in Books
        <4>1. \A x \in Books : \A i \in 1..n : sells[<<x, i>>] \in Books
          BY <1>3, <1>5
        <4> QED BY <1>1, <4>1, StepsExist
      <3>2. ASSUME NEW u \in SUBSET (1..n), u # {}
            PROVE  sells[<<F[u \ {Max(u)}], Max(u)>>] = sell(F[u \ {Max(u)}], Max(u))
        BY <1>5, <2>1, <3>1, <3>2
      <3>3. Sells(F)
        BY <3>1, <3>2 DEF Steps_
      <3> QED BY <3>3
    <2>3. ASSUME NEW F, Sells(F)
          PROVE  F[1..n] \in Books
      <3>1. F[{}] = b /\ \A u \in SUBSET (1..n) : u # {} => F[u] = sell(F[u \ {Max(u)}], Max(u))
        BY <2>3
      <3>2. \A u \in SUBSET (1..n) : u # {} /\ F[u \ {Max(u)}] \in Books => F[u] \in Books
        BY <1>3, <2>1, <3>1
      <3>3. \A u \in SUBSET (1..n) : F[u] \in Books
        BY <1>1, <3>1, <3>2, StepsStay
      <3> QED BY <3>3
    <2> HIDE DEF Sells
    <2> QED BY <2>2, <2>3 DEF sold
  <1>7. \A u \in SUBSET (1..m) : u # {} => Max(u) \in 1..m /\ u \ {Max(u)} \in SUBSET (1..m)
    BY <1>1, MaxIs
  <1>8. \E F : Buys(F)
    <2>1. PICK F : Steps_(buys, sold, m, F) /\ \A u \in SUBSET (1..m) : F[u] \in Books
      <3>1. \A x \in Books : \A i \in 1..m : buys[<<x, i>>] \in Books
        BY <1>4, <1>5
      <3> QED BY <1>1, <1>6, <3>1, StepsExist
    <2>2. ASSUME NEW u \in SUBSET (1..m), u # {}
          PROVE  buys[<<F[u \ {Max(u)}], Max(u)>>] = buy(F[u \ {Max(u)}], Max(u))
      BY <1>5, <1>7, <2>1, <2>2
    <2>3. Buys(F)
      BY <2>1, <2>2 DEF Steps_
    <2> QED BY <2>3
  <1>9. ASSUME NEW F, Buys(F)
        PROVE  F[1..m] \in Books
    <2>1. F[{}] = sold /\ \A u \in SUBSET (1..m) : u # {} => F[u] = buy(F[u \ {Max(u)}], Max(u))
      BY <1>9
    <2>2. \A u \in SUBSET (1..m) : u # {} /\ F[u \ {Max(u)}] \in Books => F[u] \in Books
      BY <1>4, <1>7, <2>1
    <2>3. \A u \in SUBSET (1..m) : F[u] \in Books
      BY <1>1, <1>6, <2>1, <2>2, StepsStay
    <2> QED BY <2>3
  <1> HIDE DEF Buys
  <1> QED BY <1>2, <1>8, <1>9

-----------------------------------------------------------------------------
(* What the portfolio is worth.                                             *)

LEMMA ValuationsAre ==
  ASSUME Loaded(data), NEW d \in StartDate..EndDate, NEW t \in Quoted_
  PROVE  ValuationPrice(t, d) \in Nat
  <1> DEFINE rows == SubSeq(data[t], 1, d)
             known == {i \in DOMAIN rows : rows[i].close > 0}
  <1>1. data[t] \in Seq(RowType) /\ Len(data[t]) = EndDate /\ d \in 1..EndDate
    BY Dates DEF Loaded
  <1>2. rows \in Seq(RowType) /\ DOMAIN rows = 1..d
    BY <1>1
  <1>3. CASE ~HasClose(rows)
    BY <1>3 DEF ValuationPrice
  <1>4. CASE HasClose(rows)
    <2>1. known \subseteq 1..d /\ known # {} /\ d \in Nat
      BY <1>1, <1>2, <1>4 DEF HasClose
    <2>2. PICK i \in known : \A j \in known : j <= i
      <3>1. known \subseteq Nat /\ \A i \in known : i <= d
        BY <2>1
      <3> HIDE DEF known
      <3> QED BY <2>1, <3>1, GreatestExists
    <2>3. AsOf(rows) = CHOOSE k \in known : \A j \in known : j <= k
      BY DEF AsOf
    <2>4. AsOf(rows) \in known
      <3> HIDE DEF known, rows
      <3> QED BY <2>2, <2>3
    <2>5. rows[AsOf(rows)] \in RowType
      <3>1. AsOf(rows) \in 1..d
        BY <2>1, <2>4
      <3> HIDE DEF known
      <3> QED BY <1>2, <3>1
    <2>6. ValuationPrice(t, d) = rows[AsOf(rows)].close
      BY <1>4 DEF ValuationPrice
    <2> HIDE DEF rows
    <2> QED BY <2>5, <2>6 DEF RowType
  <1> QED BY <1>3, <1>4

Positions(b, d) == [i \in DOMAIN Stocks |-> b.shares[Stocks[i]] * ValuationPrice(Stocks[i], d)]

LEMMA PositionsAre ==
  ASSUME Loaded(data), NEW d \in StartDate..EndDate, NEW b, b.shares \in [Tradable -> Nat]
  PROVE  /\ Positions(b, d) \in Seq(Int) /\ DOMAIN Positions(b, d) = 1..Len(Stocks)
         /\ \A i \in 1..Len(Stocks) : Positions(b, d)[i] \in Nat
         /\ Total(Positions(b, d)) = Sum(Positions(b, d), 1..Len(Stocks))
         /\ Total(Positions(b, d)) \in Nat
  <1> DEFINE n == Len(Stocks)
             s == Positions(b, d)
  <1>1. n \in Nat /\ DOMAIN Stocks = 1..n /\ \A i \in 1..n : Stocks[i] \in Tradable
    BY StocksAre
  <1>2. ASSUME NEW i \in 1..n
        PROVE  b.shares[Stocks[i]] * ValuationPrice(Stocks[i], d) \in Nat
    <2>1. b.shares[Stocks[i]] \in Nat
      BY <1>1
    <2>2. ValuationPrice(Stocks[i], d) \in Nat
      BY <1>1, ValuationsAre DEF Tradable, Quoted_
    <2> QED BY <2>1, <2>2
  <1>3. s \in Seq(Int) /\ DOMAIN s = 1..n /\ \A i \in 1..n : s[i] \in Nat
    BY <1>1, <1>2 DEF Positions
  <1>4. IsFiniteSet(1..n)
    BY <1>1, Intervals
  <1> HIDE DEF s, n
  <1>5. Total(s) = Sum(s, 1..n)
    BY <1>3, TotalIsSum
  <1>6. Sum(s, 1..n) \in Nat
    BY <1>3, <1>4, SumIsNat
  <1> QED BY <1>3, <1>5, <1>6 DEF s, n

LEMMA WorthIs ==
  ASSUME Loaded(data), NEW d \in StartDate..EndDate, NEW b \in Books
  PROVE  /\ Worth(b, d) = b.cash + Total(Positions(b, d)) /\ Worth(b, d) \in Int
         /\ Affordable => Worth(b, d) \in Nat
  <1>1. Worth(b, d) = b.cash + Total(Positions(b, d))
    BY DEF Worth, Positions
  <1>2. b.shares \in [Tradable -> Nat] /\ b.cash \in Int /\ (Affordable => b.cash \in Nat)
    BY DEF Books
  <1>3. Total(Positions(b, d)) \in Nat
    BY <1>2, PositionsAre
  <1> QED BY <1>1, <1>2, <1>3

LEMMA ValuedKeeps ==
  ASSUME Loaded(data), NEW d \in StartDate..EndDate, NEW b \in Books
  PROVE  /\ Valued(b, d) \in Books /\ Valued(b, d).worth # <<>>
         /\ Last(Valued(b, d).worth) = Worth(Valued(b, d), d)
  <1> DEFINE c == Valued(b, d)
             w == Worth(b, d)
  <1>1. w \in Int /\ (Affordable => w \in Nat)
    BY WorthIs
  <1>2. c = [b EXCEPT !.worth = Append(b.worth, w)]
    BY DEF Valued
  <1>3. b \in [cash : Int, shares : [Tradable -> Nat], trades : Seq(TradeType), worth : Seq(Int)]
    BY DEF Books
  <1> HIDE DEF c, w
  <1>4. /\ c.cash = b.cash /\ c.shares = b.shares /\ c.trades = b.trades
        /\ c.worth = Append(b.worth, w)
        /\ c \in [cash : Int, shares : [Tradable -> Nat], trades : Seq(TradeType), worth : Seq(Int)]
    <2> DEFINE longer == Append(b.worth, w)
    <2>1. longer \in Seq(Int)
      BY <1>1, <1>3
    <2>2. /\ b.cash \in Int /\ b.shares \in [Tradable -> Nat] /\ b.trades \in Seq(TradeType)
          /\ b = [cash |-> b.cash, shares |-> b.shares, trades |-> b.trades, worth |-> b.worth]
      BY <1>3
    <2>3. c = [b EXCEPT !.worth = longer]
      BY <1>2
    <2> HIDE DEF longer
    <2>4. c = [cash |-> b.cash, shares |-> b.shares, trades |-> b.trades, worth |-> longer]
      BY <2>2, <2>3
    <2> QED BY <2>1, <2>2, <2>4 DEF longer
  <1>5. Costs(c) = Costs(b)
    BY <1>4 DEF Costs
  <1>6. Affordable => c.worth \in Seq(Nat)
    BY <1>1, <1>4 DEF Books
  <1>7. c \in Books
    BY <1>4, <1>5, <1>6 DEF Books
  <1>8. c.worth # <<>> /\ Last(c.worth) = w
    <2> DEFINE s == b.worth
    <2>1. s \in Seq(Int) /\ w \in Int /\ c.worth = Append(s, w)
      BY <1>1, <1>3, <1>4
    <2> HIDE DEF s
    <2>2. Append(s, w) # <<>> /\ Len(Append(s, w)) = Len(s) + 1 /\ Append(s, w)[Len(s) + 1] = w
      BY <2>1
    <2> QED BY <2>1, <2>2 DEF Last
  <1>9. Worth(c, d) = w
    BY <1>4 DEF Worth, w
  <1> QED BY <1>7, <1>8, <1>9 DEF c

-----------------------------------------------------------------------------
(* The invariant: nothing is traded before the run, and while it goes on    *)
(* the last value noted is what the portfolio was worth on the last day.    *)
Past(d) == {e \in SimulationDates : e < d}
LastDay(d) == CHOOSE e \in Past(d) : \A f \in Past(d) : f <= e
MoneyInv ==
  /\ SimInv /\ method \in Methods /\ book \in Books
  /\ stage \in {"load", "retry", "run", "done", "failed", "unavailable"}
  /\ stage \in {"load", "retry"} => date = StartDate
  /\ stage \in {"run", "done"} /\ Past(date) # {} =>
       book.worth # <<>> /\ Last(book.worth) = Worth(book, LastDay(date))

LEMMA LastDayIs ==
  ASSUME NEW d \in Nat, Past(d) # {}
  PROVE  LastDay(d) \in Past(d) /\ LastDay(d) \in StartDate..EndDate
  <1>1. Past(d) \subseteq Nat /\ Past(d) \subseteq StartDate..EndDate /\ \A e \in Past(d) : e <= d
    BY Dates DEF Past, SimulationDates
  <1>2. PICK e \in Past(d) : \A f \in Past(d) : f <= e
    BY <1>1, GreatestExists
  <1>3. LastDay(d) \in Past(d)
    <2> HIDE DEF Past
    <2> QED BY <1>2 DEF LastDay
  <1> QED BY <1>1, <1>3

LEMMA NonePast == Past(StartDate) = {}
  BY Dates DEF Past, SimulationDates

LEMMA EmptyBookIs == EmptyBook \in Books
  <1>1. EmptyBook.trades = <<>> /\ EmptyBook.cash = StartCash
    BY DEF EmptyBook
  <1>2. Costs(EmptyBook) = <<>>
    BY <1>1 DEF Costs
  <1>3. Total(<<>>) = 0
    <2>1. DOMAIN <<>> = {} /\ <<>> \in Seq(Int)
      OBVIOUS
    <2>2. Total(<<>>) = Sum(<<>>, {})
      BY <2>1, TotalIsSum
    <2> QED BY <2>2, SumOfNone
  <1>4. StartCash \in Nat
    BY Amounts
  <1>5. EmptyBook \in [cash : Int, shares : [Tradable -> Nat], trades : Seq(TradeType), worth : Seq(Int)]
    BY <1>4 DEF EmptyBook, Tradable
  <1>6. EmptyBook.cash \in Nat /\ EmptyBook.worth \in Seq(Nat)
    BY <1>4 DEF EmptyBook
  <1> QED BY <1>1, <1>2, <1>3, <1>4, <1>5, <1>6 DEF Books

LEMMA MoneyInit == SimInit => MoneyInv
  <1> SUFFICES ASSUME SimInit PROVE MoneyInv
    OBVIOUS
  <1>1. SimInv
    BY SimInit_
  <1>2. date = StartDate /\ stage = "load" /\ book = EmptyBook /\ method \in Methods
    BY DEF SimInit
  <1> QED BY <1>1, <1>2, EmptyBookIs DEF MoneyInv

LEMMA MoneyStutters ==
  ASSUME MoneyInv, UNCHANGED <<data, method, date, book>>, SimInv',
         stage' \in {stage, "done"}, stage' = "done" => stage \in {"run", "done"}
  PROVE  MoneyInv'
  <1>1. SimulationDates' = SimulationDates
    BY DEF SimulationDates
  <1>2. Past(date)' = Past(date)
    BY <1>1 DEF Past
  <1>3. LastDay(date)' = LastDay(date)
    <2>1. LastDay(date)' = CHOOSE e \in Past(date)' : \A f \in Past(date)' : f <= e
      BY <1>2 DEF LastDay
    <2> QED BY <1>2, <2>1 DEF LastDay
  <1>4. Worth(book, LastDay(date))' = Worth(book, LastDay(date))
    BY <1>3 DEF Worth, ValuationPrice
  <1>5. Books' = Books
    BY DEF Books, Costs
  <1> QED BY <1>2, <1>4, <1>5 DEF MoneyInv

LEMMA MoneyStep ==
  ASSUME MoneyInv, [SimNext]_simVars
  PROVE  MoneyInv'
  <1>1. SimInv' /\ date \in StartDate..EndDate + 1 /\ Loaded(data)
    BY SimStep DEF MoneyInv, SimInv
  <1>2. CASE Load
    <2>1. UNCHANGED <<method, date, book>> /\ stage \in {"load", "retry"} /\ date = StartDate
      BY <1>2 DEF Load, MoneyInv
    <2>2. stage' \in {"run", "failed", "retry", "unavailable"}
      BY <1>2 DEF Load
    <2>3. Past(date)' = {}
      <3>1. Past(date)' = {e \in SimulationDates' : e < StartDate}
        BY <2>1 DEF Past
      <3>2. SimulationDates' \subseteq StartDate..EndDate
        BY DEF SimulationDates
      <3>3. \A e \in StartDate..EndDate : ~(e < StartDate)
        BY Dates
      <3> HIDE DEF Past
      <3> QED BY <3>1, <3>2, <3>3
    <2>4. Books' = Books
      BY DEF Books, Costs
    <2> QED BY <1>1, <2>1, <2>2, <2>3, <2>4 DEF MoneyInv
  <1>3. CASE Skip
    <2>1. /\ stage = "run" /\ date \notin SimulationDates /\ date' = date + 1
          /\ UNCHANGED <<data, method, stage, book>>
      BY <1>3 DEF Skip
    <2>2. SimulationDates' = SimulationDates
      BY <2>1 DEF SimulationDates
    <2>3. Past(date)' = Past(date)
      BY <1>1, <2>1, <2>2, Dates DEF Past, SimulationDates
    <2>4. LastDay(date)' = LastDay(date)
      <3>1. LastDay(date)' = CHOOSE e \in Past(date)' : \A f \in Past(date)' : f <= e
        BY <2>3 DEF LastDay
      <3> QED BY <2>3, <3>1 DEF LastDay
    <2>5. \A d : Worth(book, d)' = Worth(book, d)'
      OBVIOUS
    <2> QED BY <1>1, <2>1, <2>3, <2>4 DEF MoneyInv, Worth, ValuationPrice, Books, Costs
  <1>4. CASE Simulate
    <2>1. /\ stage = "run" /\ date \in SimulationDates /\ date \in StartDate..EndDate
          /\ UNCHANGED <<data, method>>
      BY <1>4 DEF Simulate, Day, SimulationDates
    <2>2. CASE UNCHANGED book /\ stage' = "failed"
      BY <1>1, <2>1, <2>2 DEF MoneyInv, Books, Costs
    <2>3. CASE ~(UNCHANGED book /\ stage' = "failed")
      <3>1. PICK selected : /\ selected = IF IsRebalance(date) THEN Selects(data, date) ELSE <<>>
                            /\ selected # Error /\ book' = AfterDay(date, selected)
                            /\ date' = date + 1 /\ stage' = stage
        BY <1>4, <2>3 DEF Simulate, Day
      <3>2. IsRebalance(date) => selected \in Seq(Tradable)
        BY <2>1, <3>1, SelectsHeld DEF MoneyInv
      <3> DEFINE b == IF IsRebalance(date) THEN Rebalance(book, date, selected) ELSE book
      <3>3. b \in Books
        BY <1>1, <2>1, <3>2, RebalanceKeeps DEF MoneyInv
      <3>4. book' = Valued(b, date)
        BY <3>1 DEF AfterDay
      <3> HIDE DEF b
      <3>5. book' \in Books /\ book'.worth # <<>> /\ Last(book'.worth) = Worth(book', date)
        BY <1>1, <2>1, <3>3, <3>4, ValuedKeeps
      <3>6. LastDay(date)' = date
        <4>1. SimulationDates' = SimulationDates
          BY <2>1 DEF SimulationDates
        <4>2. Past(date)' = {e \in SimulationDates : e < date + 1}
          BY <3>1, <4>1 DEF Past
        <4>3. date \in Past(date)' /\ \A f \in Past(date)' : f <= date /\ f \in Int
          BY <2>1, <4>2, Dates DEF SimulationDates
        <4>4. LastDay(date)' = CHOOSE e \in Past(date)' : \A f \in Past(date)' : f <= e
          BY DEF LastDay, Past
        <4>5. \A e \in Past(date)' : (\A f \in Past(date)' : f <= e) => e = date
          BY <2>1, <4>3, Dates
        <4>6. date \in Past(date)' /\ \A f \in Past(date)' : f <= date
          BY <4>3
        <4> QED BY <4>4, <4>5, <4>6
      <3>7. Worth(book', date) = Worth(book, LastDay(date))'
        BY <2>1, <3>6 DEF Worth, ValuationPrice
      <3>8. book \in Books'
        BY DEF MoneyInv, Books
      <3> QED BY <1>1, <2>1, <3>1, <3>5, <3>7 DEF MoneyInv, Books, Costs
    <2> QED BY <2>2, <2>3
  <1>5. CASE Finish
    <2>1. stage = "run" /\ stage' = "done" /\ UNCHANGED <<data, method, date, book>>
      BY <1>5 DEF Finish
    <2> QED BY <1>1, <2>1, MoneyStutters
  <1>6. CASE UNCHANGED simVars
    BY <1>1, <1>6, MoneyStutters DEF simVars
  <1> QED BY <1>2, <1>3, <1>4, <1>5, <1>6 DEF SimNext

(* The attributed profits add up: each trade counts for its own stock.      *)
LEMMA AttributionsAdd ==
  ASSUME Loaded(data), book \in Books, NEW d \in StartDate..EndDate
  PROVE  Total([i \in DOMAIN Stocks |-> Attribution(Stocks[i], d)]) = Worth(book, d) - StartCash
  <1> DEFINE n == Len(Stocks)
             m == Len(book.trades)
             R == 1..n
             S == 1..m
             cs == Costs(book)
             of == [j \in S |-> CHOOSE i \in R : Stocks[i] = book.trades[j].ticker]
             held == Positions(book, d)
             mine(i) == [j \in S |-> IF book.trades[j].ticker = Stocks[i] THEN Cost(book.trades[j]) ELSE 0]
             attributed == [i \in R |-> Attribution(Stocks[i], d)]
             charged == [i \in R |-> Sum(Part(cs, of, S, i), S)]
  <1>1. n \in Nat /\ DOMAIN Stocks = R /\ \A i \in R : Stocks[i] \in Tradable
    BY StocksAre
  <1>2. /\ book.trades \in Seq(TradeType) /\ m \in Nat /\ DOMAIN book.trades = S
        /\ \A j \in S : book.trades[j] \in TradeType
        /\ book.cash \in Int /\ book.cash + Total(cs) = StartCash
        /\ book.shares \in [Tradable -> Nat]
    BY DEF Books
  <1>3. IsFiniteSet(R) /\ IsFiniteSet(S)
    BY <1>1, <1>2, Intervals
  <1>4. \A j \in S : of[j] \in R /\ Stocks[of[j]] = book.trades[j].ticker
    <2> SUFFICES ASSUME NEW j \in S
                 PROVE  of[j] \in R /\ Stocks[of[j]] = book.trades[j].ticker
      OBVIOUS
    <2>1. book.trades[j].ticker \in Tradable
      BY <1>2 DEF TradeType
    <2>2. \E i \in R : Stocks[i] = book.trades[j].ticker
      BY <1>1, <2>1 DEF Tradable, ToSet
    <2> QED BY <2>2
  <1>5. \A i, k \in R : Stocks[i] = Stocks[k] => i = k
    BY <1>1, SimulationAssumption
  <1>6. cs \in Seq(Int) /\ DOMAIN cs = S /\ \A j \in S : cs[j] = Cost(book.trades[j]) /\ cs[j] \in Int
    BY <1>2, CostsAre DEF Costs
  <1> HIDE DEF of, cs, R, S
  <1>7. ASSUME NEW i \in R
        PROVE  Total(mine(i)) = charged[i] /\ charged[i] \in Int
    <2> DEFINE ms == mine(i)
               ps == Part(cs, of, S, i)
    <2>1. ms \in Seq(Int) /\ DOMAIN ms = S
      BY <1>2, <1>6 DEF S
    <2>2. \A j \in S : ms[j] = ps[j] /\ ps[j] \in Int
      BY <1>4, <1>5, <1>6 DEF Part
    <2> HIDE DEF ms, ps
    <2>3. Total(ms) = Sum(ms, S)
      BY <2>1, TotalIsSum
    <2>4. Sum(ms, S) = Sum(ps, S) /\ Sum(ps, S) \in Int
      BY <1>3, <2>2, SumSame, SumTakes
    <2> QED BY <2>3, <2>4 DEF ms, ps
  <1>8. Sum(charged, R) = Total(cs)
    <2>1. Sum(charged, R) = Sum(cs, S)
      BY <1>3, <1>4, <1>6, SumByClass
    <2> QED BY <1>6, <2>1, TotalIsSum
  <1>9. /\ DOMAIN held = R /\ (\A i \in R : held[i] \in Nat)
        /\ Total(held) = Sum(held, R) /\ Total(held) \in Nat
    BY <1>2, PositionsAre DEF R
  <1>10. ASSUME NEW i \in R
         PROVE  attributed[i] = held[i] - charged[i] /\ attributed[i] \in Int
    <2>1. attributed[i] = book.shares[Stocks[i]] * ValuationPrice(Stocks[i], d) - Total(mine(i))
      BY <1>2 DEF Attribution
    <2>2. held[i] = book.shares[Stocks[i]] * ValuationPrice(Stocks[i], d)
      BY <1>1 DEF Positions
    <2> HIDE DEF attributed, held, charged, mine
    <2> QED BY <1>7, <1>9, <2>1, <2>2
  <1>11. attributed \in Seq(Int) /\ DOMAIN attributed = R
    <2> HIDE DEF attributed
    <2>1. DOMAIN attributed = R /\ attributed = [i \in R |-> attributed[i]]
      BY DEF attributed
    <2> QED BY <1>1, <1>10, <2>1 DEF R
  <1> HIDE DEF attributed, held, charged
  <1>12. Sum(held, R) = Sum(attributed, R) + Sum(charged, R) /\ Sum(attributed, R) \in Int
    <2>1. \A i \in R : attributed[i] \in Int /\ charged[i] \in Int /\ held[i] = attributed[i] + charged[i]
      <3> SUFFICES ASSUME NEW i \in R
                   PROVE  /\ attributed[i] \in Int /\ charged[i] \in Int
                          /\ held[i] = attributed[i] + charged[i]
        OBVIOUS
      <3>1. attributed[i] = held[i] - charged[i] /\ attributed[i] \in Int
        BY <1>10
      <3>2. charged[i] \in Int
        BY <1>7
      <3>3. held[i] \in Int
        BY <1>9
      <3> QED BY <3>1, <3>2, <3>3
    <2>2. Sum(held, R) = Sum(attributed, R) + Sum(charged, R)
      BY <1>3, <2>1, SumPlus
    <2>3. Sum(attributed, R) \in Int
      BY <1>3, <2>1, SumTakes
    <2> QED BY <2>2, <2>3
  <1>13. Total(attributed) = Sum(attributed, R)
    BY <1>11, TotalIsSum
  <1>14. Worth(book, d) = book.cash + Total(held)
    BY WorthIs DEF held
  <1>15. Total(attributed) = Worth(book, d) - StartCash
    <2> DEFINE x == Total(attributed)
               y == Total(cs)
               z == Total(held)
    <2>1. x \in Int /\ z = x + y /\ y \in Int
      BY <1>6, <1>8, <1>9, <1>12, <1>13, TotalIsSum
    <2>2. book.cash + y = StartCash /\ Worth(book, d) = book.cash + z
      BY <1>2, <1>14
    <2> HIDE DEF x, y, z
    <2>3. x = Worth(book, d) - StartCash
      BY <1>2, <2>1, <2>2
    <2> QED BY <2>3 DEF x
  <1> QED BY <1>1, <1>15 DEF attributed, R

LEMMA InvConservesMoney ==
  ASSUME MoneyInv, Affordable
  PROVE  MoneyConserved /\ SimTypeOK
  <1>1. /\ Loaded(data) /\ date \in StartDate..EndDate + 1 /\ date \in Nat
        /\ book \in [cash : Int, shares : [Tradable -> Nat], trades : Seq(TradeType), worth : Seq(Int)]
        /\ book.cash \in Nat /\ book.worth \in Seq(Nat)
        /\ book.cash + Total(Costs(book)) = StartCash
        /\ \A i \in DOMAIN book.trades : Paid(book.trades[i]) <= MaxPosition
    BY Dates DEF MoneyInv, SimInv, Books
  <1>2. ASSUME stage \in {"run", "done"}, Past(date) # {}
        PROVE  Total([i \in DOMAIN Stocks |-> Attribution(Stocks[i], LastDay(date))]) =
                 Last(book.worth) - StartCash
    <2>1. LastDay(date) \in StartDate..EndDate
      BY <1>1, <1>2, LastDayIs
    <2>2. Last(book.worth) = Worth(book, LastDay(date)) /\ book \in Books
      BY <1>2 DEF MoneyInv
    <2> QED BY <1>1, <2>1, <2>2, AttributionsAdd
  <1>3. MoneyConserved
    BY <1>1, <1>2 DEF MoneyConserved, Past, LastDay, Costs
  <1>4. SimTypeOK
    BY <1>1 DEF SimTypeOK, MoneyInv, TradeType, Tradable, Loaded, RowType, Quoted_
  <1> QED BY <1>3, <1>4

(* The invariant of the money: the cash and the costs of all trades make up*)
(* the starting cash, no trade pays more than the limit, and the last worth*)
(* noted is that of the cash and the shares on the last day valued.        *)
THEOREM MoneyInvariant == SimSpec => []MoneyInv
  <1> QED BY MoneyInit, MoneyStep, PTL DEF SimSpec

(* The types of a simulation and its money: as long as the fee is at most  *)
(* the amount traded, no cash is lost or made up, none is overdrawn, and the*)
(* shares attributed to the stocks add up to the gain.                     *)
THEOREM MoneyIsConserved ==
  ASSUME FeeRate <= 100
  PROVE  SimSpec => [](SimTypeOK /\ MoneyConserved)
  <1>1. Affordable
    BY DEF Affordable
  <1>2. MoneyInv => SimTypeOK /\ MoneyConserved
    BY <1>1, InvConservesMoney
  <1> QED BY <1>2, MoneyInvariant, PTL
=============================================================================
