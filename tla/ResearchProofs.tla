--------------------------- MODULE ResearchProofs ---------------------------
(* Proofs about the training of the models, the construction of a plan and *)
(* a benchmark run: no model is fitted on labels of its future, every plan *)
(* that is built fits its portfolio, and a method is promoted only out of  *)
(* a complete run that it won.                                             *)
EXTENDS SimulationProofs, Training, PlanBuild, Benchmark

-----------------------------------------------------------------------------
(* Rows that agree up to a day, the later ones of the second being empty.  *)

Agrees(P, Q, until) ==
  /\ P \in Seq(RowType) /\ Q \in Seq(RowType) /\ Len(Q) = Len(P) /\ until <= Len(P)
  /\ \A i \in 1..until : Q[i] = P[i]
  /\ \A i \in until + 1..Len(P) : Q[i].close = 0

Ends(rows, day) == {e \in PricedDays(rows, day + 1, Len(rows)) :
                      Cardinality(PricedDays(rows, day + 1, e)) = LabelDays}

LEMMA LabelEndIs ==
  ASSUME NEW rows \in Seq(RowType), NEW day \in Nat
  PROVE  /\ LabelEnd(rows, day) \in Nat
         /\ LabelEnd(rows, day) # 0 =>
              /\ LabelEnd(rows, day) \in Ends(rows, day)
              /\ LabelEnd(rows, day) > day /\ rows[day].close # 0
              /\ \A d \in Ends(rows, day) : LabelEnd(rows, day) <= d
  <1>1. Ends(rows, day) \subseteq {e \in Nat : e > day}
    BY DEF Ends, PricedDays
  <1>2. Ends(rows, day) # {} => \E e \in Ends(rows, day) : \A d \in Ends(rows, day) : e <= d
    <2>1. Ends(rows, day) \subseteq Nat
      BY <1>1
    <2> QED BY <2>1, LeastExists
  <1>3. LabelEnd(rows, day) =
          IF rows[day].close = 0 \/ Ends(rows, day) = {} THEN 0
          ELSE CHOOSE e \in Ends(rows, day) : \A d \in Ends(rows, day) : e <= d
    BY DEF LabelEnd, Ends
  <1> QED BY <1>1, <1>2, <1>3

(* A label whose last close is known by a day needs no later row.          *)
LEMMA LabelEndAgrees ==
  ASSUME NEW P, NEW Q, NEW until \in Nat, Agrees(P, Q, until), NEW day \in 1..until,
         LabelEnd(P, day) # 0, LabelEnd(P, day) <= until
  PROVE  LabelEnd(Q, day) = LabelEnd(P, day)
  <1> DEFINE e == LabelEnd(P, day)
  <1>1. /\ P \in Seq(RowType) /\ Q \in Seq(RowType) /\ Len(Q) = Len(P) /\ day \in Nat
        /\ until <= Len(P) /\ Len(P) \in Nat
    BY DEF Agrees
  <1>2. e \in Ends(P, day) /\ e > day /\ P[day].close # 0 /\ \A d \in Ends(P, day) : e <= d
    BY <1>1, LabelEndIs
  <1>3. ASSUME NEW d \in 1..until
        PROVE  PricedDays(Q, day + 1, d) = PricedDays(P, day + 1, d)
    <2>1. \A k \in day + 1..d : Q[k] = P[k]
      BY <1>1 DEF Agrees
    <2> QED BY <2>1 DEF PricedDays
  <1>4. ASSUME NEW d \in Ends(Q, day)
        PROVE  d \in Ends(P, day)
    <2>1. d \in day + 1..Len(P) /\ Q[d].close > 0
      BY <1>1 DEF Ends, PricedDays
    <2>2. d \in 1..until
      <3>1. d \notin until + 1..Len(P)
        BY <2>1 DEF Agrees
      <3> QED BY <1>1, <2>1, <3>1
    <2>3. P[d].close > 0
      BY <2>1, <2>2 DEF Agrees
    <2>4. Cardinality(PricedDays(P, day + 1, d)) = LabelDays
      BY <1>3, <2>2 DEF Ends
    <2> QED BY <2>1, <2>3, <2>4 DEF Ends, PricedDays
  <1>5. e \in Ends(Q, day)
    <2>1. e \in day + 1..Len(P) /\ P[e].close > 0 /\ e \in 1..until
      BY <1>1, <1>2 DEF Ends, PricedDays
    <2>2. Q[e].close > 0
      BY <2>1 DEF Agrees
    <2>3. Cardinality(PricedDays(Q, day + 1, e)) = LabelDays
      BY <1>2, <1>3, <2>1 DEF Ends
    <2> QED BY <1>1, <2>1, <2>2, <2>3 DEF Ends, PricedDays
  <1>6. Q[day].close # 0
    BY <1>2 DEF Agrees
  <1>7. \A d \in Ends(Q, day) : e <= d
    BY <1>2, <1>4
  <1>8. Ends(Q, day) \subseteq Nat
    BY <1>1 DEF Ends, PricedDays
  <1>9. LabelEnd(Q, day) =
          IF Q[day].close = 0 \/ Ends(Q, day) = {} THEN 0
          ELSE CHOOSE x \in Ends(Q, day) : \A d \in Ends(Q, day) : x <= d
    BY DEF LabelEnd, Ends
  <1>10. LabelEnd(Q, day) \in Ends(Q, day) /\ \A d \in Ends(Q, day) : LabelEnd(Q, day) <= d
    <2> HIDE DEF e
    <2> QED BY <1>5, <1>6, <1>7, <1>9
  <1>11. LabelEnd(Q, day) <= e /\ e <= LabelEnd(Q, day) /\ e \in Nat /\ LabelEnd(Q, day) \in Nat
    BY <1>5, <1>7, <1>8, <1>10
  <1> QED BY <1>11

LEMMA CutAgrees ==
  ASSUME NEW feed \in TrainFeeds, NEW t \in DOMAIN feed, NEW until \in Nat, until <= Len(feed[t])
  PROVE  Agrees(feed[t], Cut(feed, until)[t], until)
  <1>1. feed[t] \in Seq(RowType)
    BY TrainingAssumption DEF RowType
  <1> DEFINE rows == feed[t]
             cut(d) == IF d <= until THEN rows[d] ELSE [open |-> 0, close |-> 0, volume |-> 0]
  <1>2. Cut(feed, until)[t] = [d \in 1..Len(rows) |-> cut(d)]
    BY <1>1 DEF Cut
  <1>3. \A d \in 1..Len(rows) : cut(d) \in RowType
    <2>1. \A d \in 1..Len(rows) : rows[d] \in RowType
      BY <1>1
    <2>2. [open |-> 0, close |-> 0, volume |-> 0] \in RowType
      BY DEF RowType
    <2> HIDE DEF rows
    <2> QED BY <2>1, <2>2
  <1>4. /\ Cut(feed, until)[t] \in Seq(RowType) /\ Len(Cut(feed, until)[t]) = Len(rows)
        /\ \A d \in 1..Len(rows) : Cut(feed, until)[t][d] = cut(d)
    <2>1. Len(rows) \in Nat
      BY <1>1
    <2> HIDE DEF cut, rows
    <2> QED BY <1>2, <1>3, <2>1
  <1>5. 1..until \subseteq 1..Len(rows) /\ until + 1..Len(rows) \subseteq 1..Len(rows)
    BY <1>1
  <1> QED BY <1>1, <1>4, <1>5 DEF Agrees

LEMMA UpToAgrees ==
  ASSUME NEW P, NEW Q, NEW until \in Nat, Agrees(P, Q, until), NEW n \in 1..until
  PROVE  UpTo(Q, n) = UpTo(P, n)
  <1>1. \A i \in 1..n : Q[i] = P[i]
    BY DEF Agrees
  <1>2. UpTo(Q, n) = [i \in 1..n |-> Q[i]] /\ UpTo(P, n) = [i \in 1..n |-> P[i]]
    BY DEF UpTo
  <1> QED BY <1>1, <1>2

(* The day a row's features are of.                                        *)
LEMMA AsOfWithin ==
  ASSUME NEW rows \in Seq(RowType), NEW n \in 1..Len(rows), HasClose(UpTo(rows, n))
  PROVE  AsOf(UpTo(rows, n)) \in 1..n
  <1> DEFINE h == UpTo(rows, n)
             known == {i \in DOMAIN h : h[i].close > 0}
  <1>1. DOMAIN h = 1..n
    BY DEF UpTo
  <1>2. known \subseteq Nat /\ (\A i \in known : i <= n) /\ known # {} /\ known \subseteq 1..n
    BY <1>1 DEF HasClose
  <1>3. \E i \in known : \A j \in known : j <= i
    <2>1. n \in Nat
      OBVIOUS
    <2> HIDE DEF known
    <2> QED BY <1>2, <2>1, GreatestExists
  <1>4. AsOf(h) = CHOOSE i \in known : \A j \in known : j <= i
    BY DEF AsOf
  <1> HIDE DEF known, h
  <1>5. AsOf(h) \in known
    BY <1>3, <1>4
  <1> QED BY <1>2, <1>5 DEF h

-----------------------------------------------------------------------------
(* A row whose label is known by a day is built from the rows up to it.    *)

RowAt(prices, t, n, target) ==
  /\ t \in DOMAIN prices /\ {"SPY", "QQQ"} \subseteq DOMAIN prices
  /\ n \in Nat \ {0} /\ n <= Len(prices[t]) /\ HasClose(UpTo(prices[t], n))

LEMMA SameLabel ==
  ASSUME NEW P, NEW Q, NEW O, NEW R, NEW until \in Nat, Agrees(P, Q, until), Agrees(O, R, until),
         NEW day \in 1..until, NEW target \in {"beats", "positive", "gain"},
         Observable(P, O, day, target) # 0, Observable(P, O, day, target) <= until
  PROVE  /\ Label(Q, R, day, target) = Label(P, O, day, target)
         /\ Observable(Q, R, day, target) = Observable(P, O, day, target)
  <1>1. /\ P \in Seq(RowType) /\ O \in Seq(RowType) /\ Q \in Seq(RowType) /\ R \in Seq(RowType)
        /\ until <= Len(P) /\ until <= Len(O) /\ day \in Nat
    BY DEF Agrees
  <1>2. Label(P, O, day, target) # "none"
    BY DEF Observable
  <1>3. LabelEnd(P, day) # 0 /\ (target = "beats" => LabelEnd(O, day) # 0)
    BY <1>2 DEF Label
  <1>4. LabelEnd(P, day) \in Nat /\ LabelEnd(O, day) \in Nat /\ LabelEnd(P, day) > day
        /\ (target = "beats" => LabelEnd(O, day) > day)
    BY <1>1, <1>3, LabelEndIs
  <1>5. LabelEnd(P, day) <= until /\ (target = "beats" => LabelEnd(O, day) <= until)
    <2> DEFINE e == LabelEnd(P, day)  o == LabelEnd(O, day)
    <2>1. Observable(P, O, day, target) = IF target = "beats" THEN Larger(e, o) ELSE e
      BY <1>2 DEF Observable
    <2> HIDE DEF e, o
    <2>2. e \in Nat /\ o \in Nat /\ (target # "beats" => e <= until)
      BY <1>4, <2>1 DEF e, o
    <2>3. target = "beats" => e <= until /\ o <= until
      BY <2>1, <2>2 DEF Larger
    <2> QED BY <2>2, <2>3 DEF e, o
  <1>6. LabelEnd(Q, day) = LabelEnd(P, day) /\ (target = "beats" => LabelEnd(R, day) = LabelEnd(O, day))
    BY <1>3, <1>5, LabelEndAgrees
  <1>7. /\ Q[day] = P[day] /\ R[day] = O[day] /\ Q[LabelEnd(P, day)] = P[LabelEnd(P, day)]
        /\ target = "beats" => R[LabelEnd(O, day)] = O[LabelEnd(O, day)]
    BY <1>4, <1>5 DEF Agrees
  <1>8. Label(Q, R, day, target) = Label(P, O, day, target)
    <2>1. CASE target = "beats"
      BY <1>6, <1>7, <2>1 DEF Label
    <2>2. CASE target = "positive"
      BY <1>6, <1>7, <2>2 DEF Label
    <2>3. CASE target = "gain"
      BY <1>6, <1>7, <2>3 DEF Label
    <2> QED BY <2>1, <2>2, <2>3
  <1> QED BY <1>6, <1>8 DEF Observable

LEMMA SameRow ==
  ASSUME NEW feed \in TrainFeeds, NEW until \in Nat, NEW t \in DOMAIN feed, NEW n \in 1..until,
         \A s \in DOMAIN feed : until <= Len(feed[s]),
         HasClose(UpTo(feed[t], n)), NEW target \in {"beats", "positive", "gain"},
         Row(feed, t, n, target).known \in 1..until
  PROVE  Row(Cut(feed, until), t, n, target) = Row(feed, t, n, target)
  <1> DEFINE cut == Cut(feed, until)
             h == UpTo(feed[t], n)
  <1>1. "SPY" \in DOMAIN feed /\ "QQQ" \in DOMAIN feed
    BY TrainingAssumption
  <1>2. \A s \in DOMAIN feed : Agrees(feed[s], cut[s], until)
    BY CutAgrees
  <1>3. /\ UpTo(cut[t], n) = h /\ UpTo(cut["SPY"], n) = UpTo(feed["SPY"], n)
        /\ UpTo(cut["QQQ"], n) = UpTo(feed["QQQ"], n)
    BY <1>1, <1>2, UpToAgrees
  <1>4. AsOf(h) \in 1..until
    <2>1. feed[t] \in Seq(RowType) /\ n \in 1..Len(feed[t])
      BY <1>2 DEF Agrees
    <2>2. AsOf(h) \in 1..n
      BY <2>1, AsOfWithin
    <2> QED BY <2>2
  <1>5. Row(feed, t, n, target).known = Observable(feed[t], feed["SPY"], AsOf(h), target)
    BY DEF Row
  <1>6. /\ Label(cut[t], cut["SPY"], AsOf(h), target) = Label(feed[t], feed["SPY"], AsOf(h), target)
        /\ Observable(cut[t], cut["SPY"], AsOf(h), target)
             = Observable(feed[t], feed["SPY"], AsOf(h), target)
    <2>1. /\ Observable(feed[t], feed["SPY"], AsOf(h), target) # 0
          /\ Observable(feed[t], feed["SPY"], AsOf(h), target) <= until
      BY <1>5
    <2> HIDE DEF cut, h
    <2> QED BY <1>1, <1>2, <1>4, <2>1, SameLabel
  <1> HIDE DEF cut
  <1> QED BY <1>3, <1>6 DEF Row, cut

-----------------------------------------------------------------------------
(* A fold ends before what it predicts, and within the dates of its rows.  *)

LEMMA FoldsEndInside ==
  ASSUME NEW task \in Walks, NEW rows, \A r \in rows : r.date \in 1..task.end,
         NEW f \in ToSet(Folds(task, rows))
  PROVE  f.until \in Nat /\ f.until < f.predicts /\ f.until <= task.end
  <1> DEFINE dates == {r.date : r \in rows}
             first == CHOOSE d \in dates : \A e \in dates : d <= e
             last == CHOOSE d \in dates : \A e \in dates : e <= d
             shift(k) == k * task.step
             end(k) == first + task.train - 1 + shift(k)
             starts == {k \in 0..last : end(k) + task.validate <= last}
             fold(i) == [start |-> IF task.rolling THEN first + shift(i - 1) ELSE first,
                         until |-> end(i - 1), predicts |-> end(i - 1) + 1,
                         last |-> end(i - 1) + task.validate]
  <1>1. Folds(task, rows) =
          IF Cardinality(dates) < 2 THEN <<>> ELSE [i \in 1..Cardinality(starts) |-> fold(i)]
    BY DEF Folds
  <1>2. {task.train, task.validate, task.step, task.end} \subseteq Nat \ {0}
    BY TrainingAssumption DEF Walks
  <1>3. ~(Cardinality(dates) < 2)
    <2>1. PICK j \in DOMAIN Folds(task, rows) : TRUE
      BY DEF ToSet
    <2> HIDE DEF dates, starts
    <2> QED BY <1>1, <2>1
  <1>4. PICK i \in 1..Cardinality(starts) : f = fold(i)
    <2> HIDE DEF dates, starts, fold
    <2>1. Folds(task, rows) = [i \in 1..Cardinality(starts) |-> fold(i)]
      BY <1>1, <1>3
    <2>2. PICK i \in DOMAIN Folds(task, rows) : f = Folds(task, rows)[i]
      BY DEF ToSet
    <2> QED BY <2>1, <2>2
  <1>5. dates # {} /\ dates \subseteq Nat /\ \A d \in dates : d <= task.end
    <2>1. dates # {}
      <3>1. dates = {} => Cardinality(dates) = 0
        BY FS_EmptySet
      <3> HIDE DEF dates
      <3> QED BY <1>3, <3>1
    <2> QED BY <1>2, <2>1
  <1>6. first \in dates /\ last \in dates
    <2>1. task.end \in Nat
      BY <1>2
    <2> HIDE DEF dates
    <2>2. (\E d \in dates : \A e \in dates : d <= e) /\ (\E d \in dates : \A e \in dates : e <= d)
      BY <1>5, <2>1, LeastExists, GreatestExists
    <2> QED BY <2>2
  <1>7. first \in Nat /\ last \in Nat /\ last <= task.end
    <2> HIDE DEF dates, first, last
    <2> QED BY <1>5, <1>6
  <1>8. starts \subseteq 0..last /\ IsFiniteSet(starts) /\ Cardinality(starts) \in Nat
    <2>1. starts \subseteq 0..last
      OBVIOUS
    <2>2. IsFiniteSet(0..last)
      <3> HIDE DEF last
      <3> QED BY <1>7, FS_Interval
    <2>3. IsFiniteSet(starts)
      <3> HIDE DEF starts, last
      <3> QED BY <2>1, <2>2, FS_Subset
    <2> HIDE DEF starts, last
    <2> QED BY <2>1, <2>3, FS_CardinalityType
  <1>9. ASSUME NEW j \in Nat, NEW k \in Nat, j <= k
        PROVE  end(j) <= end(k) /\ end(j) \in Nat /\ end(k) \in Nat
    <2> DEFINE x == shift(j)  y == shift(k)
    <2>1. x <= y /\ x \in Nat /\ y \in Nat
      BY <1>2, <1>9, TimesGrows
    <2> HIDE DEF x, y, first
    <2>2. first + task.train - 1 + x <= first + task.train - 1 + y
          /\ first + task.train - 1 + x \in Nat /\ first + task.train - 1 + y \in Nat
      BY <1>2, <1>7, <2>1
    <2> QED BY <2>2 DEF x, y
  <1>10. i \in Nat \ {0} /\ i <= Cardinality(starts) /\ i - 1 \in Nat
    BY <1>8
  <1>11. i - 1 \in starts
    <2> SUFFICES ASSUME i - 1 \notin starts PROVE FALSE
      OBVIOUS
    <2>1. ASSUME NEW k \in starts
          PROVE  k \in 0..i - 2
      <3> SUFFICES ASSUME i - 1 <= k PROVE FALSE
        BY <1>8, <1>10
      <3>1. end(i - 1) <= end(k) /\ end(i - 1) \in Nat /\ end(k) \in Nat
        <4>1. k \in Nat /\ i - 1 \in Nat
          BY <1>7, <1>8, <1>10
        <4> HIDE DEF end
        <4> QED BY <1>9, <4>1
      <3>2. end(k) + task.validate <= last /\ k <= last /\ k \in Nat
        <4> HIDE DEF end, last
        <4> QED BY <1>7
      <3> HIDE DEF end, last
      <3>3. end(i - 1) + task.validate <= last /\ i - 1 \in 0..last
        BY <1>2, <1>7, <1>10, <3>1, <3>2
      <3> QED BY <3>3
    <2> HIDE DEF starts
    <2>2. starts \subseteq 0..i - 2
      BY <2>1
    <2>3. IsFiniteSet(0..i - 2) /\ Cardinality(0..i - 2) = i - 1
      <3>1. i - 1 \in Nat /\ i - 2 = (i - 1) - 1
        BY <1>10
      <3>2. IsFiniteSet(0..(i - 1) - 1) /\ Cardinality(0..(i - 1) - 1) = i - 1
        BY <3>1, Intervals
      <3> QED BY <3>1, <3>2
    <2>4. Cardinality(starts) <= i - 1
      BY <2>2, <2>3, FS_Subset
    <2> QED BY <1>8, <1>10, <2>4
  <1>12. end(i - 1) + task.validate <= last /\ end(i - 1) \in Nat
    <2>1. end(i - 1) \in Nat
      <3> HIDE DEF end
      <3> QED BY <1>9, <1>10
    <2> HIDE DEF end, last
    <2> QED BY <1>11, <2>1
  <1>13. f.until = end(i - 1) /\ f.predicts = end(i - 1) + 1
    <2> HIDE DEF end
    <2> QED BY <1>4
  <1> HIDE DEF end, last
  <1> QED BY <1>2, <1>7, <1>12, <1>13

-----------------------------------------------------------------------------
(* Every row was built from the prices at hand on one of its dates; a      *)
(* model is fitted on rows whose labels its cutoff knows.                  *)

BuiltRow(r) ==
  /\ r.ticker \in DOMAIN trainFeed /\ r.date \in 1..TrainingEnd(trainTask)
  /\ HasClose(UpTo(Prices(trainTask)[r.ticker], r.date))
  /\ r = Row(Prices(trainTask), r.ticker, r.date, trainTask.target)
KnownFit(fit) ==
  /\ fit.until \in Nat /\ fit.until < fit.predicts /\ fit.until <= TrainingEnd(trainTask)
  /\ trainTask \in Periods => fit.until = TrainingEnd(trainTask)
  /\ fit.rows \subseteq dataset
  /\ \A r \in fit.rows : r.date <= fit.until /\ r.known \in 1..fit.until
TrainInv ==
  /\ trainFeed \in TrainFeeds /\ trainTask \in TrainTasks /\ trainDate \in Nat
  /\ trainStage \in {"begin", "rows", "fit", "done", "insufficient"}
  /\ trainStage = "rows" => TrainingStart(trainTask) < TrainingEnd(trainTask)
  /\ \A r \in dataset : BuiltRow(r)
  /\ \A fit \in fits : KnownFit(fit)

LEMMA TaskFacts ==
  ASSUME NEW task \in TrainTasks
  PROVE  /\ TrainingEnd(task) \in Nat /\ TrainingStart(task) \in Nat \ {0}
         /\ task.target \in {"beats", "positive", "gain"} /\ task.start \in Nat \ {0}
         /\ task \in Periods \/ task \in Walks
         /\ 1..TrainingEnd(task) \subseteq DOMAIN TrainMembers
         /\ \A feed \in TrainFeeds : \A t \in DOMAIN feed : TrainingEnd(task) <= Len(feed[t])
  <1>1. /\ task.kind \in {"period", "walk"} /\ task.target \in {"beats", "positive", "gain"}
        /\ task.start \in Nat \ {0}
        /\ task.kind = "walk" => task.end \in Nat \ {0}
        /\ 1..TrainingEnd(task) \subseteq DOMAIN TrainMembers
        /\ \A feed \in TrainFeeds : \A t \in DOMAIN feed : TrainingEnd(task) <= Len(feed[t])
    BY TrainingAssumption
  <1>2. TrainingEnd(task) \in Nat
    BY <1>1 DEF TrainingEnd
  <1>3. TrainingStart(task) \in Nat \ {0}
    <2>1. FirstSupported \in Nat \ {0} /\ WindowDays \in Nat
      BY TrainingAssumption
    <2> QED BY <1>1, <2>1 DEF TrainingStart, Larger
  <1> QED BY <1>1, <1>2, <1>3 DEF Periods, Walks

LEMMA TrainPricesAre ==
  ASSUME NEW task \in TrainTasks, trainFeed \in TrainFeeds, NEW t \in DOMAIN trainFeed
  PROVE  /\ DOMAIN Prices(task) = DOMAIN trainFeed /\ Prices(task)[t] \in Seq(RowType)
         /\ Len(Prices(task)[t]) = Len(trainFeed[t])
  <1>1. CASE task.kind = "period"
    <2>1. Prices(task) = Cut(trainFeed, TrainingEnd(task))
      BY <1>1 DEF Prices
    <2>2. Agrees(trainFeed[t], Cut(trainFeed, TrainingEnd(task))[t], TrainingEnd(task))
      BY CutAgrees, TaskFacts
    <2>3. DOMAIN Cut(trainFeed, TrainingEnd(task)) = DOMAIN trainFeed
      BY DEF Cut
    <2> QED BY <2>1, <2>2, <2>3 DEF Agrees
  <1>2. CASE task.kind # "period"
    <2>1. trainFeed[t] \in Seq(RowType)
      BY TrainingAssumption DEF RowType
    <2> QED BY <1>2, <2>1 DEF Prices
  <1> QED BY <1>1, <1>2

(* A row's label is none exactly when it can never be known.               *)
LEMMA BuiltLabels ==
  ASSUME trainFeed \in TrainFeeds, trainTask \in TrainTasks, NEW r, BuiltRow(r)
  PROVE  /\ r.label \in {"yes", "no", "none"} /\ (r.known = 0 <=> r.label = "none")
         /\ r.known \in Nat
  <1> DEFINE prices == Prices(trainTask)
             day == AsOf(UpTo(prices[r.ticker], r.date))
             rows == prices[r.ticker]  other == prices["SPY"]  target == trainTask.target
  <1>1. /\ r.label = Label(rows, other, day, target)
        /\ r.known = Observable(rows, other, day, target)
    BY DEF BuiltRow, Row
  <1>2. "SPY" \in DOMAIN trainFeed
    BY TrainingAssumption
  <1>3. rows \in Seq(RowType) /\ other \in Seq(RowType) /\ r.date \in 1..Len(rows)
    <2>1. /\ rows \in Seq(RowType) /\ other \in Seq(RowType)
          /\ Len(rows) = Len(trainFeed[r.ticker])
      BY <1>2, TrainPricesAre DEF BuiltRow
    <2>2. TrainingEnd(trainTask) <= Len(trainFeed[r.ticker]) /\ TrainingEnd(trainTask) \in Nat
      BY TaskFacts DEF BuiltRow
    <2>3. r.date \in 1..TrainingEnd(trainTask)
      BY DEF BuiltRow
    <2>4. Len(rows) \in Nat
      BY <2>1
    <2> HIDE DEF rows
    <2> QED BY <2>1, <2>2, <2>3, <2>4
  <1>4. day \in Nat
    <2>1. HasClose(UpTo(rows, r.date))
      BY DEF BuiltRow
    <2> HIDE DEF rows
    <2>2. AsOf(UpTo(rows, r.date)) \in 1..r.date
      BY <1>3, <2>1, AsOfWithin
    <2> QED BY <1>3, <2>2 DEF rows
  <1> HIDE DEF rows, other, day, target
  <1>5. Label(rows, other, day, target) \in {"yes", "no", "none"}
    BY DEF Label
  <1>6. LabelEnd(rows, day) \in Nat /\ LabelEnd(other, day) \in Nat
    BY <1>3, <1>4, LabelEndIs
  <1>7. Label(rows, other, day, target) # "none" => LabelEnd(rows, day) # 0
    BY DEF Label
  <1>8. /\ Observable(rows, other, day, target) \in Nat
        /\ Observable(rows, other, day, target) = 0 <=> Label(rows, other, day, target) = "none"
    BY <1>6, <1>7 DEF Observable, Larger
  <1> QED BY <1>1, <1>5, <1>8

LEMMA InvKnowsLabels ==
  ASSUME TrainInv
  PROVE  NoFutureLabels
  <1> SUFFICES ASSUME NEW fit \in fits
               PROVE  /\ fit.until < fit.predicts
                      /\ \A r \in fit.rows : /\ r.date <= fit.until
                                             /\ r = Row(Cut(trainFeed, fit.until), r.ticker, r.date,
                                                         trainTask.target)
    BY DEF NoFutureLabels
  <1>1. KnownFit(fit) /\ trainFeed \in TrainFeeds /\ trainTask \in TrainTasks
    BY DEF TrainInv
  <1>2. ASSUME NEW r \in fit.rows
        PROVE  r = Row(Cut(trainFeed, fit.until), r.ticker, r.date, trainTask.target)
    <2>1. BuiltRow(r) /\ r.date <= fit.until /\ r.known \in 1..fit.until /\ fit.until \in Nat
      BY <1>1, <1>2 DEF KnownFit, TrainInv
    <2>2. CASE trainTask \in Periods
      <3>1. fit.until = TrainingEnd(trainTask)
        BY <1>1, <2>2 DEF KnownFit
      <3>2. Prices(trainTask) = Cut(trainFeed, fit.until)
        BY <2>2, <3>1 DEF Prices, Periods
      <3> QED BY <2>1, <3>2 DEF BuiltRow
    <2>3. CASE trainTask \in Walks
      <3>1. Prices(trainTask) = trainFeed
        BY <2>3 DEF Prices, Walks
      <3>2. /\ r = Row(trainFeed, r.ticker, r.date, trainTask.target)
            /\ r.ticker \in DOMAIN trainFeed /\ HasClose(UpTo(trainFeed[r.ticker], r.date))
            /\ r.date \in 1..fit.until
        BY <2>1, <3>1 DEF BuiltRow
      <3>3. \A s \in DOMAIN trainFeed : fit.until <= Len(trainFeed[s])
        <4>1. fit.until <= TrainingEnd(trainTask) /\ TrainingEnd(trainTask) \in Nat
              /\ \A s \in DOMAIN trainFeed : TrainingEnd(trainTask) <= Len(trainFeed[s])
          BY <1>1, TaskFacts DEF KnownFit
        <4>2. \A s \in DOMAIN trainFeed : Len(trainFeed[s]) \in Nat
          <5>1. \A s \in DOMAIN trainFeed : trainFeed[s] \in Seq(RowType)
            BY <1>1, TrainingAssumption DEF RowType
          <5> QED BY <5>1
        <4> QED BY <2>1, <4>1, <4>2
      <3>4. trainTask.target \in {"beats", "positive", "gain"}
        BY <1>1, TaskFacts
      <3>5. Row(trainFeed, r.ticker, r.date, trainTask.target).known \in 1..fit.until
        BY <2>1, <3>2
      <3>6. Row(Cut(trainFeed, fit.until), r.ticker, r.date, trainTask.target)
              = Row(trainFeed, r.ticker, r.date, trainTask.target)
        BY <1>1, <2>1, <3>2, <3>3, <3>4, <3>5, SameRow
      <3> QED BY <3>2, <3>6
    <2> QED BY <1>1, <2>2, <2>3, TaskFacts
  <1> QED BY <1>1, <1>2 DEF KnownFit

LEMMA InvTypesRows ==
  ASSUME TrainInv
  PROVE  TrainTypeOK
  <1>1. \A r \in dataset : r.label \in {"yes", "no", "none"} /\ (r.known = 0 <=> r.label = "none")
    BY BuiltLabels DEF TrainInv
  <1>2. \A r, s \in dataset : r.ticker = s.ticker /\ r.date = s.date => r = s
    BY DEF TrainInv, BuiltRow
  <1> QED BY <1>1, <1>2 DEF TrainInv, TrainTypeOK

LEMMA TrainInit_ == TrainInit => TrainInv
  BY DEF TrainInit, TrainInv

(* The dates a stage evaluates lie in the task's days.                     *)
LEMMA EvaluatedInside ==
  ASSUME TrainInv, trainStage = "rows",
         NEW n \in EvaluationDates(TrainingStart(trainTask), TrainingEnd(trainTask)),
         NEW r \in RowsOf(Prices(trainTask), n, trainTask.target)
  PROVE  BuiltRow(r)
  <1>1. n \in 1..TrainingEnd(trainTask)
    BY TaskFacts DEF TrainInv, EvaluationDates
  <1>2. PICK t \in TrainMembers[n] : Usable(Prices(trainTask)[t], n)
                                   /\ r = Row(Prices(trainTask), t, n, trainTask.target)
    BY DEF RowsOf
  <1>3. t \in DOMAIN trainFeed
    <2>1. n \in DOMAIN TrainMembers
      BY <1>1, TaskFacts DEF TrainInv
    <2> QED BY <1>2, <2>1, TrainingAssumption DEF TrainInv
  <1>4. r.ticker = t /\ r.date = n
    BY <1>2 DEF Row
  <1>5. HasClose(UpTo(Prices(trainTask)[t], n))
    BY <1>2 DEF Usable, Fresh
  <1> QED BY <1>1, <1>2, <1>3, <1>4, <1>5 DEF BuiltRow

LEMMA SameFit ==
  ASSUME NEW fit, KnownFit(fit), UNCHANGED trainTask, dataset \subseteq dataset'
  PROVE  KnownFit(fit)'
  BY DEF KnownFit

LEMMA SameBuilt ==
  ASSUME NEW r, BuiltRow(r), UNCHANGED <<trainFeed, trainTask>>
  PROVE  BuiltRow(r)'
  <1>1. Prices(trainTask)' = Prices(trainTask)
    BY DEF Prices
  <1> QED BY <1>1 DEF BuiltRow

LEMMA TrainStep ==
  ASSUME TrainInv, [TrainNext]_trainVars
  PROVE  TrainInv'
  <1>1. CASE BeginTraining
    <2>1. /\ UNCHANGED <<trainFeed, trainTask, dataset, fits>>
          /\ trainDate' = TrainingStart(trainTask)
          /\ trainStage' \in {"rows", "insufficient"}
          /\ trainStage' = "rows" => TrainingStart(trainTask) < TrainingEnd(trainTask)
      BY <1>1 DEF BeginTraining
    <2>2. trainDate' \in Nat
      BY <2>1, TaskFacts DEF TrainInv
    <2> QED BY <2>1, <2>2, SameFit, SameBuilt DEF TrainInv
  <1>2. CASE EvaluateDate
    <2> DEFINE last == TrainingEnd(trainTask)
               dates == {d \in EvaluationDates(TrainingStart(trainTask), last) : d >= trainDate}
               n == CHOOSE d \in dates : \A e \in dates : d <= e
    <2>1. UNCHANGED <<trainFeed, trainTask, fits>> /\ trainStage = "rows"
      BY <1>2 DEF EvaluateDate
    <2>2. CASE dates = {}
      <3>1. trainStage' = "fit" /\ UNCHANGED <<trainDate, dataset>>
        BY <1>2, <2>2 DEF EvaluateDate
      <3> QED BY <2>1, <3>1, SameFit, SameBuilt DEF TrainInv
    <2>3. CASE dates # {}
      <3>1. /\ dataset' = dataset \cup RowsOf(Prices(trainTask), n, trainTask.target)
            /\ trainDate' = n + 1 /\ UNCHANGED trainStage
        BY <1>2, <2>3 DEF EvaluateDate
      <3>2. n \in dates
        <4>1. dates \subseteq Nat
          BY TaskFacts DEF TrainInv, EvaluationDates
        <4> HIDE DEF dates
        <4>2. \E d \in dates : \A e \in dates : d <= e
          BY <2>3, <4>1, LeastExists
        <4> QED BY <4>2
      <3>3. n \in EvaluationDates(TrainingStart(trainTask), TrainingEnd(trainTask)) /\ n \in Nat
        <4>1. dates \subseteq Nat
          BY TaskFacts DEF TrainInv, EvaluationDates
        <4>2. dates \subseteq EvaluationDates(TrainingStart(trainTask), TrainingEnd(trainTask))
          OBVIOUS
        <4> HIDE DEF dates, n
        <4> QED BY <3>2, <4>1, <4>2
      <3> HIDE DEF n, dates
      <3>4. \A r \in dataset' : BuiltRow(r)
        BY <2>1, <3>1, <3>3, EvaluatedInside DEF TrainInv
      <3>5. trainDate' \in Nat /\ dataset \subseteq dataset'
        BY <3>1, <3>3
      <3>6. \A r \in dataset' : BuiltRow(r)'
        BY <2>1, <3>4, SameBuilt
      <3>7. \A fit \in fits' : KnownFit(fit)'
        BY <2>1, <3>5, SameFit DEF TrainInv
      <3> QED BY <2>1, <3>1, <3>5, <3>6, <3>7 DEF TrainInv
    <2> QED BY <2>2, <2>3
  <1>3. CASE FitPeriod
    <2> DEFINE rows == Purged(Supervised(dataset), TrainingEnd(trainTask))
               fit == [until |-> TrainingEnd(trainTask), predicts |-> trainTask.start, rows |-> rows]
    <2>1. /\ UNCHANGED <<trainFeed, trainTask, trainDate, dataset>> /\ trainTask \in Periods
          /\ trainStage' \in {"insufficient", "done"} /\ (fits' = fits \/ fits' = {fit})
      BY <1>3 DEF FitPeriod
    <2>2. rows \subseteq dataset /\ \A r \in rows : r.known # 0 /\ r.known <= TrainingEnd(trainTask)
      BY DEF Purged, Supervised
    <2>3. \A r \in rows : r.known \in Nat /\ r.date <= TrainingEnd(trainTask)
      BY <2>2, BuiltLabels DEF TrainInv, BuiltRow
    <2>4. TrainingEnd(trainTask) \in Nat /\ TrainingEnd(trainTask) = trainTask.start - 1
          /\ trainTask.start \in Nat
      BY <2>1, TaskFacts DEF TrainInv, TrainingEnd, Periods
    <2> HIDE DEF rows
    <2>5. \A r \in rows : r.known \in 1..TrainingEnd(trainTask)
      BY <2>2, <2>3, <2>4
    <2>6. KnownFit(fit)
      BY <2>2, <2>3, <2>4, <2>5 DEF KnownFit
    <2> HIDE DEF fit
    <2>7. \A f \in fits' : KnownFit(f)
      BY <2>1, <2>6 DEF TrainInv
    <2>8. \A f \in fits' : KnownFit(f)'
      BY <2>1, <2>7, SameFit
    <2> QED BY <2>1, <2>8, SameBuilt DEF TrainInv
  <1>4. CASE FitFolds
    <2> DEFINE rows == Supervised(dataset)
               parts == Folds(trainTask, rows)
               trained(f) == Purged(RowsFrom(rows, f.start, f.until), f.until)
               fit(f) == [until |-> f.until, predicts |-> f.predicts, rows |-> trained(f)]
    <2>1. /\ UNCHANGED <<trainFeed, trainTask, trainDate, dataset>> /\ trainTask \in Walks
          /\ trainStage' \in {"insufficient", "done"}
          /\ \A x \in fits' : \E f \in ToSet(parts) : x = fit(f)
      BY <1>4 DEF FitFolds
    <2>2. \A r \in rows : r.date \in 1..trainTask.end
      BY <2>1 DEF TrainInv, BuiltRow, Supervised, TrainingEnd, Walks
    <2>3. ASSUME NEW f \in ToSet(parts)
          PROVE  KnownFit(fit(f))
      <3>1. f.until \in Nat /\ f.until < f.predicts /\ f.until <= trainTask.end
        <4> HIDE DEF rows
        <4> QED BY <2>1, <2>2, FoldsEndInside
      <3>2. trained(f) \subseteq dataset
        BY DEF Purged, RowsFrom, Supervised
      <3>3. \A r \in trained(f) : r.date <= f.until /\ r.known # 0 /\ r.known <= f.until
        BY DEF Purged, RowsFrom
      <3>4. \A r \in trained(f) : r.known \in Nat
        BY <3>2, BuiltLabels DEF TrainInv
      <3>5. TrainingEnd(trainTask) = trainTask.end /\ trainTask \notin Periods
        BY <2>1 DEF TrainingEnd, Walks, Periods
      <3> HIDE DEF trained
      <3>6. \A r \in trained(f) : r.known \in 1..f.until
        BY <3>1, <3>3, <3>4
      <3> QED BY <3>1, <3>2, <3>3, <3>5, <3>6 DEF KnownFit
    <2> HIDE DEF fit, parts
    <2>4. \A x \in fits' : KnownFit(x)
      BY <2>1, <2>3
    <2>5. \A x \in fits' : KnownFit(x)'
      BY <2>1, <2>4, SameFit
    <2> QED BY <2>1, <2>5, SameBuilt DEF TrainInv
  <1>5. CASE UNCHANGED trainVars
    BY <1>5, SameFit, SameBuilt DEF trainVars, TrainInv
  <1> QED BY <1>1, <1>2, <1>3, <1>4, <1>5 DEF TrainNext

(* The invariant of the training: every row of the dataset is the one built*)
(* from the prices at hand on one of its dates, and every fit is of rows   *)
(* whose labels its cutoff knows.                                          *)
THEOREM TrainInvariant == TrainSpec => []TrainInv
  <1> QED BY TrainInit_, TrainStep, PTL DEF TrainSpec

(* The shape of the training rows.                                         *)
THEOREM TrainTypeCorrect == TrainSpec => []TrainTypeOK
  <1> QED BY TrainInvariant, InvTypesRows, PTL

(* No model is fitted on a label its cutoff does not determine.            *)
THEOREM FitsWithoutFuture == TrainSpec => []NoFutureLabels
  <1> QED BY TrainInvariant, InvKnowsLabels, PTL

-----------------------------------------------------------------------------
(* The trading plan.                                                       *)

LEMMA StepsKeep ==
  ASSUME NEW n \in Nat, NEW B, NEW F, F[{}] \in B[{}],
         \A u \in SUBSET (1..n) : u # {} /\ F[u \ {Max(u)}] \in B[u \ {Max(u)}] => F[u] \in B[u]
  PROVE  \A u \in SUBSET (1..n) : F[u] \in B[u]
  <1> DEFINE S == 1..n
             pick == LastOf(S)
  <1>1. IsFiniteSet(S) /\ \A u \in SUBSET S : u # {} => pick[u] \in u
    BY Intervals, LastOfIs
  <1>2. \A u \in SUBSET S : pick[u] = Max(u)
    BY DEF LastOf
  <1>3. \A u \in SUBSET S : u # {} /\ F[u \ {Max(u)}] \in B[u \ {Max(u)}] => F[u] \in B[u]
    OBVIOUS
  <1> HIDE DEF S, pick
  <1>4. \A u \in SUBSET S :
          u # {} /\ F[u \ {pick[u]}] \in B[u \ {pick[u]}] => F[u] \in B[u]
    BY <1>2, <1>3
  <1>5. \A u \in SUBSET S : F[u] \in B[u]
    BY <1>1, <1>4, FoldsKeep
  <1> QED BY <1>5 DEF S

Distinct(s) == \A i, j \in DOMAIN s : s[i] = s[j] => i = j

LEMMA InsertedIs ==
  ASSUME NEW C, NEW s \in Seq(C), NEW r \in C, NEW behind \in SUBSET (DOMAIN s)
  PROVE  \E k \in 1..Len(s) + 1 :
           /\ DOMAIN Inserted(s, r, behind) = 1..Len(s) + 1
           /\ \A i \in 1..k - 1 : Inserted(s, r, behind)[i] = s[i]
           /\ Inserted(s, r, behind)[k] = r
           /\ \A i \in k + 1..Len(s) + 1 : Inserted(s, r, behind)[i] = s[i - 1]
  <1> DEFINE k == IF behind = {} THEN Len(s) + 1 ELSE Min(behind)
             n == Len(s)
  <1>1. k \in 1..n + 1 /\ n \in Nat
    <2>1. CASE behind = {}
      BY <2>1
    <2>2. CASE behind # {}
      <3>1. behind \subseteq Nat /\ behind \subseteq 1..Len(s)
        OBVIOUS
      <3>2. Min(behind) \in behind
        BY <2>2, <3>1, MinIs
      <3> QED BY <2>2, <3>1, <3>2
    <2> QED BY <2>1, <2>2
  <1>2. Inserted(s, r, behind) = InsertAt(s, k, r)
    BY DEF Inserted
  <1> HIDE DEF k
  <1> DEFINE a == SubSeq(s, 1, k - 1)
             b == <<r>>
             c == SubSeq(s, k, n)
  <1>3. a \in Seq(C) /\ Len(a) = k - 1 /\ \A i \in 1..k - 1 : a[i] = s[i]
    BY <1>1
  <1>4. c \in Seq(C) /\ Len(c) = n - k + 1 /\ \A i \in 1..n - k + 1 : c[i] = s[k + i - 1]
    BY <1>1
  <1>5. b \in Seq(C) /\ Len(b) = 1 /\ b[1] = r
    OBVIOUS
  <1> DEFINE x == (a \o b) \o c
  <1>6. InsertAt(s, k, r) = x
    BY DEF InsertAt
  <1> HIDE DEF a, b, c, n
  <1>7. /\ DOMAIN x = 1..n + 1 /\ (\A i \in 1..k - 1 : x[i] = a[i]) /\ x[k] = r
        /\ \A i \in k + 1..n + 1 : x[i] = c[i - k]
    <2> DEFINE d == a \o b
    <2>1. /\ d \in Seq(C) /\ Len(d) = Len(a) + Len(b)
          /\ \A i \in 1..Len(a) + Len(b) : d[i] = IF i <= Len(a) THEN a[i] ELSE b[i - Len(a)]
      BY <1>3, <1>5, ConcatProperties
    <2> HIDE DEF d
    <2>2. Len(d) = k /\ (\A i \in 1..k - 1 : d[i] = a[i]) /\ d[k] = r
      <3>1. k \in Int /\ Len(a) = k - 1 /\ Len(b) = 1 /\ Len(a) + Len(b) = k
        BY <1>1, <1>3, <1>5
      <3>2. \A i \in 1..k : d[i] = IF i <= k - 1 THEN a[i] ELSE b[i - (k - 1)]
        BY <2>1, <3>1
      <3>3. k \in 1..k /\ ~(k <= k - 1) /\ k - (k - 1) = 1
        BY <1>1
      <3>4. \A i \in 1..k - 1 : i \in 1..k /\ i <= k - 1
        BY <1>1
      <3> HIDE DEF d
      <3>5. d[k] = r
        BY <1>5, <3>2, <3>3
      <3> QED BY <2>1, <3>1, <3>2, <3>4, <3>5
    <2>3. /\ d \o c \in Seq(C) /\ Len(d \o c) = Len(d) + Len(c)
          /\ \A i \in 1..Len(d) + Len(c) :
               (d \o c)[i] = IF i <= Len(d) THEN d[i] ELSE c[i - Len(d)]
      BY <1>4, <2>1, ConcatProperties
    <2> DEFINE z == d \o c
    <2> HIDE DEF z
    <2>4. /\ DOMAIN z = 1..n + 1
          /\ \A i \in 1..n + 1 : z[i] = IF i <= k THEN d[i] ELSE c[i - k]
      <3>1. Len(z) = n + 1
        BY <1>1, <1>4, <2>2, <2>3 DEF z
      <3>2. z \in Seq(C) /\ \A i \in 1..Len(z) : z[i] = IF i <= k THEN d[i] ELSE c[i - k]
        BY <2>2, <2>3 DEF z
      <3> QED BY <3>1, <3>2
    <2>5. (\A i \in 1..k - 1 : z[i] = a[i]) /\ z[k] = r /\ \A i \in k + 1..n + 1 : z[i] = c[i - k]
      BY <1>1, <2>2, <2>4
    <2>6. x = z
      BY DEF z, d
    <2> HIDE DEF x
    <2> QED BY <2>4, <2>5, <2>6
  <1> HIDE DEF x
  <1>8. \A i \in k + 1..n + 1 : x[i] = s[i - 1]
    <2> SUFFICES ASSUME NEW i \in k + 1..n + 1 PROVE x[i] = s[i - 1]
      OBVIOUS
    <2>1. i - k \in 1..n - k + 1 /\ k + (i - k) - 1 = i - 1
      BY <1>1
    <2> QED BY <1>4, <1>7, <2>1
  <1>9. \A i \in 1..k - 1 : x[i] = s[i]
    BY <1>3, <1>7
  <1> QED BY <1>1, <1>2, <1>6, <1>7, <1>8, <1>9 DEF n

LEMMA InsertedDistinct ==
  ASSUME NEW C, NEW s \in Seq(C), NEW r \in C, NEW behind \in SUBSET (DOMAIN s),
         Distinct(s), \A i \in DOMAIN s : s[i] # r
  PROVE  /\ Distinct(Inserted(s, r, behind))
         /\ \A i \in DOMAIN Inserted(s, r, behind) :
              Inserted(s, r, behind)[i] = r \/ \E j \in DOMAIN s : Inserted(s, r, behind)[i] = s[j]
  <1> DEFINE x == Inserted(s, r, behind)
             n == Len(s)
  <1>1. n \in Nat /\ DOMAIN s = 1..n
    OBVIOUS
  <1>2. PICK k \in 1..n + 1 : /\ DOMAIN x = 1..n + 1 /\ \A i \in 1..k - 1 : x[i] = s[i]
                              /\ x[k] = r /\ \A i \in k + 1..n + 1 : x[i] = s[i - 1]
    <2> HIDE DEF x
    <2> QED BY InsertedIs DEF x
  <1> HIDE DEF x, n
  <1>3. ASSUME NEW i \in 1..n + 1
        PROVE  \/ i = k /\ x[i] = r
               \/ i < k /\ i \in DOMAIN s /\ x[i] = s[i]
               \/ i > k /\ i - 1 \in DOMAIN s /\ x[i] = s[i - 1]
    BY <1>1, <1>2
  <1>4. \A i, j \in 1..n + 1 : x[i] = x[j] => i = j
    <2> SUFFICES ASSUME NEW i \in 1..n + 1, NEW j \in 1..n + 1, x[i] = x[j]
                 PROVE  i = j
      OBVIOUS
    <2>1. \/ i = k /\ x[i] = r
          \/ i < k /\ i \in DOMAIN s /\ x[i] = s[i]
          \/ i > k /\ i - 1 \in DOMAIN s /\ x[i] = s[i - 1]
      BY <1>3
    <2>2. \/ j = k /\ x[j] = r
          \/ j < k /\ j \in DOMAIN s /\ x[j] = s[j]
          \/ j > k /\ j - 1 \in DOMAIN s /\ x[j] = s[j - 1]
      BY <1>3
    <2>3. /\ \A p \in DOMAIN s : s[p] # r
          /\ \A p, q \in DOMAIN s : s[p] = s[q] => p = q
      BY DEF Distinct
    <2>4. i \in Int /\ j \in Int /\ k \in Int
      BY <1>1
    <2>5. CASE i = k
      BY <2>1, <2>2, <2>3, <2>4, <2>5
    <2>6. CASE i < k
      <3>1. j < k => i = j
        BY <2>1, <2>2, <2>3, <2>4, <2>6
      <3>2. j > k => i = j - 1
        BY <2>1, <2>2, <2>3, <2>4, <2>6
      <3> QED BY <2>1, <2>2, <2>3, <2>4, <2>6, <3>1, <3>2
    <2>7. CASE i > k
      <3>1. j < k => i - 1 = j
        BY <2>1, <2>2, <2>3, <2>4, <2>7
      <3>2. j > k => i - 1 = j - 1
        BY <2>1, <2>2, <2>3, <2>4, <2>7
      <3> QED BY <2>1, <2>2, <2>3, <2>4, <2>7, <3>1, <3>2
    <2> QED BY <2>4, <2>5, <2>6, <2>7
  <1>5. \A i \in 1..n + 1 : x[i] = r \/ \E j \in DOMAIN s : x[i] = s[j]
    BY <1>3
  <1> QED BY <1>2, <1>4, <1>5 DEF Distinct, x

(* The total of a sequence mapped by g, one element longer.                *)
LEMMA TotalGrows ==
  ASSUME NEW T, NEW s \in Seq(T), NEW x \in T, NEW g, \A y \in T : g[y] \in Int
  PROVE  /\ Total([i \in DOMAIN Append(s, x) |-> g[Append(s, x)[i]]])
              = Total([i \in DOMAIN s |-> g[s[i]]]) + g[x]
         /\ Total([i \in DOMAIN s |-> g[s[i]]]) \in Int
  <1> DEFINE n == Len(s)
             t == Append(s, x)
             gs == [i \in DOMAIN s |-> g[s[i]]]
             gt == [i \in DOMAIN t |-> g[t[i]]]
             y == g[x]
             longer == Append(gs, y)
  <1>1. /\ n \in Nat /\ DOMAIN s = 1..n /\ DOMAIN t = 1..n + 1 /\ t[n + 1] = x
        /\ \A i \in 1..n : s[i] \in T /\ t[i] = s[i]
    OBVIOUS
  <1>2. gs \in Seq(Int) /\ Len(gs) = n /\ g[x] \in Int
    BY <1>1
  <1>3. \A i \in 1..n : gs[i] = g[s[i]]
    BY <1>1
  <1>4. DOMAIN gt = 1..n + 1 /\ gt = [i \in 1..n + 1 |-> gt[i]] /\ gt[n + 1] = g[x]
        /\ \A i \in 1..n : gt[i] = g[s[i]]
    BY <1>1
  <1> HIDE DEF n, t, gs, gt, y
  <1>5. /\ longer \in Seq(Int) /\ DOMAIN longer = 1..n + 1
        /\ longer[n + 1] = y /\ \A i \in 1..n : longer[i] = gs[i]
    BY <1>1, <1>2 DEF y
  <1>6. longer = [i \in 1..n + 1 |-> longer[i]]
    <2> HIDE DEF longer
    <2> QED BY <1>5
  <1>7. gt = longer
    <2>1. \A i \in 1..n + 1 : i = n + 1 \/ i \in 1..n
      BY <1>1
    <2> HIDE DEF longer
    <2>2. \A i \in 1..n + 1 : gt[i] = longer[i]
      BY <1>3, <1>4, <1>5, <2>1 DEF y
    <2> QED BY <1>4, <1>6, <2>2
  <1>8. Total(longer) = Total(gs) + y /\ Total(gs) \in Int
    <2>1. y \in Int
      BY <1>2 DEF y
    <2> QED BY <1>2, <2>1, TotalAppend, TotalIsSum
  <1>9. Total(gt) = Total(gs) + g[x] /\ Total(gs) \in Int
    <2> HIDE DEF longer
    <2> QED BY <1>7, <1>8 DEF y
  <1> QED BY <1>9 DEF gs, gt, t

LEMMA FiniteHasGreatest ==
  ASSUME NEW S, IsFiniteSet(S), S \subseteq Nat, S # {}
  PROVE  \E x \in S : \A y \in S : y <= x
  <1> DEFINE T == {u \in SUBSET S : u # {} => \E x \in u : \A y \in u : y <= x}
  <1>1. ASSUME NEW u \in SUBSET S, \A x \in u : u \ {x} \in T
        PROVE  u \in T
    <2>1. CASE u = {}
      BY <2>1
    <2>2. CASE u # {}
      <3>1. PICK x \in u : TRUE
        BY <2>2
      <3>2. CASE u \ {x} = {}
        <4>1. \A y \in u : y <= x
          BY <3>2
        <4> QED BY <4>1
      <3>3. CASE u \ {x} # {}
        <4>1. PICK m \in u \ {x} : \A y \in u \ {x} : y <= m
          BY <1>1, <3>3
        <4>2. \A y \in u : y <= IF m <= x THEN x ELSE m
          BY <4>1
        <4>3. (IF m <= x THEN x ELSE m) \in u
          OBVIOUS
        <4> QED BY <4>2, <4>3
      <3> QED BY <3>2, <3>3
    <2> QED BY <2>1, <2>2
  <1>2. SUBSET S \subseteq T
    <2> HIDE DEF T
    <2> QED BY <1>1, AllSubsets
  <1> QED BY <1>2

LEMMA ElementsAreFinite ==
  ASSUME NEW C, NEW s \in Seq(C)
  PROVE  IsFiniteSet(ToSet(s)) /\ ToSet(s) = {s[i] : i \in 1..Len(s)}
  <1> DEFINE n == Len(s)
  <1>1. n \in Nat /\ DOMAIN s = 1..n
    OBVIOUS
  <1> HIDE DEF n
  <1>2. IsFiniteSet({s[i] : i \in 1..n})
    <2>1. IsFiniteSet(1..n)
      BY <1>1, Intervals
    <2> DEFINE I == 1..n
    <2> HIDE DEF I
    <2>2. IsFiniteSet({s[i] : i \in I})
      BY <2>1, ImageIsFinite DEF I
    <2> QED BY <2>2 DEF I
  <1>3. ToSet(s) = {s[i] : i \in 1..n}
    BY <1>1 DEF ToSet
  <1> QED BY <1>2, <1>3 DEF n

-----------------------------------------------------------------------------
(* The quotes of a plan, and its reference session.                        *)

QuoteType == [price : Nat, session : Nat]
Spendable(t) == Quote(t) # NoQuote /\ Quote(t).session >= Reference /\ Quote(t).price >= PlanMinPrice
AskedFeed(feed) ==
  /\ {"SPY", "QQQ"} \cup ToSet(PlanUniverse) \subseteq DOMAIN feed
  /\ \A b \in PlanBooks : \A lot \in ToSet(b.lots) : lot.ticker \in DOMAIN feed
  /\ \A t \in DOMAIN feed : feed[t] \in Seq(RowType)
Whole(p) ==
  /\ \A i \in DOMAIN p.buys : p.buys[i] \in [ticker : ToSet(PlanUniverse), quantity : Nat, price : Nat]
  /\ p.cashAfter \in Nat /\ DOMAIN p.holdings = Held
Fitting(p) ==
  LET proposed == {p.buys[i].ticker : i \in DOMAIN p.buys}
      costs == [i \in DOMAIN p.buys |-> p.buys[i].quantity * p.buys[i].price]
  IN proposed # {} =>
       /\ Cardinality(proposed) = Len(p.buys)
       /\ Total(costs) <= planBook.cash /\ Total(costs) + Marked(Lots) <= planBook.starting
       /\ \A i \in DOMAIN p.buys : 0 < costs[i] /\ costs[i] <= Room(p.buys[i].ticker)
       /\ \A t \in proposed \cup Held : Quote(t).session >= Reference
       /\ \A t \in proposed \cap Held : p.holdings[t] = "KEEP"
       /\ proposed \subseteq p.coverage.eligible \cup p.coverage.failed
PlanInv ==
  /\ planMode \in PlanModes /\ planBook \in PlanBooks /\ AskedFeed(planFeed)
  /\ planStage \in {"regime", "prices", "scan", "build", "built", "failed"}
  /\ planStage \in {"build", "built"} => planQuotes = [t \in DOMAIN planFeed |-> Latest(planFeed[t])]
  /\ planStage # "built" => plan = NoPlan
  /\ planStage = "built" => Whole(plan) /\ Fitting(plan)

LEMMA LatestIs ==
  ASSUME NEW rows \in Seq(RowType)
  PROVE  /\ Latest(rows) \in QuoteType
         /\ Latest(rows) # NoQuote => Latest(rows).price > 0 /\ Latest(rows).session > 0
  <1>1. CASE ~HasClose(rows)
    BY <1>1 DEF Latest, NoQuote, QuoteType
  <1>2. CASE HasClose(rows)
    <2> DEFINE known == {i \in DOMAIN rows : rows[i].close > 0}
               n == Len(rows)
    <2>1. known \subseteq 1..n /\ known # {} /\ n \in Nat
      BY <1>2 DEF HasClose
    <2>2. PICK i \in known : \A j \in known : j <= i
      <3>1. known \subseteq Nat /\ \A i \in known : i <= n
        BY <2>1
      <3> HIDE DEF known, n
      <3> QED BY <2>1, <3>1, GreatestExists
    <2>3. AsOf(rows) = CHOOSE k \in known : \A j \in known : j <= k
      BY DEF AsOf
    <2>4. AsOf(rows) \in known
      <3> HIDE DEF known
      <3> QED BY <2>2, <2>3
    <2>5. rows[AsOf(rows)] \in RowType /\ rows[AsOf(rows)].close > 0 /\ AsOf(rows) \in Nat \ {0}
      BY <2>1, <2>4
    <2>6. Latest(rows) = [price |-> rows[AsOf(rows)].close, session |-> AsOf(rows)]
      BY <1>2 DEF Latest
    <2> QED BY <2>5, <2>6 DEF QuoteType, RowType
  <1> QED BY <1>1, <1>2

LEMMA LotsAre ==
  ASSUME PlanInv
  PROVE  /\ Lots \in Seq(ToSet(Lots)) /\ \A lot \in ToSet(Lots) : lot.quantity \in Nat
         /\ Held \subseteq DOMAIN planFeed
         /\ planBook.cash \in Nat /\ planBook.starting \in Nat \ {0} /\ planBook.target \in Int
         /\ PlanCap \in Nat \ {0} /\ PlanMinPrice \in Nat
  <1>1. planBook \in PlanBooks /\ AskedFeed(planFeed)
    BY DEF PlanInv
  <1>2. /\ planBook.cash \in Nat /\ planBook.starting \in Nat \ {0} /\ planBook.target \in Int
        /\ planBook.lots \in Seq(ToSet(planBook.lots))
        /\ \A lot \in ToSet(planBook.lots) : lot.quantity \in Nat
        /\ PlanCap \in Nat \ {0} /\ PlanMinPrice \in Nat
    BY <1>1, PlanBuildAssumption
  <1>3. \A lot \in ToSet(planBook.lots) : lot.ticker \in DOMAIN planFeed
    BY <1>1 DEF AskedFeed
  <1> QED BY <1>2, <1>3 DEF Lots, Held

LEMMA QuotesAre ==
  ASSUME PlanInv, planStage \in {"build", "built"}, NEW t \in DOMAIN planFeed
  PROVE  /\ Quote(t) \in QuoteType /\ Quote(t).price \in Nat /\ Quote(t).session \in Nat
         /\ Quote(t) # NoQuote => Quote(t).price > 0 /\ Quote(t).session > 0
  <1>1. planFeed[t] \in Seq(RowType) /\ Quote(t) = Latest(planFeed[t])
    BY DEF PlanInv, AskedFeed, Quote
  <1>2. /\ Latest(planFeed[t]) \in QuoteType
        /\ Latest(planFeed[t]) # NoQuote =>
             Latest(planFeed[t]).price > 0 /\ Latest(planFeed[t]).session > 0
    BY <1>1, LatestIs
  <1> QED BY <1>1, <1>2 DEF QuoteType

LEMMA ReferenceIs ==
  ASSUME PlanInv, planStage \in {"build", "built"}
  PROVE  Reference \in Nat
  <1> DEFINE of(tickers) == {Quote(t).session : t \in tickers} \ {0}
             index == of({"SPY", "QQQ"})
             others == ToSet(PlanUniverse) \cup Held
             known == IF index # {} THEN index ELSE of(others)
  <1>1. IsFiniteSet({"SPY", "QQQ"}) /\ IsFiniteSet(others)
    <2>1. IsFiniteSet(ToSet(PlanUniverse))
      BY PlanBuildAssumption, ElementsAreFinite
    <2>2. IsFiniteSet(ToSet(Lots))
      BY LotsAre, ElementsAreFinite
    <2>3. IsFiniteSet(Held)
      <3> DEFINE L == ToSet(Lots)
                 ticker == [lot \in L |-> lot.ticker]
      <3>1. Held = {ticker[lot] : lot \in L}
        BY DEF Held
      <3> HIDE DEF L, ticker
      <3>2. IsFiniteSet({ticker[lot] : lot \in L})
        BY <2>2, ImageIsFinite DEF L
      <3> QED BY <3>1, <3>2
    <2>4. IsFiniteSet({"SPY", "QQQ"})
      <3>1. {"SPY", "QQQ"} = {"SPY"} \cup {"QQQ"} /\ IsFiniteSet({"SPY"}) /\ IsFiniteSet({"QQQ"})
        BY FS_Singleton
      <3> QED BY <3>1, FS_Union
    <2> QED BY <2>1, <2>3, <2>4, FS_Union
  <1>2. ASSUME NEW tickers, IsFiniteSet(tickers), tickers \subseteq DOMAIN planFeed
        PROVE  IsFiniteSet(of(tickers)) /\ of(tickers) \subseteq Nat
    <2> DEFINE session == [t \in tickers |-> Quote(t).session]
               sessions == {session[t] : t \in tickers}
    <2>1. of(tickers) \subseteq sessions
      OBVIOUS
    <2>2. IsFiniteSet(sessions)
      <3> HIDE DEF session
      <3> QED BY <1>2, ImageIsFinite
    <2>3. of(tickers) \subseteq Nat
      BY <1>2, QuotesAre
    <2> HIDE DEF of, sessions
    <2> QED BY <2>1, <2>2, <2>3, FS_Subset
  <1>3. {"SPY", "QQQ"} \subseteq DOMAIN planFeed /\ others \subseteq DOMAIN planFeed
    BY LotsAre DEF PlanInv, AskedFeed
  <1>4. IsFiniteSet(known) /\ known \subseteq Nat
    <2>1. IsFiniteSet(index) /\ index \subseteq Nat
      <3> HIDE DEF of
      <3> QED BY <1>1, <1>2, <1>3
    <2>2. IsFiniteSet(of(others)) /\ of(others) \subseteq Nat
      <3> HIDE DEF of, others
      <3> QED BY <1>1, <1>2, <1>3
    <2> HIDE DEF index, of
    <2> QED BY <2>1, <2>2
  <1>5. Reference = IF known = {} THEN 0 ELSE CHOOSE s \in known : \A r \in known : r <= s
    BY DEF Reference
  <1> HIDE DEF known
  <1>6. known # {} => \E s \in known : \A r \in known : r <= s
    BY <1>4, FiniteHasGreatest
  <1> QED BY <1>4, <1>5, <1>6

-----------------------------------------------------------------------------
(* The candidates: every stock once, and only those that qualify.          *)

Qualified == {t \in ToSet(PlanUniverse) : Qualifies(t)}

LEMMA CandidatesAre == Candidates \in Seq(Qualified) /\ Distinct(Candidates)
  <1> DEFINE evidence == Evidence(Rankable)
             n == Len(PlanUniverse)
             better(t, u) ==
               t \in DOMAIN evidence /\ (u \notin DOMAIN evidence \/ evidence[t] < evidence[u])
             placed(s, i) == IF ~Qualifies(PlanUniverse[i]) THEN s
               ELSE Inserted(s, PlanUniverse[i], {j \in DOMAIN s : better(PlanUniverse[i], s[j])})
             Q == Qualified
             X == Seq(Q)
             op == [p \in X \X (1..n) |-> placed(p[1], p[2])]
             Iterates(F) == F = [u \in SUBSET (1..n) |->
                                  IF u = {} THEN <<>> ELSE placed(F[u \ {Max(u)}], Max(u))]
             taken(u) == {s \in X : Distinct(s) /\ \A j \in DOMAIN s : \E i \in u : s[j] = PlanUniverse[i]}
             B == [u \in SUBSET (1..n) |-> taken(u)]
  <1>1. /\ n \in Nat /\ DOMAIN PlanUniverse = 1..n
        /\ \A i \in 1..n : PlanUniverse[i] \in ToSet(PlanUniverse)
        /\ \A i, j \in 1..n : PlanUniverse[i] = PlanUniverse[j] => i = j
    BY PlanBuildAssumption DEF ToSet
  <1>2. Candidates = (CHOOSE F : Iterates(F))[1..n]
    BY <1>1 DEF Candidates, Sorted, FoldLeft, MapThenFoldSet
  <1>3. ASSUME NEW s \in X, NEW i \in 1..n
        PROVE  placed(s, i) \in X
    <2>1. {j \in DOMAIN s : better(PlanUniverse[i], s[j])} \in SUBSET (DOMAIN s)
      OBVIOUS
    <2>2. Qualifies(PlanUniverse[i]) => PlanUniverse[i] \in Q
      BY <1>1 DEF Qualified
    <2> HIDE DEF Q, better
    <2> QED BY <2>1, <2>2, InsertedStays
  <1>4. ASSUME NEW u \in SUBSET (1..n), u # {}, NEW s \in taken(u \ {Max(u)})
        PROVE  placed(s, Max(u)) \in taken(u)
    <2> DEFINE i == Max(u)
               t == PlanUniverse[i]
               behind == {j \in DOMAIN s : better(t, s[j])}
    <2>1. i \in u /\ i \in 1..n
      BY <1>1, <1>4, MaxIs
    <2>2. s \in X /\ Distinct(s) /\ \A j \in DOMAIN s : \E k \in u \ {i} : s[j] = PlanUniverse[k]
      OBVIOUS
    <2>3. placed(s, i) \in X
      BY <1>3, <2>1, <2>2
    <2>4. CASE ~Qualifies(t)
      <3>1. placed(s, i) = s
        BY <2>4
      <3> HIDE DEF placed, i, X
      <3>2. s \in X /\ Distinct(s) /\ \A j \in DOMAIN s : \E k \in u : s[j] = PlanUniverse[k]
        BY <2>2
      <3>3. s \in taken(u)
        BY <3>2
      <3> QED BY <3>1, <3>3 DEF i
    <2>5. CASE Qualifies(t)
      <3>1. t \in Q /\ behind \in SUBSET (DOMAIN s)
        BY <1>1, <2>1, <2>5 DEF Qualified
      <3>2. \A j \in DOMAIN s : s[j] # t
        BY <1>1, <2>1, <2>2
      <3> DEFINE r == Inserted(s, t, behind)
      <3>3. placed(s, i) = r
        BY <2>5
      <3> HIDE DEF behind, t, i, Q, placed
      <3>4. Distinct(r) /\ \A j \in DOMAIN r : r[j] = t \/ \E k \in DOMAIN s : r[j] = s[k]
        BY <2>2, <3>1, <3>2, InsertedDistinct
      <3> HIDE DEF r
      <3>5. \A j \in DOMAIN r : \E k \in u : r[j] = PlanUniverse[k]
        BY <2>1, <2>2, <3>4 DEF t
      <3> QED BY <2>3, <3>3, <3>4, <3>5 DEF i
    <2> QED BY <2>4, <2>5
  <1>5. \A s \in X : \A i \in 1..n : op[<<s, i>>] = placed(s, i)
    <2> HIDE DEF X, placed
    <2> QED OBVIOUS
  <1>6. <<>> \in X /\ <<>> \in taken({})
    BY DEF Distinct
  <1> HIDE DEF op, placed, Q
  <1>7. \A u \in SUBSET (1..n) : u # {} => Max(u) \in 1..n /\ u \ {Max(u)} \in SUBSET (1..n)
    BY <1>1, MaxIs
  <1>8. \E F : Iterates(F)
    <2>1. PICK F : Steps_(op, <<>>, n, F) /\ \A u \in SUBSET (1..n) : F[u] \in X
      <3>1. \A s \in X : \A i \in 1..n : op[<<s, i>>] \in X
        BY <1>3, <1>5
      <3> HIDE DEF X, n
      <3> QED BY <1>1, <1>6, <3>1, StepsExist
    <2>2. ASSUME NEW u \in SUBSET (1..n), u # {}
          PROVE  op[<<F[u \ {Max(u)}], Max(u)>>] = placed(F[u \ {Max(u)}], Max(u))
      BY <1>5, <1>7, <2>1, <2>2
    <2>3. Iterates(F)
      BY <2>1, <2>2 DEF Steps_
    <2> QED BY <2>3
  <1>9. ASSUME NEW F, Iterates(F)
        PROVE  F[1..n] \in taken(1..n)
    <2>1. F[{}] = <<>> /\ \A u \in SUBSET (1..n) : u # {} => F[u] = placed(F[u \ {Max(u)}], Max(u))
      BY <1>9
    <2> HIDE DEF taken
    <2>2. \A u \in SUBSET (1..n) : B[u] = taken(u)
      OBVIOUS
    <2>3. \A u \in SUBSET (1..n) : u # {} /\ F[u \ {Max(u)}] \in B[u \ {Max(u)}] => F[u] \in B[u]
      BY <1>4, <1>7, <2>1, <2>2
    <2>4. F[{}] \in B[{}]
      BY <1>6, <2>1, <2>2
    <2> HIDE DEF B
    <2>5. \A u \in SUBSET (1..n) : F[u] \in B[u]
      BY <1>1, <2>3, <2>4, StepsKeep
    <2> QED BY <2>2, <2>5
  <1> HIDE DEF Iterates
  <1>10. Candidates \in taken(1..n)
    BY <1>2, <1>8, <1>9
  <1> QED BY <1>10 DEF Q

-----------------------------------------------------------------------------
(* What the builder has spent: the purchases, and what they left.          *)

PurchaseType == [ticker : Qualified, quantity : Nat, price : Nat]
Value(buy) == buy.quantity * buy.price
Spent(a) == Total([i \in DOMAIN a.buys |-> Value(a.buys[i])])
Starting == Larger(0, planBook.starting - Marked(Lots))
Sound(buy) ==
  /\ Spendable(buy.ticker) /\ buy.price = Quote(buy.ticker).price
  /\ 0 < Value(buy) /\ Value(buy) <= Room(buy.ticker)
SpendType == [buys : Seq(PurchaseType), cash : Nat, capacity : Nat]
Accounts ==
  {a \in SpendType :
     /\ a.cash + Spent(a) = planBook.cash /\ a.capacity + Spent(a) = Starting
     /\ Spent(a) \in Nat /\ (a.buys # <<>> => Spent(a) > 0)
     /\ \A i \in DOMAIN a.buys : Sound(a.buys[i])
     /\ \A i, j \in DOMAIN a.buys : a.buys[i].ticker = a.buys[j].ticker => i = j}

LEMMA MarksAre ==
  ASSUME PlanInv, planStage \in {"build", "built"}
  PROVE  Marked(Lots) \in Int /\ Starting \in Nat /\ \A t : Room(t) \in Nat
  <1> DEFINE marks == [i \in DOMAIN Lots |-> Mark(Lots[i])]
             longs(t) == [i \in DOMAIN Lots |->
               IF Lots[i].ticker = t /\ Lots[i].side = "LONG" THEN Mark(Lots[i]) ELSE 0]
             n == Len(Lots)
  <1>1. n \in Nat /\ DOMAIN Lots = 1..n /\ \A i \in 1..n : Lots[i] \in ToSet(Lots)
    BY LotsAre
  <1>2. ASSUME NEW lot \in ToSet(Lots)
        PROVE  Mark(lot) \in Int
    <2>1. lot.ticker \in DOMAIN planFeed /\ lot.quantity \in Nat
      BY LotsAre DEF Held
    <2>2. Quote(lot.ticker).price \in Nat
      BY <2>1, QuotesAre
    <2> QED BY <2>1, <2>2 DEF Mark
  <1> HIDE DEF n
  <1>3. marks \in Seq(Int) /\ \A t : longs(t) \in Seq(Int)
    <2>1. marks \in [1..n -> Int] /\ \A t : longs(t) \in [1..n -> Int]
      BY <1>1, <1>2
    <2> HIDE DEF marks, longs
    <2> QED BY <1>1, <2>1
  <1>4. Total(marks) \in Int /\ \A t : Total(longs(t)) \in Int
    <2> HIDE DEF marks, longs
    <2> QED BY <1>3, TotalIsSum
  <1>5. Marked(Lots) = Total(marks) /\ \A t : Room(t) = Larger(0, PlanCap - Total(longs(t)))
    BY DEF Marked, Room
  <1> HIDE DEF marks, longs
  <1> QED BY <1>4, <1>5, LotsAre DEF Starting, Larger

LEMMA SpendStays ==
  ASSUME PlanInv, planStage \in {"build", "built"}, NEW a \in SpendType, NEW t \in Qualified
  PROVE  /\ Spend(a, t) \in SpendType
         /\ \/ Spend(a, t) = a
            \/ \E buy \in PurchaseType :
                 /\ buy.ticker = t /\ Sound(buy)
                 /\ Spend(a, t) = [buys |-> Append(a.buys, buy), cash |-> a.cash - Value(buy),
                                   capacity |-> a.capacity - Value(buy)]
  <1> DEFINE quote == Quote(t)
             price == quote.price
             budget == Budget(a, t)
             quantity == budget \div price
             usable == quote # NoQuote /\ quote.session >= Reference /\ price >= PlanMinPrice
             buy == [ticker |-> t, quantity |-> quantity, price |-> price]
             value == quantity * price
             after == [buys |-> Append(a.buys, buy), cash |-> a.cash - value,
                       capacity |-> a.capacity - value]
  <1>1. Spend(a, t) = IF ~usable \/ budget < price THEN a ELSE after
    BY DEF Spend
  <1>2. CASE ~usable \/ budget < price
    BY <1>1, <1>2
  <1>3. CASE usable /\ ~(budget < price)
    <2>1. t \in DOMAIN planFeed
      BY DEF PlanInv, AskedFeed, Qualified
    <2>2. price \in Nat \ {0}
      BY <1>3, <2>1, QuotesAre
    <2>3. a.cash \in Nat /\ a.capacity \in Nat /\ a.buys \in Seq(PurchaseType)
      BY DEF SpendType
    <2>4. budget \in Int /\ budget <= a.cash /\ budget <= a.capacity /\ budget <= Room(t)
      <3>1. Room(t) \in Nat /\ planBook.target \in Int /\ PlanCap \in Int
        BY MarksAre, LotsAre
      <3> QED BY <2>3, <3>1 DEF Budget, Smaller
    <2> HIDE DEF budget
    <2>5. quantity \in Int /\ price * quantity <= budget /\ budget >= price
      <3>1. budget >= price
        BY <1>3, <2>2, <2>4
      <3> QED BY <2>2, <2>4, <3>1, DivBelow
    <2>6. quantity > 0
      BY <2>2, <2>4, <2>5
    <2> HIDE DEF quantity, price
    <2>7. quantity \in Nat \ {0} /\ value \in Nat \ {0} /\ value <= budget
      <3>1. quantity \in Nat \ {0}
        BY <2>5, <2>6
      <3>2. value = price * quantity
        BY <2>2, <3>1
      <3>3. value \in Nat \ {0}
        BY <2>2, <3>1
      <3> QED BY <2>5, <3>1, <3>2, <3>3
    <2>8. buy \in PurchaseType /\ buy.ticker = t /\ Value(buy) = value
      BY <2>2, <2>7 DEF PurchaseType, Value
    <2>9. Sound(buy)
      <3>1. buy.price = Quote(t).price
        BY DEF price
      <3>2. Spendable(t)
        BY <1>3 DEF Spendable, price
      <3>3. 0 < value /\ value <= Room(t)
        BY <2>4, <2>7, MarksAre
      <3> HIDE DEF buy, value
      <3> QED BY <2>8, <3>1, <3>2, <3>3 DEF Sound
    <2>10. after \in SpendType
      <3>1. Append(a.buys, buy) \in Seq(PurchaseType)
        <4> HIDE DEF buy
        <4> QED BY <2>3, <2>8
      <3>2. a.cash - value \in Nat /\ a.capacity - value \in Nat
        <4> HIDE DEF value
        <4> QED BY <2>3, <2>4, <2>7
      <3> HIDE DEF buy, value
      <3> QED BY <3>1, <3>2 DEF SpendType
    <2>11. Spend(a, t) = after
      BY <1>1, <1>3 DEF budget, price, quantity
    <2> HIDE DEF buy, value, Spend
    <2>12. Spend(a, t) = [buys |-> Append(a.buys, buy), cash |-> a.cash - Value(buy),
                          capacity |-> a.capacity - Value(buy)]
      BY <2>8, <2>11
    <2> QED BY <2>8, <2>9, <2>10, <2>11, <2>12
  <1> QED BY <1>2, <1>3

LEMMA SpendKeeps ==
  ASSUME PlanInv, planStage \in {"build", "built"}, NEW a \in Accounts, NEW t \in Qualified,
         \A i \in DOMAIN a.buys : a.buys[i].ticker # t
  PROVE  /\ Spend(a, t) \in Accounts
         /\ \A i \in DOMAIN Spend(a, t).buys :
              Spend(a, t).buys[i].ticker = t
                \/ \E j \in DOMAIN a.buys : Spend(a, t).buys[i].ticker = a.buys[j].ticker
  <1> DEFINE after == Spend(a, t)
  <1>1. a \in SpendType /\ after \in SpendType
    BY SpendStays DEF Accounts
  <1>2. CASE after = a
    <2> HIDE DEF after
    <2>1. after \in Accounts
      BY <1>2
    <2> QED BY <1>2, <2>1 DEF after
  <1>3. ASSUME NEW buy \in PurchaseType, buy.ticker = t, Sound(buy),
               after = [buys |-> Append(a.buys, buy), cash |-> a.cash - Value(buy),
                        capacity |-> a.capacity - Value(buy)]
        PROVE  /\ after \in Accounts
               /\ \A i \in DOMAIN after.buys :
                    after.buys[i].ticker = t
                      \/ \E j \in DOMAIN a.buys : after.buys[i].ticker = a.buys[j].ticker
    <2> DEFINE s == a.buys
               r == Append(s, buy)
               n == Len(s)
               v == Value(buy)
    <2>1. /\ after.buys = r /\ after.cash = a.cash - v /\ after.capacity = a.capacity - v
          /\ s \in Seq(PurchaseType) /\ a.cash \in Nat /\ a.capacity \in Nat
      <3> HIDE DEF after, r, v
      <3>1. after.buys = r /\ after.cash = a.cash - v /\ after.capacity = a.capacity - v
        BY <1>3 DEF r, v
      <3> QED BY <1>1, <3>1 DEF SpendType
    <2>2. n \in Nat /\ DOMAIN s = 1..n /\ DOMAIN r = 1..n + 1 /\ r[n + 1] = buy
          /\ \A i \in 1..n : r[i] = s[i]
      BY <2>1
    <2>3. Spent(after) = Spent(a) + v /\ Spent(a) \in Int
      <3> DEFINE g == [b \in PurchaseType |-> Value(b)]
      <3>1. \A b \in PurchaseType : g[b] = Value(b) /\ g[b] \in Int
        BY DEF PurchaseType, Value
      <3>2. \A i \in 1..n : s[i] \in PurchaseType
        BY <2>1, <2>2
      <3>3. [i \in DOMAIN s |-> g[s[i]]] = [i \in DOMAIN s |-> Value(s[i])]
        <4> HIDE DEF g
        <4> QED BY <2>2, <3>1, <3>2
      <3>4. [i \in DOMAIN r |-> g[r[i]]] = [i \in DOMAIN r |-> Value(r[i])]
        <4>1. \A i \in 1..n + 1 : r[i] \in PurchaseType
          <5>1. \A i \in 1..n + 1 : i \in 1..n \/ i = n + 1
            BY <2>2
          <5> HIDE DEF r, n
          <5> QED BY <2>2, <3>2, <5>1
        <4> HIDE DEF g, r
        <4> QED BY <2>2, <3>1, <4>1
      <3> DEFINE before == [i \in DOMAIN s |-> g[s[i]]]
                 now == [i \in DOMAIN r |-> g[r[i]]]
      <3>5. Total(now) = Total(before) + g[buy] /\ Total(before) \in Int
        <4>1. s \in Seq(PurchaseType) /\ buy \in PurchaseType /\ \A b \in PurchaseType : g[b] \in Int
          BY <2>1, <3>1
        <4> HIDE DEF g
        <4> QED BY <4>1, TotalGrows
      <3>6. Spent(after) = Total(now) /\ Spent(a) = Total(before)
        <4> HIDE DEF g, r, after
        <4> QED BY <2>1, <3>3, <3>4 DEF Spent
      <3> HIDE DEF before, now, g, after, v
      <3> QED BY <3>1, <3>5, <3>6 DEF v
    <2>4. \A i \in 1..n + 1 : (i = n + 1 /\ r[i] = buy) \/ (i \in 1..n /\ r[i] = s[i])
      BY <2>2
    <2> HIDE DEF r, v, n, after
    <2>5. /\ after.cash + Spent(after) = planBook.cash /\ after.capacity + Spent(after) = Starting
          /\ Spent(after) \in Nat /\ Spent(after) > 0
      <3>1. a.cash + Spent(a) = planBook.cash /\ a.capacity + Spent(a) = Starting
        BY DEF Accounts
      <3>2. v \in Nat /\ v > 0 /\ Spent(a) \in Nat
        BY <1>3 DEF v, Value, PurchaseType, Sound, Accounts
      <3> QED BY <2>1, <2>3, <3>1, <3>2
    <2>6. \A i \in 1..n + 1 : Sound(r[i])
      <3>1. \A i \in 1..n : Sound(s[i])
        BY <2>2 DEF Accounts
      <3> QED BY <1>3, <2>4, <3>1
    <2>7. \A i, j \in 1..n + 1 : r[i].ticker = r[j].ticker => i = j
      <3>1. \A i, j \in 1..n : s[i].ticker = s[j].ticker => i = j
        BY <2>2 DEF Accounts
      <3>2. \A i \in 1..n : s[i].ticker # buy.ticker
        BY <1>3, <2>2
      <3> QED BY <2>4, <3>1, <3>2
    <2>8. after \in Accounts
      BY <1>1, <2>1, <2>2, <2>5, <2>6, <2>7 DEF Accounts
    <2>9. \A i \in 1..n + 1 : r[i].ticker = t \/ \E j \in DOMAIN s : r[i].ticker = s[j].ticker
      BY <1>3, <2>2, <2>4
    <2> QED BY <2>1, <2>2, <2>8, <2>9
  <1>4. after = a \/ \E buy \in PurchaseType :
          /\ buy.ticker = t /\ Sound(buy)
          /\ after = [buys |-> Append(a.buys, buy), cash |-> a.cash - Value(buy),
                      capacity |-> a.capacity - Value(buy)]
    BY <1>1, SpendStays
  <1>5. CASE after # a
    <2> HIDE DEF after
    <2>1. PICK buy \in PurchaseType :
            /\ buy.ticker = t /\ Sound(buy)
            /\ after = [buys |-> Append(a.buys, buy), cash |-> a.cash - Value(buy),
                        capacity |-> a.capacity - Value(buy)]
      BY <1>4, <1>5
    <2>2. /\ after \in Accounts
          /\ \A i \in DOMAIN after.buys :
               after.buys[i].ticker = t
                 \/ \E j \in DOMAIN a.buys : after.buys[i].ticker = a.buys[j].ticker
      BY <1>3, <2>1
    <2> QED BY <2>2 DEF after
  <1> QED BY <1>2, <1>5

LEMMA AllocationIs ==
  ASSUME PlanInv, planStage \in {"build", "built"}
  PROVE  /\ Allocation(Candidates) \in Accounts
         /\ Allocation(Candidates).buys # <<>> => ~CapacityError
  <1> DEFINE c == Candidates
             n == Len(c)
             untouched == [buys |-> <<>>, cash |-> planBook.cash, capacity |-> Starting]
             X == SpendType
             op == [p \in X \X (1..n) |-> Spend(p[1], c[p[2]])]
             Iterates(F) == F = [u \in SUBSET (1..n) |->
                                  IF u = {} THEN untouched ELSE Spend(F[u \ {Max(u)}], c[Max(u)])]
             from(a, u) == \A i \in DOMAIN a.buys : \E k \in u : a.buys[i].ticker = c[k]
             B == [u \in SUBSET (1..n) |-> {a \in Accounts : from(a, u)}]
  <1>1. /\ n \in Nat /\ DOMAIN c = 1..n /\ \A i \in 1..n : c[i] \in Qualified
        /\ \A i, j \in 1..n : c[i] = c[j] => i = j
    BY CandidatesAre DEF Distinct
  <1>2. Allocation(c) = IF CapacityError THEN untouched ELSE (CHOOSE F : Iterates(F))[1..n]
    <2>1. Allocation(c) = IF CapacityError THEN untouched ELSE FoldLeft(Spend, untouched, c)
      BY DEF Allocation, Starting
    <2>2. FoldLeft(Spend, untouched, c) = (CHOOSE F : Iterates(F))[1..n]
      <3> HIDE DEF c, untouched, n
      <3> QED BY <1>1 DEF FoldLeft, MapThenFoldSet
    <2> HIDE DEF c, untouched, Iterates, n
    <2> QED BY <2>1, <2>2
  <1>3. untouched \in SpendType /\ untouched \in Accounts /\ from(untouched, {})
    <2>1. planBook.cash \in Nat /\ Starting \in Nat
      BY LotsAre, MarksAre
    <2>2. untouched \in SpendType
      BY <2>1 DEF SpendType
    <2>3. Spent(untouched) = 0
      <3>1. [i \in DOMAIN untouched.buys |-> Value(untouched.buys[i])] = <<>>
        OBVIOUS
      <3>2. Total(<<>>) = 0
        <4>1. <<>> \in Seq(Int) /\ DOMAIN <<>> = {}
          OBVIOUS
        <4>2. Total(<<>>) = Sum(<<>>, {})
          BY <4>1, TotalIsSum
        <4> QED BY <4>2, SumOfNone
      <3> QED BY <3>1, <3>2 DEF Spent
    <2>4. untouched.cash = planBook.cash /\ untouched.capacity = Starting /\ untouched.buys = <<>>
      OBVIOUS
    <2> HIDE DEF untouched
    <2> QED BY <2>1, <2>2, <2>3, <2>4 DEF Accounts
  <1>4. \A a \in X : \A i \in 1..n : op[<<a, i>>] = Spend(a, c[i]) /\ op[<<a, i>>] \in X
    <2>1. \A a \in X : \A i \in 1..n : Spend(a, c[i]) \in X
      <3> HIDE DEF c, n
      <3> QED BY <1>1, SpendStays
    <2> HIDE DEF X, c, n
    <2> QED BY <2>1
  <1>5. \A u \in SUBSET (1..n) : u # {} => Max(u) \in u /\ Max(u) \in 1..n /\ u \ {Max(u)} \in SUBSET (1..n)
    BY <1>1, MaxIs
  <1> HIDE DEF op, c, n, untouched
  <1>6. ASSUME NEW u \in SUBSET (1..n), u # {}, NEW a \in Accounts, from(a, u \ {Max(u)})
        PROVE  Spend(a, c[Max(u)]) \in Accounts /\ from(Spend(a, c[Max(u)]), u)
    <2> DEFINE k == Max(u)
               t == c[k]
               after == Spend(a, t)
    <2>1. k \in u /\ k \in 1..n /\ t \in Qualified
      BY <1>1, <1>5, <1>6
    <2>2. \A i \in DOMAIN a.buys : \E j \in u \ {k} : a.buys[i].ticker = c[j]
      BY <1>6
    <2> HIDE DEF k
    <2>3. \A i \in DOMAIN a.buys : a.buys[i].ticker # t
      BY <1>1, <2>1, <2>2
    <2> HIDE DEF t
    <2>4. /\ after \in Accounts
          /\ \A i \in DOMAIN after.buys :
               after.buys[i].ticker = t \/ \E j \in DOMAIN a.buys : after.buys[i].ticker = a.buys[j].ticker
      BY <2>1, <2>3, SpendKeeps
    <2> HIDE DEF after
    <2>5. \A i \in DOMAIN after.buys : \E j \in u : after.buys[i].ticker = c[j]
      BY <2>1, <2>2, <2>4 DEF t
    <2> QED BY <2>4, <2>5 DEF after, t, k
  <1>7. \E F : Iterates(F)
    <2>1. PICK F : Steps_(op, untouched, n, F) /\ \A u \in SUBSET (1..n) : F[u] \in X
      <3> HIDE DEF X
      <3> QED BY <1>1, <1>3, <1>4, StepsExist DEF X
    <2>2. ASSUME NEW u \in SUBSET (1..n), u # {}
          PROVE  op[<<F[u \ {Max(u)}], Max(u)>>] = Spend(F[u \ {Max(u)}], c[Max(u)])
      BY <1>4, <1>5, <2>1, <2>2
    <2>3. Iterates(F)
      BY <2>1, <2>2 DEF Steps_
    <2> QED BY <2>3
  <1>8. ASSUME NEW F, Iterates(F)
        PROVE  F[1..n] \in Accounts
    <2>1. /\ F[{}] = untouched
          /\ \A u \in SUBSET (1..n) : u # {} => F[u] = Spend(F[u \ {Max(u)}], c[Max(u)])
      BY <1>8
    <2>2. \A u \in SUBSET (1..n) : B[u] = {a \in Accounts : from(a, u)}
      OBVIOUS
    <2> HIDE DEF from
    <2>3. \A u \in SUBSET (1..n) : u # {} /\ F[u \ {Max(u)}] \in B[u \ {Max(u)}] => F[u] \in B[u]
      <3> HIDE DEF B
      <3> QED BY <1>5, <1>6, <2>1, <2>2
    <2>4. F[{}] \in B[{}]
      BY <1>3, <2>1, <2>2
    <2> HIDE DEF B
    <2>5. \A u \in SUBSET (1..n) : F[u] \in B[u]
      BY <1>1, <2>3, <2>4, StepsKeep
    <2> QED BY <2>2, <2>5
  <1> HIDE DEF Iterates
  <1>9. Allocation(c) \in Accounts /\ (Allocation(c).buys # <<>> => ~CapacityError)
    <2>1. untouched.buys = <<>>
      BY DEF untouched
    <2> QED BY <1>2, <1>3, <1>7, <1>8, <2>1
  <1> QED BY <1>9 DEF c

-----------------------------------------------------------------------------
LEMMA OncePerIndex ==
  ASSUME NEW m \in Nat, NEW f, \A i, j \in 1..m : f[i] = f[j] => i = j
  PROVE  Cardinality({f[i] : i \in 1..m}) = m
  <1> DEFINE S == 1..m
             T == {f[i] : i \in S}
             g == [i \in S |-> f[i]]
  <1>1. g \in [S -> T] /\ (\A i, j \in S : g[i] = g[j] => i = j) /\ \A t \in T : \E i \in S : g[i] = t
    OBVIOUS
  <1>2. IsFiniteSet(S) /\ Cardinality(S) = m
    BY Intervals
  <1> HIDE DEF S, T, g
  <1>3. g \in Bijection(S, T)
    BY <1>1 DEF Bijection, Injection, Surjection, IsInjective
  <1>4. ExistsBijection(S, T)
    BY <1>3 DEF ExistsBijection
  <1>5. Cardinality(T) = Cardinality(S)
    BY <1>2, <1>4, FS_Bijection
  <1> QED BY <1>2, <1>5 DEF S, T

(* A candidate that is held is not up for exit.                            *)
LEMMA QualifiedIsKept ==
  ASSUME NEW t \in Qualified, t \in Held
  PROVE  Review(t) = "KEEP"
  <1>1. Names # {} /\ Complete(t)
    BY DEF Qualified, Qualifies
  <1>2. CASE Chosen = "CONSENSUS"
    <2>1. ~(Cardinality(Votes(t, "AVOID")) >= 2)
      BY <1>2 DEF Qualified, Qualifies, ConsensusQualifies
    <2> QED BY <1>1, <1>2, <2>1 DEF Review
  <1>3. CASE Chosen # "CONSENSUS"
    <2>1. planOutputs[Chosen][t].signal = "BUY"
      BY <1>3 DEF Qualified, Qualifies
    <2> QED BY <1>1, <1>3, <2>1 DEF Review
  <1> QED BY <1>2, <1>3

(* A stock with a usable quote that is recommended is eligible.            *)
LEMMA UsableIsEligible ==
  ASSUME PlanInv, planStage \in {"build", "built"}, NEW t \in Qualified, Spendable(t),
         NEW failed, NEW buys, t \in {buys[i].ticker : i \in DOMAIN buys}
  PROVE  t \in Coverage(failed, buys).eligible \cup Coverage(failed, buys).failed
  <1> DEFINE U == ToSet(PlanUniverse)
             stale == {u \in U : Quote(u) # NoQuote /\ Quote(u).session < Reference}
             missing == {u \in U : Quote(u) = NoQuote}
             below == {u \in U \ missing : Quote(u).price < PlanMinPrice}
             silent == {u \in U : Status(u, buys) = "UNAVAILABLE"}
  <1>1. t \in U /\ t \in DOMAIN planFeed
    BY DEF Qualified, PlanInv, AskedFeed
  <1>2. Quote(t).price \in Nat /\ Quote(t).session \in Nat /\ Reference \in Nat /\ PlanMinPrice \in Nat
    BY <1>1, QuotesAre, ReferenceIs, LotsAre
  <1>3. Quote(t) # NoQuote /\ Quote(t).session >= Reference /\ Quote(t).price >= PlanMinPrice
    BY DEF Spendable
  <1>4. t \notin stale /\ t \notin missing /\ t \notin below
    BY <1>2, <1>3
  <1>5. Status(t, buys) = "RECOMMENDED"
    BY DEF Status
  <1>6. t \notin silent
    BY <1>5
  <1>7. /\ Coverage(failed, buys).eligible = U \ (stale \cup missing \cup below \cup silent \cup failed)
        /\ Coverage(failed, buys).failed = failed
    BY DEF Coverage
  <1> HIDE DEF stale, missing, below, silent, U
  <1> QED BY <1>1, <1>4, <1>6, <1>7

LEMMA BuiltFits ==
  ASSUME PlanInv, planStage = "build", NEW failed
  PROVE  Whole(Built(Candidates, failed)) /\ Fitting(Built(Candidates, failed))
  <1> DEFINE p == Built(Candidates, failed)
             a == Allocation(Candidates)
             s == a.buys
             m == Len(s)
             proposed == {s[i].ticker : i \in DOMAIN s}
             costs == [i \in DOMAIN s |-> s[i].quantity * s[i].price]
  <1>1. /\ p.buys = s /\ p.cashAfter = a.cash /\ p.holdings = [t \in Held |-> Review(t)]
        /\ p.coverage = Coverage(failed, s)
    BY DEF Built, Reviewed
  <1>2. a \in Accounts /\ (s # <<>> => ~CapacityError)
    BY AllocationIs
  <1> HIDE DEF p, a
  <1>3. /\ s \in Seq(PurchaseType) /\ a.cash \in Nat /\ a.capacity \in Nat
        /\ a.cash + Spent(a) = planBook.cash /\ a.capacity + Spent(a) = Starting
        /\ Spent(a) \in Nat /\ (s # <<>> => Spent(a) > 0)
        /\ \A i \in DOMAIN s : Sound(s[i])
        /\ \A i, j \in DOMAIN s : s[i].ticker = s[j].ticker => i = j
    BY <1>2 DEF Accounts, SpendType
  <1>4. m \in Nat /\ DOMAIN s = 1..m /\ \A i \in 1..m : s[i] \in PurchaseType
    BY <1>3
  <1>5. Whole(p)
    <2>1. \A i \in 1..m : s[i] \in [ticker : ToSet(PlanUniverse), quantity : Nat, price : Nat]
      BY <1>4 DEF PurchaseType, Qualified
    <2>2. DOMAIN p.holdings = Held
      BY <1>1
    <2> HIDE DEF s, m
    <2> QED BY <1>1, <1>3, <1>4, <2>1, <2>2 DEF Whole
  <1>6. Spent(a) = Total(costs)
    BY DEF Spent, Value
  <1> HIDE DEF s, m
  <1>7. ASSUME proposed # {}
        PROVE  /\ Cardinality(proposed) = m
               /\ Total(costs) <= planBook.cash /\ Total(costs) + Marked(Lots) <= planBook.starting
               /\ \A i \in DOMAIN s : 0 < costs[i] /\ costs[i] <= Room(s[i].ticker)
               /\ \A t \in proposed \cup Held : Quote(t).session >= Reference
               /\ \A t \in proposed \cap Held : Review(t) = "KEEP"
               /\ proposed \subseteq Coverage(failed, s).eligible \cup Coverage(failed, s).failed
    <2>1. s # <<>>
      BY <1>7
    <2>2. Cardinality(proposed) = m
      <3> DEFINE f == [i \in 1..m |-> s[i].ticker]
      <3>1. \A i, j \in 1..m : f[i] = f[j] => i = j
        BY <1>3, <1>4
      <3>2. proposed = {f[i] : i \in 1..m}
        BY <1>4
      <3> HIDE DEF f, proposed
      <3>3. Cardinality({f[i] : i \in 1..m}) = m
        BY <1>4, <3>1, OncePerIndex
      <3> QED BY <3>2, <3>3
    <2>3. Total(costs) <= planBook.cash /\ Total(costs) + Marked(Lots) <= planBook.starting
      <3> DEFINE total == Total(costs)
      <3>1. total = Spent(a)
        BY <1>6
      <3> HIDE DEF total, costs, proposed
      <3>2. total <= planBook.cash
        BY <1>3, <3>1, LotsAre
      <3>3. total <= Starting /\ total > 0 /\ total \in Nat /\ Starting \in Nat
        BY <1>3, <2>1, <3>1, MarksAre
      <3>4. Marked(Lots) \in Int /\ planBook.starting \in Int
        BY MarksAre, LotsAre
      <3>5. Starting = planBook.starting - Marked(Lots)
        BY <3>3, <3>4 DEF Starting, Larger
      <3>6. total + Marked(Lots) <= planBook.starting
        BY <3>3, <3>4, <3>5
      <3> QED BY <3>2, <3>6 DEF total
    <2>4. \A i \in DOMAIN s : 0 < costs[i] /\ costs[i] <= Room(s[i].ticker)
      BY <1>3 DEF Sound, Value
    <2>5. \A t \in proposed : t \in Qualified /\ Spendable(t)
      BY <1>3, <1>4 DEF Sound, PurchaseType
    <2>6. \A t \in proposed \cup Held : Quote(t).session >= Reference
      <3>1. \A t \in proposed : Quote(t).session >= Reference
        BY <2>5 DEF Spendable
      <3>2. \A t \in Held : Quote(t).session >= Reference
        <4>1. \A t \in Held : ~(Quote(t).session < Reference)
          BY <1>2, <2>1 DEF CapacityError
        <4>2. \A t \in Held : Quote(t).session \in Nat
          BY LotsAre, QuotesAre
        <4>3. Reference \in Nat
          BY ReferenceIs
        <4> QED BY <4>1, <4>2, <4>3
      <3> HIDE DEF proposed
      <3> QED BY <3>1, <3>2
    <2>7. \A t \in proposed \cap Held : Review(t) = "KEEP"
      <3> HIDE DEF proposed
      <3> QED BY <2>5, QualifiedIsKept
    <2>8. ASSUME NEW t \in proposed
          PROVE  t \in Coverage(failed, s).eligible \cup Coverage(failed, s).failed
      <3>1. t \in {s[i].ticker : i \in DOMAIN s} /\ t \in Qualified /\ Spendable(t)
        BY <2>5
      <3> QED BY <3>1, UsableIsEligible
    <2> HIDE DEF proposed, costs
    <2> QED BY <2>2, <2>3, <2>4, <2>6, <2>7, <2>8
  <1>8. Fitting(p)
    <2> DEFINE covered == Coverage(failed, s).eligible \cup Coverage(failed, s).failed
    <2>1. /\ {p.buys[i].ticker : i \in DOMAIN p.buys} = proposed /\ Len(p.buys) = m
          /\ [i \in DOMAIN p.buys |-> p.buys[i].quantity * p.buys[i].price] = costs
      BY <1>1 DEF m
    <2>2. /\ p.coverage.eligible \cup p.coverage.failed = covered
          /\ \A t \in Held : p.holdings[t] = Review(t)
      BY <1>1
    <2>3. proposed # {} =>
            /\ Cardinality(proposed) = m
            /\ Total(costs) <= planBook.cash /\ Total(costs) + Marked(Lots) <= planBook.starting
            /\ \A i \in DOMAIN s : 0 < costs[i] /\ costs[i] <= Room(s[i].ticker)
            /\ \A t \in proposed \cup Held : Quote(t).session >= Reference
            /\ \A t \in proposed \cap Held : Review(t) = "KEEP"
            /\ proposed \subseteq covered
      BY <1>7
    <2> HIDE DEF proposed, costs, covered
    <2> QED BY <1>1, <2>1, <2>2, <2>3 DEF Fitting
  <1> QED BY <1>5, <1>8 DEF p

-----------------------------------------------------------------------------
(* The invariant, step by step.                                            *)

LEMMA PlanInvInit == PlanInit => PlanInv
  <1> SUFFICES ASSUME PlanInit PROVE PlanInv
    OBVIOUS
  <1>1. PICK f \in PlanFeeds : planFeed = [t \in DOMAIN f |-> <<>>]
    BY DEF PlanInit
  <1>2. AskedFeed(planFeed)
    <2>1. /\ {"SPY", "QQQ"} \cup ToSet(PlanUniverse) \subseteq DOMAIN f
          /\ \A b \in PlanBooks : \A lot \in ToSet(b.lots) : lot.ticker \in DOMAIN f
      BY PlanBuildAssumption
    <2>2. DOMAIN planFeed = DOMAIN f /\ \A t \in DOMAIN planFeed : planFeed[t] = <<>>
      BY <1>1
    <2>3. <<>> \in Seq(RowType)
      OBVIOUS
    <2> QED BY <2>1, <2>2, <2>3 DEF AskedFeed
  <1>3. planStage \in {"regime", "prices"} /\ plan = NoPlan
    BY DEF PlanInit
  <1>4. planMode \in PlanModes /\ planBook \in PlanBooks
    BY DEF PlanInit
  <1> QED BY <1>2, <1>3, <1>4 DEF PlanInv

LEMMA PlanViewsStay ==
  ASSUME UNCHANGED <<planBook, planQuotes>>
  PROVE  /\ Held' = Held /\ Marked(Lots)' = Marked(Lots) /\ Reference' = Reference
         /\ \A t : Quote(t)' = Quote(t) /\ Room(t)' = Room(t)
  <1>1. Lots' = Lots /\ Held' = Held /\ \A t : Quote(t)' = Quote(t)
    BY DEF Lots, Held, Quote
  <1>2. Reference' = Reference
    BY <1>1 DEF Reference, Quote, Held, Lots
  <1>3. \A lot : Mark(lot)' = Mark(lot)
    BY DEF Mark, Quote
  <1>4. Marked(Lots)' = Marked(Lots) /\ \A t : Room(t)' = Room(t)
    BY DEF Marked, Room, Mark, Quote, Lots
  <1> QED BY <1>1, <1>2, <1>4

LEMMA PlanInvStep == PlanInv /\ [PlanNext]_planVars => PlanInv'
  <1> SUFFICES ASSUME PlanInv, [PlanNext]_planVars PROVE PlanInv'
    OBVIOUS
  <1>1. CASE LoadRegime
    <2>1. planStage' \in {"failed", "prices"}
      BY <1>1 DEF LoadRegime
    <2>2. UNCHANGED <<planMode, planBook, planFeed, plan>> /\ planStage = "regime"
      BY <1>1 DEF LoadRegime
    <2>3. AskedFeed(planFeed)' /\ plan' = NoPlan
      BY <2>2 DEF PlanInv, AskedFeed
    <2> QED BY <2>1, <2>2, <2>3 DEF PlanInv
  <1>2. CASE LoadPrices
    <2>1. PICK f \in PlanFeeds : planFeed' = [t \in DOMAIN f |->
            IF t = "SPY" /\ ~ByRegime /\ PreferredBenchmark(planMode) = {} THEN <<>> ELSE f[t]]
      BY <1>2 DEF LoadPrices
    <2>2. /\ {"SPY", "QQQ"} \cup ToSet(PlanUniverse) \subseteq DOMAIN f
          /\ \A b \in PlanBooks : \A lot \in ToSet(b.lots) : lot.ticker \in DOMAIN f
          /\ \A t \in DOMAIN f : f[t] \in Seq(RowType)
      BY PlanBuildAssumption DEF RowType
    <2>3. DOMAIN planFeed' = DOMAIN f /\ \A t \in DOMAIN f : planFeed'[t] \in Seq(RowType)
      <3>1. <<>> \in Seq(RowType)
        OBVIOUS
      <3> QED BY <2>1, <2>2, <3>1
    <2>4. AskedFeed(planFeed)'
      BY <2>2, <2>3 DEF AskedFeed
    <2>5. UNCHANGED <<planMode, planBook, plan>> /\ planStage = "prices" /\ planStage' = "scan"
      BY <1>2 DEF LoadPrices
    <2> QED BY <2>4, <2>5 DEF PlanInv
  <1>3. CASE Scan
    <2>1. UNCHANGED <<planMode, planBook, planFeed, plan>> /\ planStage = "scan"
      BY <1>3 DEF Scan
    <2>2. \/ planStage' = "failed"
          \/ planStage' = "build" /\ planQuotes' = [t \in DOMAIN planFeed |-> Latest(planFeed[t])]
      BY <1>3 DEF Scan
    <2>3. AskedFeed(planFeed)' /\ plan' = NoPlan
      BY <2>1 DEF PlanInv, AskedFeed
    <2>4. planStage' = "build" => planQuotes' = [t \in DOMAIN planFeed' |-> Latest(planFeed'[t])]
      BY <2>1, <2>2
    <2> QED BY <2>1, <2>2, <2>3, <2>4 DEF PlanInv
  <1>4. CASE BuildPlan
    <2>1. PICK failed \in {{}, {PlanUniverse[1]}} : plan' = Built(Candidates, failed)
      BY <1>4 DEF BuildPlan
    <2>2. /\ planStage = "build" /\ planStage' = "built"
          /\ UNCHANGED <<planMode, planBook, planFeed, planQuotes>>
      BY <1>4 DEF BuildPlan
    <2>3. Whole(plan') /\ Fitting(plan')
      BY <2>1, <2>2, BuiltFits
    <2>4. Whole(plan)' /\ Fitting(plan)'
      BY <2>2, <2>3, PlanViewsStay DEF Whole, Fitting
    <2>5. AskedFeed(planFeed)' /\ planQuotes' = [t \in DOMAIN planFeed' |-> Latest(planFeed'[t])]
      BY <2>2 DEF PlanInv, AskedFeed
    <2> QED BY <2>2, <2>4, <2>5 DEF PlanInv
  <1>5. CASE UNCHANGED planVars
    <2>1. UNCHANGED <<planMode, planBook, planFeed, planQuotes, planStage, plan>>
      BY <1>5 DEF planVars
    <2>2. AskedFeed(planFeed)'
      BY <2>1 DEF PlanInv, AskedFeed
    <2>3. ASSUME planStage = "built"
          PROVE  Whole(plan)' /\ Fitting(plan)'
      <3>1. \A p : p = plan => Whole(p) /\ Fitting(p)
        BY <2>3 DEF PlanInv
      <3>2. plan' = plan
        BY <2>1
      <3>3. Whole(plan') /\ Fitting(plan')
        BY <3>1, <3>2
      <3>4. UNCHANGED <<planBook, planQuotes>>
        BY <2>1
      <3> QED BY <3>3, <3>4, PlanViewsStay DEF Whole, Fitting
    <2> QED BY <2>1, <2>2, <2>3 DEF PlanInv
  <1> QED BY <1>1, <1>2, <1>3, <1>4, <1>5 DEF PlanNext

LEMMA InvPlanFits == PlanInv => PlanTypeOK /\ PlanFits
  <1> SUFFICES ASSUME PlanInv PROVE PlanTypeOK /\ PlanFits
    OBVIOUS
  <1>1. \A i \in DOMAIN plan.buys :
          plan.buys[i] \in [ticker : ToSet(PlanUniverse), quantity : Nat, price : Nat]
    BY DEF PlanInv, NoPlan, Whole
  <1>2. planStage = "built" => Whole(plan) /\ Fitting(plan)
    BY DEF PlanInv
  <1>3. PlanTypeOK
    BY <1>1, <1>2 DEF PlanInv, PlanTypeOK, Whole
  <1>4. PlanFits
    BY <1>2 DEF PlanFits, Fitting
  <1> QED BY <1>3, <1>4

(* The invariant of the construction of a plan: the quotes are the latest  *)
(* closes of the rows loaded, and the plan built is whole and fits.        *)
THEOREM PlanInvariant == PlanSpec => []PlanInv
  BY PlanInvInit, PlanInvStep, PTL DEF PlanSpec

(* Whatever the books, the feeds, the mode and the evidence: the plan that *)
(* is built can be carried out as it stands.                               *)
THEOREM PlansFit == PlanSpec => [](PlanTypeOK /\ PlanFits)
  BY PlanInvariant, InvPlanFits, PTL

-----------------------------------------------------------------------------
(* The order of a period's steps: a learned method that is simulated is    *)
(* recorded before the next model is fitted.                               *)

FitNames(task) == {Named(model) : model \in ToSet(task.models) \cup {"models"}}
StepType(task) ==
  [do : {"simulate"}, name : Requested(task)] \cup [do : {"prepare", "fit", "record"}, name : FitNames(task)]
Recorded(steps, k, model) ==
  \E p \in DOMAIN steps :
    /\ k <= p /\ steps[p].do = "record" /\ steps[p].name = Named(model)
    /\ \A j \in k..p : steps[j].do \notin {"prepare", "fit"}
RecordsLearned(task, steps) ==
  \A k \in DOMAIN steps, model \in ToSet(task.models), top \in ToSet(task.tops) :
    steps[k].do = "simulate" /\ steps[k].name = TopOf(model, top) => Recorded(steps, k, model)
Orders(task) == {steps \in Seq(StepType(task)) : RecordsLearned(task, steps)}

LEMMA TaskIs ==
  ASSUME NEW task \in BenchTasks
  PROVE  /\ task.rules \in Seq(ToSet(task.rules)) /\ task.models \in Seq(ToSet(task.models))
         /\ task.tops \in Seq(Nat \ {0}) /\ task.tests \in Nat /\ ToSet(task.tops) \subseteq Nat \ {0}
  <1>1. /\ task.rules \in Seq(ToSet(task.rules)) /\ task.models \in Seq(ToSet(task.models))
        /\ task.tops \in Seq(Nat \ {0}) /\ task.tests \in Nat
    BY BenchmarkAssumption
  <1>2. \A i \in DOMAIN task.tops : task.tops[i] \in Nat \ {0}
    BY <1>1
  <1> QED BY <1>1, <1>2 DEF ToSet

LEMMA JoinKeeps ==
  ASSUME NEW task \in BenchTasks, NEW q \in Orders(task), NEW r \in Orders(task)
  PROVE  q \o r \in Orders(task)
  <1> DEFINE T == StepType(task)
             s == q \o r
             m == Len(q)
             n == Len(r)
  <1>1. q \in Seq(T) /\ r \in Seq(T) /\ RecordsLearned(task, q) /\ RecordsLearned(task, r)
    BY DEF Orders
  <1>2. m \in Nat /\ n \in Nat /\ DOMAIN q = 1..m /\ DOMAIN r = 1..n
    BY <1>1
  <1> HIDE DEF T
  <1>3. s \in Seq(T) /\ Len(s) = m + n /\ \A i \in 1..m + n : s[i] = IF i <= m THEN q[i] ELSE r[i - m]
    BY <1>1, ConcatProperties
  <1>4. DOMAIN s = 1..m + n
    BY <1>3
  <1> HIDE DEF s, m, n
  <1>5. ASSUME NEW k \in DOMAIN s, NEW model \in ToSet(task.models), NEW top \in ToSet(task.tops),
               s[k].do = "simulate", s[k].name = TopOf(model, top)
        PROVE  Recorded(s, k, model)
    <2>1. CASE k <= m
      <3>1. k \in DOMAIN q /\ s[k] = q[k]
        BY <1>2, <1>3, <1>4, <2>1
      <3>2. Recorded(q, k, model)
        BY <1>1, <1>5, <3>1 DEF RecordsLearned
      <3>3. PICK p \in DOMAIN q : /\ k <= p /\ q[p].do = "record" /\ q[p].name = Named(model)
                                  /\ \A j \in k..p : q[j].do \notin {"prepare", "fit"}
        BY <3>2 DEF Recorded
      <3>4. p \in DOMAIN s /\ s[p] = q[p] /\ \A j \in k..p : s[j] = q[j]
        BY <1>2, <1>3, <1>4, <3>1, <3>3
      <3> QED BY <3>3, <3>4 DEF Recorded
    <2>2. CASE k > m
      <3>1. k - m \in DOMAIN r /\ s[k] = r[k - m] /\ k \in Nat
        BY <1>2, <1>3, <1>4, <2>2
      <3>2. Recorded(r, k - m, model)
        BY <1>1, <1>5, <3>1 DEF RecordsLearned
      <3>3. PICK p \in DOMAIN r : /\ k - m <= p /\ r[p].do = "record" /\ r[p].name = Named(model)
                                  /\ \A j \in k - m..p : r[j].do \notin {"prepare", "fit"}
        BY <3>2 DEF Recorded
      <3>4. p + m \in DOMAIN s /\ s[p + m] = r[p] /\ k <= p + m
        BY <1>2, <1>3, <1>4, <3>1, <3>3
      <3>5. \A j \in k..p + m : s[j] = r[j - m] /\ j - m \in k - m..p
        BY <1>2, <1>3, <1>4, <2>2, <3>1, <3>3
      <3> QED BY <3>3, <3>4, <3>5 DEF Recorded
    <2> QED BY <1>2, <1>4, <2>1, <2>2
  <1>6. RecordsLearned(task, s)
    BY <1>5 DEF RecordsLearned
  <1> QED BY <1>3, <1>6 DEF Orders, T, s

(* What is left of an order is one.                                        *)
Rests(steps, rest, d) ==
  /\ rest \in Seq({steps[i] : i \in DOMAIN steps}) /\ d \in Nat
  /\ rest = <<>> \/ Len(rest) + d = Len(steps)
  /\ \A i \in DOMAIN rest : rest[i] = steps[i + d]

LEMMA RestRecords ==
  ASSUME NEW S, NEW steps \in Seq(S), NEW rest, NEW d, Rests(steps, rest, d), rest # <<>>,
         NEW k \in 1..Len(steps), k > d, NEW model, Recorded(steps, k, model)
  PROVE  Recorded(rest, k - d, model)
  <1>1. Len(rest) \in Nat /\ DOMAIN rest = 1..Len(rest) /\ d \in Nat /\ Len(rest) + d = Len(steps)
    BY DEF Rests
  <1>2. DOMAIN steps = 1..Len(steps) /\ \A i \in DOMAIN rest : rest[i] = steps[i + d]
    BY DEF Rests
  <1>3. PICK p \in DOMAIN steps : /\ k <= p /\ steps[p].do = "record" /\ steps[p].name = Named(model)
                                  /\ \A j \in k..p : steps[j].do \notin {"prepare", "fit"}
    BY DEF Recorded
  <1>4. p - d \in DOMAIN rest /\ k - d <= p - d /\ rest[p - d] = steps[p]
    BY <1>1, <1>2, <1>3
  <1>5. \A j \in k - d..p - d : rest[j] = steps[j + d] /\ j + d \in k..p
    BY <1>1, <1>2, <1>3
  <1> QED BY <1>3, <1>4, <1>5 DEF Recorded

LEMMA RestKeeps ==
  ASSUME NEW task \in BenchTasks, NEW steps \in Orders(task), NEW rest, NEW d, Rests(steps, rest, d)
  PROVE  rest \in Orders(task)
  <1> DEFINE T == StepType(task)
  <1>1. steps \in Seq(T) /\ RecordsLearned(task, steps)
    BY DEF Orders
  <1>2. {steps[i] : i \in DOMAIN steps} \subseteq T
    BY <1>1
  <1>3. rest \in Seq(T)
    BY <1>2 DEF Rests
  <1>4. ASSUME NEW k \in DOMAIN rest, NEW model \in ToSet(task.models), NEW top \in ToSet(task.tops),
               rest[k].do = "simulate", rest[k].name = TopOf(model, top)
        PROVE  Recorded(rest, k, model)
    <2> HIDE DEF T
    <2>1. rest # <<>> /\ d \in Nat /\ k \in Nat /\ k > 0
      BY <1>3, <1>4 DEF Rests
    <2>2. k + d \in 1..Len(steps) /\ k + d > d /\ rest[k] = steps[k + d]
      BY <1>1, <1>3, <1>4, <2>1 DEF Rests
    <2>3. Recorded(steps, k + d, model)
      BY <1>1, <1>4, <2>2 DEF RecordsLearned
    <2>4. Recorded(rest, k + d - d, model)
      BY <1>1, <2>1, <2>2, <2>3, RestRecords
    <2> QED BY <2>1, <2>4
  <1>5. RecordsLearned(task, rest)
    BY <1>4 DEF RecordsLearned
  <1> QED BY <1>3, <1>5 DEF Orders

LEMMA LaterRests ==
  ASSUME NEW S, NEW steps \in Seq(S), NEW a \in Nat \ {0}
  PROVE  Rests(steps, SubSeq(steps, a, Len(steps)), a - 1)
  <1> DEFINE T == {steps[i] : i \in DOMAIN steps}
             n == Len(steps)
             rest == SubSeq(steps, a, n)
  <1>1. n \in Nat /\ DOMAIN steps = 1..n
    OBVIOUS
  <1>2. \A i \in a..n : steps[i] \in T
    BY <1>1
  <1> HIDE DEF T, n
  <1>3. /\ rest \in Seq(T) /\ Len(rest) = (IF a <= n THEN n - a + 1 ELSE 0)
        /\ \A i \in 1..n - a + 1 : rest[i] = steps[a + i - 1]
    BY <1>1, <1>2, SubSeqProperties
  <1> HIDE DEF rest
  <1>4. rest = <<>> \/ Len(rest) + (a - 1) = n
    BY <1>1, <1>3
  <1>5. \A i \in DOMAIN rest : rest[i] = steps[i + (a - 1)]
    BY <1>1, <1>3
  <1> QED BY <1>3, <1>4, <1>5 DEF Rests, T, n, rest

LEMMA TailRests ==
  ASSUME NEW S, NEW steps \in Seq(S), steps # <<>>
  PROVE  Rests(steps, Tail(steps), 1)
  <1>1. Tail(steps) = SubSeq(steps, 2, Len(steps))
    BY TailIsSubSeq
  <1>2. Rests(steps, SubSeq(steps, 2, Len(steps)), 2 - 1)
    BY LaterRests
  <1>3. 2 - 1 = 1
    OBVIOUS
  <1> QED BY <1>1, <1>2, <1>3, Zenon

LEMMA NoneRests ==
  ASSUME NEW task \in BenchTasks
  PROVE  <<>> \in Orders(task)
  <1>1. <<>> \in Seq(StepType(task)) /\ DOMAIN <<>> = {}
    OBVIOUS
  <1> QED BY <1>1 DEF Orders, RecordsLearned

-----------------------------------------------------------------------------
(* The steps of a period.                                                  *)

LEMMA OneStep ==
  ASSUME NEW task \in BenchTasks, NEW what, NEW name,
         \/ what = "simulate" /\ name \in Requested(task) \ Learned(task)
         \/ what \in {"prepare", "fit", "record"} /\ name \in FitNames(task)
  PROVE  Do(what, name) \in Orders(task)
  <1> DEFINE step == [do |-> what, name |-> name]
             T == StepType(task)
  <1>1. step \in T /\ (step.do = "simulate" => step.name \notin Learned(task))
    BY DEF StepType
  <1> HIDE DEF step, T
  <1>2. <<step>> \in Seq(T) /\ DOMAIN <<step>> = {1} /\ <<step>>[1] = step
    BY <1>1
  <1>3. \A model \in ToSet(task.models), top \in ToSet(task.tops) :
          ~(step.do = "simulate" /\ step.name = TopOf(model, top))
    BY <1>1 DEF Learned
  <1>4. RecordsLearned(task, <<step>>)
    BY <1>2, <1>3 DEF RecordsLearned
  <1> QED BY <1>2, <1>4 DEF Orders, Do, step, T

LEMMA RulesAreNotLearned ==
  ASSUME NEW task \in BenchTasks
  PROVE  /\ \A name \in ToSet(task.rules) : Named(name) \in Requested(task) \ Learned(task)
         /\ task.switching => Switching \in Requested(task) \ Learned(task)
  <1>1. \A top \in ToSet(task.tops) : top # 0
    BY TaskIs
  <1>2. \A name, model : \A top \in ToSet(task.tops) : Named(name) # TopOf(model, top)
    BY <1>1 DEF Named, TopOf
  <1>3. \A name : Named(name) \notin Learned(task)
    BY <1>2 DEF Learned
  <1>4. \A name \in ToSet(task.rules) : Named(name) \in Requested(task)
    BY DEF Requested
  <1>5. task.switching => Switching \in Requested(task)
    BY DEF Requested, Switched_
  <1> QED BY <1>3, <1>4, <1>5 DEF Switching

LEMMA ModelStepsAre ==
  ASSUME NEW task \in BenchTasks, NEW model \in ToSet(task.models)
  PROVE  ModelSteps(task, model) \in Orders(task)
  <1> DEFINE T == StepType(task)
             n == Len(task.tops)
             ranked == [j \in DOMAIN task.tops |-> TopOf(model, task.tops[j])]
             first == Do("fit", Named(model))
             middle == Simulations(ranked)
             last == Do("record", Named(model))
             s == first \o middle \o last
  <1>1. n \in Nat /\ DOMAIN task.tops = 1..n /\ \A j \in 1..n : task.tops[j] \in ToSet(task.tops)
    BY TaskIs DEF ToSet
  <1>2. first \in Seq(T) /\ Len(first) = 1 /\ first[1] = [do |-> "fit", name |-> Named(model)]
    BY DEF Do, StepType, FitNames
  <1>3. last \in Seq(T) /\ Len(last) = 1 /\ last[1] = [do |-> "record", name |-> Named(model)]
    BY DEF Do, StepType, FitNames
  <1>4. /\ middle \in Seq(T) /\ Len(middle) = n
        /\ \A j \in 1..n : middle[j].do = "simulate" /\ middle[j].name \in {TopOf(model, top) : top \in Nat}
    <2>1. middle = [j \in 1..n |-> [do |-> "simulate", name |-> TopOf(model, task.tops[j])]]
      BY <1>1 DEF Simulations
    <2>2. \A j \in 1..n : task.tops[j] \in Nat
      BY <1>1, TaskIs
    <2>3. \A j \in 1..n : [do |-> "simulate", name |-> TopOf(model, task.tops[j])] \in T
      BY <1>1 DEF StepType, Requested, Learned
    <2>4. \A j \in 1..n : middle[j].do = "simulate" /\ middle[j].name = TopOf(model, task.tops[j])
      BY <2>1
    <2> HIDE DEF T, n
    <2>5. middle \in Seq(T) /\ Len(middle) = n
      BY <1>1, <2>1, <2>3
    <2> QED BY <2>2, <2>4, <2>5
  <1> HIDE DEF T, n, first, middle, last
  <1>5. /\ first \o middle \in Seq(T) /\ Len(first \o middle) = 1 + n
        /\ \A i \in 1..1 + n : (first \o middle)[i] = IF i <= 1 THEN first[i] ELSE middle[i - 1]
    <2>1. /\ first \o middle \in Seq(T) /\ Len(first \o middle) = Len(first) + Len(middle)
          /\ \A i \in 1..Len(first) + Len(middle) :
               (first \o middle)[i] = IF i <= Len(first) THEN first[i] ELSE middle[i - Len(first)]
      BY <1>2, <1>4, ConcatProperties
    <2> QED BY <1>2, <1>4, <2>1
  <1> DEFINE both == first \o middle
  <1> HIDE DEF both
  <1>6. /\ both \o last \in Seq(T) /\ Len(both \o last) = 1 + n + 1
        /\ \A i \in 1..1 + n + 1 : (both \o last)[i] = IF i <= 1 + n THEN both[i] ELSE last[i - (1 + n)]
    <2>1. both \in Seq(T) /\ Len(both) = 1 + n
      BY <1>5 DEF both
    <2>2. /\ both \o last \in Seq(T) /\ Len(both \o last) = Len(both) + Len(last)
          /\ \A i \in 1..Len(both) + Len(last) :
               (both \o last)[i] = IF i <= Len(both) THEN both[i] ELSE last[i - Len(both)]
      BY <1>3, <2>1, ConcatProperties
    <2> QED BY <1>3, <2>1, <2>2
  <1>7. s = both \o last
    BY DEF both
  <1> HIDE DEF s
  <1>8. DOMAIN s = 1..n + 2 /\ s \in Seq(T)
    BY <1>1, <1>6, <1>7
  <1>9. s[1].do = "fit" /\ s[n + 2].do = "record" /\ s[n + 2].name = Named(model)
    BY <1>1, <1>2, <1>3, <1>5, <1>6, <1>7 DEF both
  <1>10. \A i \in 2..n + 1 : s[i].do = "simulate" /\ s[i].name \in {TopOf(model, top) : top \in Nat}
    <2>1. \A i \in 2..n + 1 : s[i] = middle[i - 1] /\ i - 1 \in 1..n
      BY <1>1, <1>5, <1>6, <1>7 DEF both
    <2> QED BY <1>4, <2>1
  <1>11. ASSUME NEW k \in DOMAIN s, NEW other \in ToSet(task.models), NEW top \in ToSet(task.tops),
                s[k].do = "simulate", s[k].name = TopOf(other, top)
         PROVE  Recorded(s, k, other)
    <2>1. k \in 2..n + 1
      <3>1. k # 1 /\ k # n + 2
        BY <1>9, <1>11
      <3> QED BY <1>1, <1>8, <3>1
    <2>2. other = model
      BY <1>10, <1>11, <2>1 DEF TopOf
    <2>3. n + 2 \in DOMAIN s /\ k <= n + 2
      BY <1>1, <1>8, <2>1
    <2>4. \A j \in k..n + 2 : s[j].do \notin {"prepare", "fit"}
      <3>1. \A j \in k..n + 2 : j \in 2..n + 1 \/ j = n + 2
        BY <1>1, <2>1
      <3> QED BY <1>9, <1>10, <3>1
    <2> QED BY <1>9, <2>2, <2>3, <2>4 DEF Recorded
  <1>12. RecordsLearned(task, s)
    BY <1>11 DEF RecordsLearned
  <1>13. s \in Orders(task)
    BY <1>8, <1>12 DEF Orders, T
  <1> QED BY <1>13 DEF ModelSteps, s, first, middle, last

(* A fold that adds one more order at every place of a sequence.           *)
LEMMA RuleStepsAre ==
  ASSUME NEW task \in BenchTasks
  PROVE  RuleSteps(task) \in Orders(task)
  <1> DEFINE X == Orders(task)
             n == Len(task.rules)
             rule(i) == task.rules[i]
             op == [p \in X \X (1..n) |-> Ruled(p[1], rule(p[2]))]
             Iterates(F) == F = [u \in SUBSET (1..n) |->
                                  IF u = {} THEN <<>> ELSE Ruled(F[u \ {Max(u)}], rule(Max(u)))]
             ruled == FoldLeft(Ruled, <<>>, task.rules)
  <1>1. /\ n \in Nat /\ DOMAIN task.rules = 1..n
        /\ \A i \in 1..n : rule(i) \in ToSet(task.rules)
    BY TaskIs DEF ToSet
  <1>2. ruled = (CHOOSE F : Iterates(F))[1..n]
    BY <1>1 DEF FoldLeft, MapThenFoldSet
  <1>3. ASSUME NEW s \in X, NEW i \in 1..n
        PROVE  Ruled(s, rule(i)) \in X
    <2>1. Do("simulate", Named(rule(i))) \in X
      BY <1>1, OneStep, RulesAreNotLearned
    <2>2. s \o Do("simulate", Named(rule(i))) \in X
      BY <2>1, JoinKeeps
    <2> QED BY <2>2 DEF Ruled
  <1>4. \A s \in X : \A i \in 1..n : op[<<s, i>>] = Ruled(s, rule(i))
    <2> HIDE DEF X
    <2> QED OBVIOUS
  <1>5. <<>> \in X
    BY NoneRests
  <1> HIDE DEF X, n, op, rule
  <1>6. \A s \in X : \A i \in 1..n : op[<<s, i>>] \in X
    BY <1>3, <1>4
  <1>7. \A u \in SUBSET (1..n) : u # {} => Max(u) \in 1..n /\ u \ {Max(u)} \in SUBSET (1..n)
    BY <1>1, MaxIs
  <1>8. \E F : Iterates(F)
    <2>1. PICK F : Steps_(op, <<>>, n, F) /\ \A u \in SUBSET (1..n) : F[u] \in X
      BY <1>1, <1>5, <1>6, StepsExist
    <2>2. ASSUME NEW u \in SUBSET (1..n), u # {}
          PROVE  op[<<F[u \ {Max(u)}], Max(u)>>] = Ruled(F[u \ {Max(u)}], rule(Max(u)))
      BY <1>4, <1>7, <2>1, <2>2
    <2>3. Iterates(F)
      BY <2>1, <2>2 DEF Steps_
    <2> QED BY <2>3
  <1>9. ASSUME NEW F, Iterates(F)
        PROVE  F[1..n] \in X
    <2>1. F[{}] = <<>> /\ \A u \in SUBSET (1..n) : u # {} => F[u] = Ruled(F[u \ {Max(u)}], rule(Max(u)))
      BY <1>9
    <2>2. \A u \in SUBSET (1..n) : u # {} /\ F[u \ {Max(u)}] \in X => F[u] \in X
      BY <1>3, <1>7, <2>1
    <2>3. F[{}] \in X
      BY <1>5, <2>1
    <2>4. \A u \in SUBSET (1..n) : F[u] \in X
      BY <1>1, <2>2, <2>3, StepsStay
    <2> QED BY <2>4
  <1> HIDE DEF Iterates
  <1>10. ruled \in X
    BY <1>2, <1>8, <1>9
  <1> HIDE DEF ruled
  <1> DEFINE switched == IF task.switching THEN Do("simulate", Switching) ELSE <<>>
             prepared == IF task.models = <<>> THEN <<>> ELSE Do("prepare", Named("models"))
  <1>11. switched \in X
    BY <1>5, OneStep, RulesAreNotLearned DEF X
  <1>12. prepared \in X
    BY <1>5, OneStep DEF X, FitNames
  <1> HIDE DEF switched, prepared
  <1>13. ruled \o switched \in X
    BY <1>10, <1>11, JoinKeeps DEF X
  <1>14. ruled \o switched \o prepared \in X
    BY <1>12, <1>13, JoinKeeps DEF X
  <1> QED BY <1>14 DEF RuleSteps, X, ruled, switched, prepared

LEMMA StepsAre ==
  ASSUME NEW task \in BenchTasks
  PROVE  Steps(task) \in Orders(task)
  <1> DEFINE X == Orders(task)
             n == Len(task.models)
             base == RuleSteps(task)
             more(s, i) == s \o ModelSteps(task, task.models[i])
             op == [p \in X \X (1..n) |-> more(p[1], p[2])]
             Iterates(F) == F = [u \in SUBSET (1..n) |->
                                  IF u = {} THEN base ELSE more(F[u \ {Max(u)}], Max(u))]
  <1>1. /\ n \in Nat /\ DOMAIN task.models = 1..n
        /\ \A i \in 1..n : task.models[i] \in ToSet(task.models)
    BY TaskIs DEF ToSet
  <1>2. Steps(task) = (CHOOSE F : Iterates(F))[1..n]
    BY <1>1 DEF Steps, FoldLeft, MapThenFoldSet
  <1>3. ASSUME NEW s \in X, NEW i \in 1..n
        PROVE  more(s, i) \in X
    <2>1. ModelSteps(task, task.models[i]) \in X
      BY <1>1, ModelStepsAre
    <2> QED BY <2>1, JoinKeeps
  <1>4. \A s \in X : \A i \in 1..n : op[<<s, i>>] = more(s, i)
    <2> HIDE DEF X, more
    <2> QED OBVIOUS
  <1>5. base \in X
    BY RuleStepsAre
  <1> HIDE DEF X, n, op, base, more
  <1>6. \A s \in X : \A i \in 1..n : op[<<s, i>>] \in X
    BY <1>3, <1>4
  <1>7. \A u \in SUBSET (1..n) : u # {} => Max(u) \in 1..n /\ u \ {Max(u)} \in SUBSET (1..n)
    BY <1>1, MaxIs
  <1>8. \E F : Iterates(F)
    <2>1. PICK F : Steps_(op, base, n, F) /\ \A u \in SUBSET (1..n) : F[u] \in X
      BY <1>1, <1>5, <1>6, StepsExist
    <2>2. ASSUME NEW u \in SUBSET (1..n), u # {}
          PROVE  op[<<F[u \ {Max(u)}], Max(u)>>] = more(F[u \ {Max(u)}], Max(u))
      BY <1>4, <1>7, <2>1, <2>2
    <2>3. Iterates(F)
      BY <2>1, <2>2 DEF Steps_
    <2> QED BY <2>3
  <1>9. ASSUME NEW F, Iterates(F)
        PROVE  F[1..n] \in X
    <2>1. F[{}] = base /\ \A u \in SUBSET (1..n) : u # {} => F[u] = more(F[u \ {Max(u)}], Max(u))
      BY <1>9
    <2>2. \A u \in SUBSET (1..n) : u # {} /\ F[u \ {Max(u)}] \in X => F[u] \in X
      BY <1>3, <1>7, <2>1
    <2>3. F[{}] \in X
      BY <1>5, <2>1
    <2>4. \A u \in SUBSET (1..n) : F[u] \in X
      BY <1>1, <2>2, <2>3, StepsStay
    <2> QED BY <2>4
  <1> HIDE DEF Iterates
  <1>10. Steps(task) \in X
    BY <1>2, <1>8, <1>9
  <1> QED BY <1>10 DEF X

-----------------------------------------------------------------------------
(* A complete table has one row for every method and test.                 *)

PeriodRow == [method : Requested(benchTask), test : 1..benchTask.tests, total : Int, spy : Int]
FoldRow == [model : FitNames(benchTask), test : 1..benchTask.tests, until : Int, labels : Int]
Fitted(model, i) == \E fold \in ToSet(folds) : fold.model = Named(model) /\ fold.test = i
RowsFollow ==
  \A k \in DOMAIN periodRows, model \in ToSet(benchTask.models), top \in ToSet(benchTask.tops) :
    periodRows[k].method = TopOf(model, top) =>
      Fitted(model, periodRows[k].test) \/ (periodRows[k].test = test /\ Recorded(queue, 1, model))
Started ==
  /\ Acceptable(benchTask) /\ benchPeriods \in [1..benchTask.tests -> Starts]
  /\ test \in 1..benchTask.tests
  /\ periodRows \in Seq(PeriodRow) /\ \A k \in DOMAIN periodRows : periodRows[k].test <= test
  /\ folds \in Seq(FoldRow) /\ \A k \in DOMAIN folds : folds[k].until = benchPeriods[folds[k].test] - 1
  /\ \A e \in errors : e.test \in 1..benchTask.tests
BenchInv ==
  /\ benchTask \in BenchTasks /\ benchStage \in {"start", "rejected", "run", "aborted", "done"}
  /\ benchStage \in {"start", "rejected"} =>
       test = 0 /\ periodRows = <<>> /\ folds = <<>> /\ errors = {}
  /\ benchStage \in {"run", "aborted", "done"} => Started
  /\ benchStage \in {"run", "done"} => queue \in Orders(benchTask) /\ RowsFollow
  /\ benchStage # "done" => DOMAIN verdict.decisions = {}
  /\ benchStage = "done" => PromotionIsEarned

Places(name) == {k \in DOMAIN periodRows : periodRows[k].method = name}

LEMMA RowsAre ==
  ASSUME NEW name
  PROVE  /\ DOMAIN RowsOfMethod(name) = Places(name)
         /\ \A k \in Places(name) : RowsOfMethod(name)[k] = periodRows[k]
  BY DEF RowsOfMethod, Restrict, Places

LEMMA CompleteTable ==
  ASSUME BenchInv, Started, Completed(benchTask), NEW asked \in Requested(benchTask),
         NEW i \in 1..benchTask.tests
  PROVE  \E k \in Places(asked) : {p \in Places(asked) : periodRows[p].test = i} = {k}
  <1> DEFINE n == Len(periodRows)
             pair(k) == <<periodRows[k].method, periodRows[k].test>>
             E == Requested(benchTask) \X DOMAIN benchPeriods
             f == [k \in 1..n |-> pair(k)]
  <1>1. n \in Nat /\ DOMAIN periodRows = 1..n
    BY DEF Started
  <1>2. n = Cardinality(E) /\ {pair(k) : k \in 1..n} = E
    <2>1. {<<r.method, r.test>> : r \in ToSet(periodRows)} = {pair(k) : k \in 1..n}
      BY <1>1 DEF ToSet
    <2> QED BY <2>1 DEF Completed
  <1>3. <<asked, i>> \in E
    BY DEF Started
  <1> HIDE DEF n, E, pair
  <1>4. f \in Surjection(1..n, E)
    BY <1>2 DEF Surjection
  <1>5. IsFiniteSet(1..n) /\ Cardinality(1..n) = n
    BY <1>1, Intervals
  <1> HIDE DEF f
  <1>6. f \in Injection(1..n, E)
    BY <1>2, <1>4, <1>5, FS_SurjSameCardinalityImpliesInj
  <1>7. \A j, k \in 1..n : pair(j) = pair(k) => j = k
    BY <1>6 DEF Injection, IsInjective, f
  <1>8. PICK k \in 1..n : pair(k) = <<asked, i>>
    BY <1>2, <1>3
  <1>9. \A p \in 1..n : pair(p) = <<asked, i>> <=> periodRows[p].method = asked /\ periodRows[p].test = i
    BY DEF pair
  <1>10. {p \in Places(asked) : periodRows[p].test = i} = {k}
    BY <1>1, <1>7, <1>8, <1>9 DEF Places
  <1> QED BY <1>1, <1>8, <1>9, <1>10 DEF Places

LEMMA OneRowEach ==
  ASSUME BenchInv, Started, Completed(benchTask), NEW asked \in Requested(benchTask)
  PROVE  IsFiniteSet(Places(asked)) /\ Cardinality(Places(asked)) = benchTask.tests
  <1> DEFINE n == benchTask.tests
             at(i) == {p \in Places(asked) : periodRows[p].test = i}
             h == [i \in 1..n |-> CHOOSE k \in Places(asked) : at(i) = {k}]
  <1>1. n \in Nat
    BY TaskIs DEF BenchInv
  <1>2. \A i \in 1..n : h[i] \in Places(asked) /\ at(i) = {h[i]}
    BY CompleteTable
  <1>3. \A p \in Places(asked) : periodRows[p].test \in 1..n
    <2>1. \A p \in DOMAIN periodRows : periodRows[p] \in PeriodRow
      BY DEF Started
    <2> QED BY <2>1 DEF PeriodRow, Places
  <1> HIDE DEF n, h
  <1>4. \A i, j \in 1..n : h[i] = h[j] => i = j
    BY <1>2
  <1>5. \A p \in Places(asked) : \E i \in 1..n : h[i] = p
    BY <1>2, <1>3
  <1>6. h \in [1..n -> Places(asked)]
    BY <1>2 DEF h
  <1>7. h \in Bijection(1..n, Places(asked))
    BY <1>4, <1>5, <1>6 DEF Bijection, Injection, Surjection, IsInjective
  <1>8. IsFiniteSet(1..n) /\ Cardinality(1..n) = n
    BY <1>1, Intervals
  <1>9. ExistsBijection(1..n, Places(asked))
    BY <1>7 DEF ExistsBijection
  <1> QED BY <1>8, <1>9, FS_Bijection DEF n

-----------------------------------------------------------------------------
(* Sums over the rows of a method, and shares of them.                     *)

LEMMA AddedIs ==
  ASSUME NEW f
  PROVE  Added(f) = Sum(f, DOMAIN f)
  BY DEF Added, MapThenSumSet, MapThenFoldSet, Sum, Sums, Taken

LEMMA GainsAre ==
  ASSUME NEW S, IsFiniteSet(S), NEW f \in [S -> Int]
  PROVE  Added(Restrict(f, {k \in S : f[k] > 0})) = Added([k \in S |-> Larger(f[k], 0)])
  <1> DEFINE P == {k \in S : f[k] > 0}
             R == S \ P
             g == [k \in S |-> Larger(f[k], 0)]
             r == Restrict(f, P)
  <1>1. P \cap R = {} /\ P \cup R = S /\ P \in SUBSET S /\ R \in SUBSET S
    OBVIOUS
  <1>2. \A k \in S : g[k] \in Int
    BY DEF Larger
  <1>3. \A k \in P : g[k] = f[k] /\ r[k] = f[k]
    BY DEF Larger, Restrict
  <1>4. \A k \in R : g[k] = 0
    BY DEF Larger
  <1>5. DOMAIN g = S /\ DOMAIN r = P
    BY DEF Restrict
  <1> HIDE DEF P, R, g, r
  <1>6. IsFiniteSet(P) /\ IsFiniteSet(R)
    BY <1>1, FS_Subset
  <1>7. Sum(g, P \cup R) = Sum(g, P) + Sum(g, R)
    BY <1>1, <1>2, <1>6, SumSplit
  <1>8. Sum(g, R) = 0
    BY <1>4, <1>6, SumOfZeros
  <1>9. Sum(r, P) = Sum(g, P)
    BY <1>3, <1>6, SumSame
  <1>10. Sum(g, P) \in Int
    <2>1. \A k \in P : g[k] \in Int
      BY <1>1, <1>2
    <2> QED BY <1>6, <2>1, SumTakes
  <1>11. Sum(r, P) = Sum(g, S)
    <2>1. Sum(g, S) = Sum(g, P) + Sum(g, R)
      BY <1>1, <1>7, Zenon
    <2> QED BY <1>8, <1>9, <1>10, <2>1
  <1>12. Added(r) = Added(g)
    BY <1>5, <1>11, AddedIs
  <1> QED BY <1>12 DEF P, g, r

LEMMA MostOf ==
  ASSUME NEW c \in Nat, NEW n \in Nat \ {0}, (100 * c) \div n >= 55
  PROVE  2 * c > n
  <1> DEFINE q == (100 * c) \div n
  <1>1. q \in Int /\ n * q <= 100 * c
    BY DivBelow
  <1>2. q \in Nat /\ 55 <= q
    BY <1>1
  <1> HIDE DEF q
  <1>3. 55 * n <= q * n /\ q * n \in Nat
    BY <1>2, TimesGrows
  <1>4. q * n = n * q
    BY <1>2
  <1> QED BY <1>1, <1>3, <1>4

-----------------------------------------------------------------------------
(* What a promotion has behind it.                                         *)

Earned(name) ==
  LET rows == RowsOfMethod(name)
      gains == Added([k \in DOMAIN rows |-> Larger(rows[k].total, 0)])
  IN /\ gaps = {} /\ benchTask.excluded = {}
     /\ \A asked \in Requested(benchTask), i \in DOMAIN benchPeriods :
          Cardinality({k \in DOMAIN RowsOfMethod(asked) : periodRows[k].test = i}) = 1
     /\ \A model \in ToSet(benchTask.models), i \in DOMAIN benchPeriods :
          \E fold \in ToSet(folds) :
            fold.model = Named(model) /\ fold.test = i /\ fold.until < benchPeriods[i]
     /\ Cardinality(DOMAIN rows) = Len(benchPeriods) /\ Len(benchPeriods) >= MinPeriods
     /\ \A i, j \in DOMAIN benchPeriods : i # j => Simulated(i) \cap Simulated(j) = {}
     /\ 2 * Cardinality({k \in DOMAIN rows : rows[k].total > rows[k].spy}) > Len(benchPeriods)
     /\ \A k \in DOMAIN rows : rows[k].total > 0 => 2 * rows[k].total <= gains

LEMMA StartedTypes ==
  ASSUME BenchInv, Started
  PROVE  /\ benchTask.tests \in Nat /\ Len(benchPeriods) = benchTask.tests
         /\ DOMAIN benchPeriods = 1..benchTask.tests
         /\ \A i \in 1..benchTask.tests : benchPeriods[i] \in Nat \ {0} /\ SpyReturn[benchPeriods[i]] \in Int
         /\ \A k \in DOMAIN periodRows :
              /\ periodRows[k] \in PeriodRow /\ periodRows[k].test \in 1..benchTask.tests
              /\ periodRows[k].total \in Int /\ periodRows[k].spy \in Int
              /\ periodRows[k].method \in Requested(benchTask)
  <1>1. benchTask.tests \in Nat
    BY TaskIs DEF BenchInv
  <1>2. DOMAIN benchPeriods = 1..benchTask.tests /\ \A i \in 1..benchTask.tests : benchPeriods[i] \in Starts
    BY DEF Started
  <1>3. benchPeriods \in Seq(Starts)
    BY <1>1, <1>2 DEF Started
  <1>4. BenchFirst \in Nat \ {0} /\ BenchLast \in Nat /\ BenchDuration \in Nat
    BY BenchmarkAssumption
  <1>5. \A d \in Starts : d \in Nat \ {0} /\ d \in BenchFirst..BenchLast
    BY <1>4 DEF Starts
  <1>6. \A d \in Starts : SpyReturn[d] \in Int
    BY <1>5, BenchmarkAssumption
  <1>7. \A k \in DOMAIN periodRows : periodRows[k] \in PeriodRow
    BY DEF Started
  <1>8. Len(benchPeriods) = benchTask.tests
    BY <1>1, <1>2, <1>3
  <1> QED BY <1>1, <1>2, <1>5, <1>6, <1>7, <1>8 DEF PeriodRow

(* A session of a test lies between its first and its last.                *)
LEMMA SessionsSpan ==
  ASSUME NEW S, NEW a \in Nat, NEW b \in Nat, S \subseteq a..b, NEW d \in S
  PROVE  Min(S) \in S /\ Max(S) \in S /\ d \in Min(S)..Max(S)
  <1>1. S \subseteq Nat /\ S # {} /\ \A x \in S : x <= b
    OBVIOUS
  <1>2. \E x \in S : \A y \in S : x <= y
    BY <1>1, LeastExists
  <1>3. \E x \in S : \A y \in S : y <= x
    BY <1>1, GreatestExists
  <1>4. Min(S) \in S /\ \A y \in S : Min(S) <= y
    BY <1>2 DEF Min
  <1>5. \E x \in S : \A y \in S : x >= y
    BY <1>1, <1>3
  <1>6. Max(S) \in S /\ \A y \in S : Max(S) >= y
    BY <1>5 DEF Max
  <1> QED BY <1>1, <1>4, <1>6

LEMMA PeriodsApart ==
  ASSUME BenchInv, Started, Completed(benchTask), NEW name \in Requested(benchTask),
         ~Overlapping(RowsOfMethod(name)), NEW i \in 1..benchTask.tests, NEW j \in 1..benchTask.tests, i # j
  PROVE  Simulated(i) \cap Simulated(j) = {}
  <1>1. PICK k \in Places(name) : {p \in Places(name) : periodRows[p].test = i} = {k}
    BY CompleteTable
  <1>2. PICK l \in Places(name) : {p \in Places(name) : periodRows[p].test = j} = {l}
    BY CompleteTable
  <1>3. periodRows[k].test = i /\ periodRows[l].test = j /\ k # l
    BY <1>1, <1>2
  <1>4. /\ ~(ActualStart(j) \in ActualStart(i)..ActualEnd(i))
        /\ ~(ActualStart(i) \in ActualStart(j)..ActualEnd(j))
    <2>1. \A p \in Places(name) : RowsOfMethod(name)[p].test = periodRows[p].test
      BY RowsAre
    <2>2. \A p, q \in Places(name) : p # q =>
            ~(ActualStart(periodRows[q].test)
                \in ActualStart(periodRows[p].test)..ActualEnd(periodRows[p].test))
      BY <2>1, RowsAre DEF Overlapping
    <2> QED BY <1>1, <1>2, <1>3, <2>2
  <1>5. ASSUME NEW d \in Simulated(i), d \in Simulated(j)
        PROVE  FALSE
    <2>1. \A t \in {i, j} : /\ benchPeriods[t] \in Nat /\ benchPeriods[t] + BenchDuration \in Nat
                            /\ Simulated(t) \subseteq benchPeriods[t]..benchPeriods[t] + BenchDuration
      BY StartedTypes, BenchmarkAssumption DEF Simulated, SessionsOf
    <2>2. \A t \in {i, j} : /\ {ActualStart(t), ActualEnd(t)} \subseteq Simulated(t)
                            /\ Simulated(t) \subseteq Nat
                            /\ d \in ActualStart(t)..ActualEnd(t)
      <3> TAKE t \in {i, j}
      <3>1. d \in Simulated(t)
        BY <1>5
      <3>2. /\ {Min(Simulated(t)), Max(Simulated(t))} \subseteq Simulated(t)
            /\ d \in Min(Simulated(t))..Max(Simulated(t))
        BY <2>1, <3>1, SessionsSpan
      <3> QED BY <2>1, <3>2 DEF ActualStart, ActualEnd
    <2> DEFINE a == ActualStart(i)
               b == ActualStart(j)
    <2>3. a \in Nat /\ b \in Nat /\ d \in a..ActualEnd(i) /\ d \in b..ActualEnd(j)
      BY <2>2
    <2> HIDE DEF a, b
    <2>4. ~(b \in a..ActualEnd(i)) /\ ~(a \in b..ActualEnd(j))
      BY <1>4 DEF a, b
    <2>5. ActualEnd(i) \in Int /\ ActualEnd(j) \in Int
      BY <2>2
    <2> QED BY <2>3, <2>4, <2>5
  <1> QED BY <1>5

LEMMA PromotionEarns ==
  ASSUME BenchInv, Started, Completed(benchTask), NEW name \in Learned(benchTask),
         DOMAIN RowsOfMethod(name) # {}, NEW best, NEW valid,
         Decision(Metrics(name), best, RowsOfMethod(name), valid, gaps = {} /\ ~benchTask.exploratory)
           = "PROMOTE",
         \A k \in DOMAIN periodRows, model \in ToSet(benchTask.models), top \in ToSet(benchTask.tops) :
           periodRows[k].method = TopOf(model, top) => Fitted(model, periodRows[k].test)
  PROVE  valid /\ Earned(name)
  <1> DEFINE rows == RowsOfMethod(name)
             m == Metrics(name)
             n == benchTask.tests
             D == Places(name)
             P == {k \in D : rows[k].total > 0}
             beating == {k \in D : rows[k].total > rows[k].spy}
  <1>1. /\ valid /\ gaps = {} /\ ~benchTask.exploratory
        /\ m.beats >= 55 /\ m.tested >= MinPeriods /\ ~m.overlap
        /\ LET gains == Restrict(Totals(rows), {k \in DOMAIN rows : rows[k].total > 0})
           IN \A k \in DOMAIN gains : 2 * gains[k] <= Added(gains)
    BY DEF Decision
  <1>2. name \in Requested(benchTask)
    BY DEF Requested
  <1>3. DOMAIN rows = D /\ \A k \in D : rows[k] = periodRows[k]
    BY RowsAre
  <1>4. IsFiniteSet(D) /\ Cardinality(D) = n
    BY <1>2, OneRowEach
  <1>5. n \in Nat \ {0} /\ Len(benchPeriods) = n /\ DOMAIN benchPeriods = 1..n
    BY StartedTypes DEF Started, Acceptable
  <1>6. m.tested = Cardinality(D) /\ m.overlap = Overlapping(rows) /\ m.beats = Percent(beating, rows)
    BY <1>3 DEF Metrics
  <1>7. benchTask.excluded = {}
    BY <1>1 DEF Started, Acceptable
  <1>8. \A asked \in Requested(benchTask), i \in 1..n :
          Cardinality({k \in DOMAIN RowsOfMethod(asked) : periodRows[k].test = i}) = 1
    <2> TAKE asked \in Requested(benchTask), i \in 1..n
    <2>1. PICK k : {p \in Places(asked) : periodRows[p].test = i} = {k}
      BY CompleteTable
    <2>2. {p \in DOMAIN RowsOfMethod(asked) : periodRows[p].test = i} = {k}
      BY <2>1, RowsAre
    <2> QED BY <2>2, FS_Singleton
  <1>9. \A model \in ToSet(benchTask.models), i \in 1..n :
          \E fold \in ToSet(folds) :
            fold.model = Named(model) /\ fold.test = i /\ fold.until < benchPeriods[i]
    <2> TAKE model \in ToSet(benchTask.models), i \in 1..n
    <2>1. PICK top \in ToSet(benchTask.tops) : TRUE
      BY DEF Learned
    <2>2. TopOf(model, top) \in Requested(benchTask)
      BY DEF Requested, Learned
    <2>3. PICK k \in Places(TopOf(model, top)) :
            {p \in Places(TopOf(model, top)) : periodRows[p].test = i} = {k}
      BY <2>2, CompleteTable
    <2>4. k \in DOMAIN periodRows /\ periodRows[k].method = TopOf(model, top) /\ periodRows[k].test = i
      BY <2>3 DEF Places
    <2>5. Fitted(model, i)
      BY <2>4
    <2>6. PICK j \in DOMAIN folds : folds[j].model = Named(model) /\ folds[j].test = i
      BY <2>5 DEF Fitted, ToSet
    <2>7. folds[j].until = benchPeriods[i] - 1 /\ benchPeriods[i] \in Nat
      BY <2>6, StartedTypes DEF Started
    <2>8. folds[j].until < benchPeriods[i]
      BY <2>7
    <2> QED BY <2>6, <2>8 DEF ToSet
  <1>10. Len(benchPeriods) >= MinPeriods
    BY <1>1, <1>4, <1>5, <1>6
  <1>11. \A i, j \in 1..n : i # j => Simulated(i) \cap Simulated(j) = {}
    BY <1>1, <1>2, <1>6, PeriodsApart
  <1>12. 2 * Cardinality(beating) > n
    <2>1. IsFiniteSet(beating) /\ Cardinality(beating) \in Nat
      <3>1. beating \in SUBSET D
        OBVIOUS
      <3> HIDE DEF beating
      <3> QED BY <1>4, <3>1, FS_Subset, FS_CardinalityType
    <2>2. (100 * Cardinality(beating)) \div n >= 55
      BY <1>1, <1>3, <1>4, <1>6 DEF Percent
    <2> HIDE DEF beating, n
    <2> QED BY <1>5, <2>1, <2>2, MostOf
  <1>13. \A k \in D : rows[k].total > 0 =>
           2 * rows[k].total <= Added([l \in D |-> Larger(rows[l].total, 0)])
    <2> DEFINE f == [k \in D |-> rows[k].total]
               gains == Restrict(f, P)
    <2>1. f \in [D -> Int]
      BY <1>3, StartedTypes DEF Places
    <2>2. Totals(rows) = f
      BY <1>3 DEF Totals
    <2>3. \A k \in DOMAIN gains : 2 * gains[k] <= Added(gains)
      BY <1>1, <1>3, <2>2
    <2>4. DOMAIN gains = P /\ \A k \in P : gains[k] = rows[k].total
      BY DEF Restrict
    <2>5. P = {k \in D : f[k] > 0}
      OBVIOUS
    <2>6. [l \in D |-> Larger(rows[l].total, 0)] = [l \in D |-> Larger(f[l], 0)]
      OBVIOUS
    <2> HIDE DEF f, D, rows
    <2>7. Added(gains) = Added([l \in D |-> Larger(f[l], 0)])
      BY <1>4, <2>1, <2>5, GainsAre
    <2> HIDE DEF gains
    <2> QED BY <2>3, <2>4, <2>6, <2>7
  <1> QED BY <1>1, <1>3, <1>4, <1>5, <1>7, <1>8, <1>9, <1>10, <1>11, <1>12, <1>13 DEF Earned

-----------------------------------------------------------------------------
(* The steps of a run keep the invariant.                                  *)

LEMMA BenchInit_ == BenchInit => BenchInv
  BY DEF BenchInit, BenchInv

LEMMA HeadIs ==
  ASSUME BenchInv, benchStage = "run", queue # <<>>
  PROVE  /\ Started /\ RowsFollow /\ queue \in Orders(benchTask) /\ queue \in Seq(StepType(benchTask))
         /\ Head(queue) = queue[1] /\ 1 \in DOMAIN queue
         /\ Rests(queue, Tail(queue), 1) /\ Tail(queue) \in Orders(benchTask)
  <1>1. Started /\ RowsFollow /\ queue \in Orders(benchTask) /\ benchTask \in BenchTasks
    BY DEF BenchInv
  <1>2. queue \in Seq(StepType(benchTask))
    BY <1>1 DEF Orders
  <1> DEFINE T == StepType(benchTask)
  <1> HIDE DEF T
  <1>3. Head(queue) = queue[1] /\ 1 \in DOMAIN queue
    BY <1>2
  <1>4. Rests(queue, Tail(queue), 1)
    BY <1>2, TailRests
  <1>5. Tail(queue) \in Orders(benchTask)
    BY <1>1, <1>4, RestKeeps
  <1> QED BY <1>1, <1>2, <1>3, <1>4, <1>5

(* A record that is still to come stays to come, unless it is made.        *)
LEMMA StillRecorded ==
  ASSUME BenchInv, benchStage = "run", queue # <<>>, NEW model, Recorded(queue, 1, model),
         ~(queue[1].do = "record" /\ queue[1].name = Named(model))
  PROVE  Recorded(Tail(queue), 1, model)
  <1> DEFINE T == StepType(benchTask)
  <1>1. queue \in Seq(T) /\ Rests(queue, Tail(queue), 1)
    BY HeadIs
  <1> HIDE DEF T
  <1>2. PICK p \in DOMAIN queue : /\ 1 <= p /\ queue[p].do = "record" /\ queue[p].name = Named(model)
                                   /\ \A j \in 1..p : queue[j].do \notin {"prepare", "fit"}
    BY DEF Recorded
  <1>3. p \in 2..Len(queue)
    <2>1. p # 1
      BY <1>2
    <2> QED BY <1>1, <1>2, <2>1
  <1>4. Recorded(queue, 2, model)
    BY <1>2, <1>3 DEF Recorded
  <1>5. Tail(queue) # <<>>
    <2>1. Len(queue) >= 2
      BY <1>1, <1>3
    <2>2. Len(Tail(queue)) = Len(queue) - 1
      BY <1>1, HeadTailProperties
    <2>3. Len(Tail(queue)) >= 1
      BY <1>1, <2>1, <2>2
    <2>4. Len(<<>>) = 0
      OBVIOUS
    <2> DEFINE rest == Tail(queue)
    <2> HIDE DEF rest
    <2>5. rest # <<>>
      BY <2>3, <2>4 DEF rest
    <2> QED BY <2>5 DEF rest
  <1>6. Recorded(Tail(queue), 2 - 1, model)
    <2>1. 2 \in 1..Len(queue) /\ 2 > 1
      BY <1>1, <1>3
    <2> QED BY <1>1, <1>4, <1>5, <2>1, RestRecords
  <1>7. 2 - 1 = 1
    OBVIOUS
  <1> QED BY <1>6, <1>7, Zenon

(* Before a fit or a preparation, and when nothing is left, every learned  *)
(* row has its model recorded.                                             *)
LEMMA RowsFitted ==
  ASSUME BenchInv, benchStage \in {"run", "done"},
         queue = <<>> \/ queue[1].do \in {"prepare", "fit"}
  PROVE  \A k \in DOMAIN periodRows, model \in ToSet(benchTask.models), top \in ToSet(benchTask.tops) :
           periodRows[k].method = TopOf(model, top) => Fitted(model, periodRows[k].test)
  <1>1. \A model : ~Recorded(queue, 1, model)
    <2> SUFFICES ASSUME NEW model, Recorded(queue, 1, model) PROVE FALSE
      OBVIOUS
    <2>1. PICK p \in DOMAIN queue : 1 <= p /\ \A j \in 1..p : queue[j].do \notin {"prepare", "fit"}
      BY DEF Recorded
    <2>2. queue \in Seq(StepType(benchTask))
      BY DEF BenchInv, Orders
    <2>3. p \in Nat /\ 1 \in 1..p
      BY <2>1, <2>2
    <2> QED BY <2>1, <2>3
  <1> QED BY <1>1 DEF BenchInv, RowsFollow

LEMMA RejectStep == ASSUME BenchInv, Reject PROVE BenchInv'
  BY DEF BenchInv, Reject

LEMMA StartStep == ASSUME BenchInv, StartBenchmark PROVE BenchInv'
  <1>1. /\ benchStage = "start" /\ benchStage' = "run" /\ Acceptable(benchTask) /\ benchTask' = benchTask
        /\ test' = 1 /\ queue' = Steps(benchTask) /\ benchPeriods' \in PeriodChoices(benchTask.tests)
        /\ UNCHANGED <<periodRows, errors, folds, verdict>>
    BY DEF StartBenchmark
  <1>2. /\ benchTask \in BenchTasks /\ periodRows = <<>> /\ folds = <<>> /\ errors = {}
        /\ DOMAIN verdict.decisions = {}
    BY <1>1 DEF BenchInv
  <1>3. benchPeriods' \in [1..benchTask.tests -> Starts]
    BY <1>1 DEF PeriodChoices
  <1>4. benchTask.tests \in Nat /\ 1 \in 1..benchTask.tests
    BY <1>1, <1>2, TaskIs DEF Acceptable
  <1>5. queue' \in Orders(benchTask')
    BY <1>1, <1>2, StepsAre
  <1>6. RowsFollow'
    BY <1>1, <1>2 DEF RowsFollow
  <1>7. Started'
    <2>1. Acceptable(benchTask')
      BY <1>1
    <2>2. periodRows' = <<>> /\ folds' = <<>> /\ errors' = {}
      BY <1>1, <1>2
    <2>3. DOMAIN <<>> = {}
      OBVIOUS
    <2>4. periodRows' \in Seq(PeriodRow') /\ folds' \in Seq(FoldRow')
      BY <2>2
    <2> QED BY <1>1, <1>3, <1>4, <2>1, <2>2, <2>3, <2>4 DEF Started
  <1> QED BY <1>1, <1>2, <1>5, <1>6, <1>7 DEF BenchInv

LEMMA RunStep == ASSUME BenchInv, RunMethod PROVE BenchInv'
  <1>1. /\ benchStage = "run" /\ queue # <<>> /\ Head(queue).do = "simulate" /\ queue' = Tail(queue)
        /\ UNCHANGED <<benchTask, benchStage, benchPeriods, test, folds, verdict>>
    BY DEF RunMethod, Next_
  <1>2. /\ Started /\ RowsFollow /\ queue \in Orders(benchTask) /\ queue \in Seq(StepType(benchTask))
        /\ Head(queue) = queue[1] /\ 1 \in DOMAIN queue /\ Tail(queue) \in Orders(benchTask)
    BY <1>1, HeadIs
  <1>3. queue[1].do = "simulate" /\ Head(queue).name = queue[1].name /\ queue[1].name \in Requested(benchTask)
    <2> DEFINE T == StepType(benchTask)
    <2>1. queue \in Seq(T)
      BY <1>2
    <2> HIDE DEF T
    <2>2. queue[1] \in T
      BY <1>2, <2>1
    <2> QED BY <1>1, <1>2, <2>2 DEF StepType, T
  <1>4. \A model : Recorded(queue, 1, model) => Recorded(Tail(queue), 1, model)
    BY <1>1, <1>3, StillRecorded
  <1>5. DOMAIN verdict.decisions = {} /\ benchTask \in BenchTasks
    BY <1>1 DEF BenchInv
  <1>6. CASE Failed({Head(queue).name}) /\ UNCHANGED periodRows
    <2>1. \A e \in errors' : e.test \in 1..benchTask.tests
      BY <1>2, <1>6 DEF Failed, Started
    <2>2. Started'
      BY <1>1, <1>2, <1>6, <2>1 DEF Started, PeriodRow, FoldRow
    <2>3. RowsFollow'
      BY <1>1, <1>2, <1>4, <1>6 DEF RowsFollow, Fitted
    <2> QED BY <1>1, <1>2, <1>5, <2>2, <2>3 DEF BenchInv
  <1>7. CASE \E r \in SimReturns :
               /\ periodRows' = Append(periodRows, [method |-> Head(queue).name, test |-> test,
                                                    total |-> r, spy |-> SpyReturn[benchPeriods[test]]])
               /\ UNCHANGED errors
    <2>1. PICK r \in SimReturns :
            /\ periodRows' = Append(periodRows, [method |-> Head(queue).name, test |-> test,
                                                 total |-> r, spy |-> SpyReturn[benchPeriods[test]]])
            /\ UNCHANGED errors
      BY <1>7
    <2> DEFINE row == [method |-> Head(queue).name, test |-> test,
                       total |-> r, spy |-> SpyReturn[benchPeriods[test]]]
               T == PeriodRow
               n == Len(periodRows)
    <2>2. row \in T /\ row.method = queue[1].name /\ row.test = test
      <3>1. r \in Int
        BY BenchmarkAssumption
      <3>2. test \in 1..benchTask.tests /\ SpyReturn[benchPeriods[test]] \in Int
        BY <1>2, StartedTypes DEF Started
      <3> QED BY <1>3, <3>1, <3>2 DEF PeriodRow
    <2>3. periodRows \in Seq(T) /\ periodRows' = Append(periodRows, row)
      BY <1>2, <2>1 DEF Started
    <2> HIDE DEF row, T
    <2>4. /\ periodRows' \in Seq(T) /\ n \in Nat /\ DOMAIN periodRows = 1..n /\ DOMAIN periodRows' = 1..n + 1
          /\ periodRows'[n + 1] = row /\ \A k \in 1..n : periodRows'[k] = periodRows[k]
      BY <2>2, <2>3
    <2>5. PeriodRow' = T
      BY <1>1 DEF PeriodRow, T
    <2>6. \A k \in DOMAIN periodRows' : k \in DOMAIN periodRows \/ k = n + 1
      BY <2>4
    <2>7. \A k \in DOMAIN periodRows' : periodRows'[k].test <= test
      <3>1. test <= test
        BY <1>2 DEF Started
      <3> QED BY <1>2, <2>2, <2>4, <2>6, <3>1 DEF Started
    <2>8. Started'
      BY <1>1, <1>2, <2>1, <2>4, <2>5, <2>7 DEF Started, FoldRow
    <2>9. RowsFollow'
      <3>1. ASSUME NEW k \in DOMAIN periodRows', NEW model \in ToSet(benchTask.models),
                   NEW top \in ToSet(benchTask.tops), periodRows'[k].method = TopOf(model, top)
            PROVE  \/ Fitted(model, periodRows'[k].test)
                   \/ periodRows'[k].test = test /\ Recorded(Tail(queue), 1, model)
        <4>1. CASE k \in DOMAIN periodRows
          <5>1. periodRows'[k] = periodRows[k]
            BY <2>4, <4>1
          <5> QED BY <1>2, <1>4, <3>1, <4>1, <5>1 DEF RowsFollow
        <4>2. CASE k = n + 1
          <5>1. queue[1].name = TopOf(model, top) /\ periodRows'[k].test = test
            BY <2>2, <2>4, <3>1, <4>2
          <5>2. Recorded(queue, 1, model)
            BY <1>2, <1>3, <5>1 DEF Orders, RecordsLearned
          <5> QED BY <1>4, <5>1, <5>2
        <4> QED BY <2>6, <4>1, <4>2
      <3> QED BY <1>1, <3>1 DEF RowsFollow, Fitted
    <2> QED BY <1>1, <1>2, <1>5, <2>8, <2>9 DEF BenchInv
  <1> QED BY <1>6, <1>7 DEF RunMethod

(* What keeps the rows and the models, and leaves none of them unrecorded. *)
LEMMA QueueMoves ==
  ASSUME BenchInv, benchStage = "run", queue = <<>> \/ queue[1].do \in {"prepare", "fit"},
         benchStage' \in {"run", "aborted"}, queue' \in Orders(benchTask),
         test' \in 1..benchTask.tests, test <= test', \A e \in errors' : e.test \in 1..benchTask.tests,
         UNCHANGED <<benchTask, benchPeriods, periodRows, folds, verdict>>
  PROVE  BenchInv'
  <1>1. Started /\ DOMAIN verdict.decisions = {} /\ benchTask \in BenchTasks
    BY DEF BenchInv
  <1>2. RowsFollow'
    BY RowsFitted DEF RowsFollow, Fitted
  <1>3. \A k \in DOMAIN periodRows : periodRows[k].test <= test'
    <2>1. \A k \in DOMAIN periodRows : periodRows[k].test \in Int /\ periodRows[k].test <= test
      BY <1>1, StartedTypes DEF Started
    <2>2. test \in Int /\ test' \in Int
      BY <1>1 DEF Started
    <2> QED BY <2>1, <2>2
  <1>4. Started'
    BY <1>1, <1>3 DEF Started, PeriodRow, FoldRow
  <1> QED BY <1>1, <1>2, <1>4 DEF BenchInv

LEMMA FailedIs ==
  ASSUME BenchInv, Started, NEW names, Failed(names) \/ UNCHANGED errors
  PROVE  \A e \in errors' : e.test \in 1..benchTask.tests
  BY DEF Failed, Started

LEMMA PrepareStep == ASSUME BenchInv, PrepareTraining PROVE BenchInv'
  <1>1. /\ benchStage = "run" /\ queue # <<>> /\ Head(queue).do = "prepare"
        /\ benchStage' \in {"run", "aborted"} /\ queue' \in {Tail(queue), <<>>}
        /\ UNCHANGED <<benchTask, benchPeriods, test, periodRows, folds, verdict>>
        /\ Failed({Named(model) : model \in ToSet(benchTask.models)}) \/ UNCHANGED errors
    BY DEF PrepareTraining, Next_
  <1>2. Started /\ Head(queue) = queue[1] /\ Tail(queue) \in Orders(benchTask)
    BY <1>1, HeadIs
  <1>3. queue' \in Orders(benchTask)
    BY <1>1, <1>2, NoneRests DEF BenchInv
  <1>4. \A e \in errors' : e.test \in 1..benchTask.tests
    BY <1>1, <1>2, FailedIs
  <1>5. test' \in 1..benchTask.tests /\ test <= test'
    BY <1>1, <1>2 DEF Started
  <1>6. queue[1].do \in {"prepare", "fit"}
    BY <1>1, <1>2
  <1> QED BY <1>1, <1>3, <1>4, <1>5, <1>6, QueueMoves

LEMMA FitStep == ASSUME BenchInv, FitModel PROVE BenchInv'
  <1>1. /\ benchStage = "run" /\ queue # <<>> /\ Head(queue).do = "fit" /\ benchStage' = "run"
        /\ queue' \in {Tail(queue), SubSeq(queue, Len(benchTask.tops) + 3, Len(queue))}
        /\ UNCHANGED <<benchTask, benchPeriods, test, periodRows, folds, verdict>>
        /\ Failed({Head(queue).name}) \/ UNCHANGED errors
    BY DEF FitModel, Next_
  <1>2. /\ Started /\ Head(queue) = queue[1] /\ Tail(queue) \in Orders(benchTask)
        /\ queue \in Orders(benchTask) /\ queue \in Seq(StepType(benchTask))
    BY <1>1, HeadIs
  <1>3. queue' \in Orders(benchTask)
    <2>1. Len(benchTask.tops) + 3 \in Nat \ {0} /\ benchTask \in BenchTasks
      <3>1. benchTask \in BenchTasks
        BY DEF BenchInv
      <3>2. Len(benchTask.tops) \in Nat
        BY <3>1, TaskIs
      <3> QED BY <3>1, <3>2
    <2> DEFINE a == Len(benchTask.tops) + 3
    <2> HIDE DEF a
    <2>2. Rests(queue, SubSeq(queue, a, Len(queue)), a - 1)
      BY <1>2, <2>1, LaterRests DEF a
    <2>3. SubSeq(queue, a, Len(queue)) \in Orders(benchTask)
      BY <1>2, <2>1, <2>2, RestKeeps
    <2> QED BY <1>1, <1>2, <2>3 DEF a
  <1>4. \A e \in errors' : e.test \in 1..benchTask.tests
    BY <1>1, <1>2, FailedIs
  <1>5. test' \in 1..benchTask.tests /\ test <= test'
    BY <1>1, <1>2 DEF Started
  <1>6. queue[1].do \in {"prepare", "fit"}
    BY <1>1, <1>2
  <1> QED BY <1>1, <1>3, <1>4, <1>5, <1>6, QueueMoves

LEMMA RecordStep == ASSUME BenchInv, RecordFold PROVE BenchInv'
  <1> DEFINE until == benchPeriods[test] - 1
             fold == [model |-> Head(queue).name, test |-> test, until |-> until, labels |-> until]
             T == FoldRow
             n == Len(folds)
  <1>1. /\ benchStage = "run" /\ queue # <<>> /\ Head(queue).do = "record" /\ queue' = Tail(queue)
        /\ folds' = Append(folds, fold)
        /\ UNCHANGED <<benchTask, benchStage, benchPeriods, test, periodRows, errors, verdict>>
    BY DEF RecordFold, Next_
  <1>2. /\ Started /\ RowsFollow /\ Head(queue) = queue[1] /\ 1 \in DOMAIN queue
        /\ Tail(queue) \in Orders(benchTask) /\ queue \in Seq(StepType(benchTask))
    BY <1>1, HeadIs
  <1>3. queue[1].do = "record" /\ queue[1].name \in FitNames(benchTask)
    <2> DEFINE S == StepType(benchTask)
    <2>1. queue \in Seq(S)
      BY <1>2
    <2> HIDE DEF S
    <2>2. queue[1] \in S
      BY <1>2, <2>1
    <2> QED BY <1>1, <1>2, <2>2 DEF StepType, S
  <1>4. /\ fold \in T /\ fold.model = queue[1].name /\ fold.test = test
        /\ fold.until = benchPeriods[fold.test] - 1
    <2>1. test \in 1..benchTask.tests /\ benchPeriods[test] \in Nat
      BY <1>2, StartedTypes DEF Started
    <2>2. until \in Int
      BY <2>1
    <2> HIDE DEF until
    <2>3. fold.until = until /\ fold.test = test /\ fold.model = queue[1].name
      BY <1>2
    <2>4. fold \in T
      BY <1>2, <1>3, <2>1, <2>2 DEF FoldRow
    <2> QED BY <2>3, <2>4 DEF until
  <1>5. folds \in Seq(T)
    BY <1>2 DEF Started
  <1> HIDE DEF fold, T, until
  <1>6. /\ folds' \in Seq(T) /\ n \in Nat /\ DOMAIN folds = 1..n /\ DOMAIN folds' = 1..n + 1
        /\ folds'[n + 1] = fold /\ \A k \in 1..n : folds'[k] = folds[k]
    BY <1>1, <1>4, <1>5
  <1>7. \A k \in DOMAIN folds' : k \in DOMAIN folds \/ k = n + 1
    BY <1>6
  <1>8. \A k \in DOMAIN folds' : folds'[k].until = benchPeriods[folds'[k].test] - 1
    BY <1>2, <1>4, <1>6, <1>7 DEF Started
  <1>9. \A model, i : Fitted(model, i) => Fitted(model, i)'
    BY <1>6 DEF Fitted, ToSet
  <1>10. \A model : queue[1].name = Named(model) => Fitted(model, test)'
    <2> SUFFICES ASSUME NEW model, queue[1].name = Named(model) PROVE Fitted(model, test)'
      OBVIOUS
    <2>1. n + 1 \in DOMAIN folds'
      BY <1>6
    <2>2. fold.model = Named(model) /\ fold.test = test'
      BY <1>1, <1>4
    <2>3. fold \in ToSet(folds')
      BY <1>6, <2>1 DEF ToSet
    <2> QED BY <2>2, <2>3 DEF Fitted
  <1>11. \A model : Recorded(queue, 1, model) =>
           Recorded(Tail(queue), 1, model) \/ queue[1].name = Named(model)
    BY <1>1, StillRecorded
  <1>12. Started'
    <2>1. FoldRow' = T
      BY <1>1 DEF FoldRow, T
    <2> QED BY <1>1, <1>2, <1>6, <1>8, <2>1 DEF Started, PeriodRow
  <1>13. RowsFollow'
    <2>1. ASSUME NEW k \in DOMAIN periodRows, NEW model \in ToSet(benchTask.models),
                 NEW top \in ToSet(benchTask.tops), periodRows[k].method = TopOf(model, top)
          PROVE  \/ Fitted(model, periodRows[k].test)'
                 \/ periodRows[k].test = test /\ Recorded(Tail(queue), 1, model)
      <3>1. \/ Fitted(model, periodRows[k].test)
            \/ periodRows[k].test = test /\ Recorded(queue, 1, model)
        BY <1>2, <2>1 DEF RowsFollow
      <3>2. CASE Fitted(model, periodRows[k].test)
        <4>1. periodRows'[k].test = periodRows[k].test
          BY <1>1
        <4> QED BY <1>6, <3>2, <4>1 DEF Fitted, ToSet
      <3>3. CASE periodRows[k].test = test /\ Recorded(queue, 1, model)
        <4>1. periodRows'[k].test = test'
          BY <1>1, <3>3
        <4> QED BY <1>10, <1>11, <3>3, <4>1
      <3> QED BY <3>1, <3>2, <3>3
    <2> QED BY <1>1, <2>1 DEF RowsFollow
  <1>14. DOMAIN verdict.decisions = {} /\ benchTask \in BenchTasks
    BY <1>1 DEF BenchInv
  <1> QED BY <1>1, <1>2, <1>12, <1>13, <1>14 DEF BenchInv

LEMMA PeriodStep == ASSUME BenchInv, NextPeriod PROVE BenchInv'
  <1>1. /\ benchStage = "run" /\ queue = <<>> /\ test < benchTask.tests /\ benchStage' = "run"
        /\ test' = test + 1 /\ queue' = Steps(benchTask)
        /\ UNCHANGED <<benchTask, benchPeriods, periodRows, errors, folds, verdict>>
    BY DEF NextPeriod
  <1>2. Started /\ benchTask \in BenchTasks
    BY <1>1 DEF BenchInv
  <1>3. queue' \in Orders(benchTask)
    BY <1>1, <1>2, StepsAre
  <1>4. test' \in 1..benchTask.tests /\ test <= test'
    <2>1. test \in 1..benchTask.tests /\ benchTask.tests \in Nat
      BY <1>2, TaskIs DEF Started
    <2> QED BY <1>1, <2>1
  <1>5. \A e \in errors' : e.test \in 1..benchTask.tests
    BY <1>1, <1>2 DEF Started
  <1> QED BY <1>1, <1>3, <1>4, <1>5, QueueMoves

LEMMA EarnedStays ==
  ASSUME UNCHANGED <<benchTask, benchPeriods, spyRows, gaps, periodRows, folds>>
  PROVE  \A name : Earned(name) => Earned(name)'
  <1> TAKE name
  <1>1. RowsOfMethod(name)' = RowsOfMethod(name) /\ \A asked : RowsOfMethod(asked)' = RowsOfMethod(asked)
    BY DEF RowsOfMethod
  <1>2. \A i : Simulated(i)' = Simulated(i)
    BY DEF Simulated
  <1> QED BY <1>1, <1>2 DEF Earned

LEMMA SummaryStep == ASSUME BenchInv, Summarize PROVE BenchInv'
  <1> DEFINE decided == {name \in Learned(benchTask) : DOMAIN RowsOfMethod(name) # {}}
             valid(able) == AuditPasses(benchTask, able) /\ Completed(benchTask)
             decide(name, best, able) ==
               Decision(Metrics(name), best, RowsOfMethod(name), valid(able),
                        gaps = {} /\ ~benchTask.exploratory)
             class(able) == IF benchTask.exploratory THEN "NON_PROMOTABLE"
                            ELSE IF valid(able) /\ gaps = {} THEN "VALID" ELSE "INVALID"
  <1>1. /\ benchStage = "run" /\ queue = <<>> /\ benchStage' = "done"
        /\ UNCHANGED <<benchTask, benchPeriods, spyRows, gaps, test, queue, periodRows, errors, folds>>
    BY DEF Summarize
  <1>2. PICK able \in BOOLEAN, best \in SUBSET Best(benchTask) :
          verdict' = [class |-> class(able), decisions |-> [name \in decided |-> decide(name, best, able)]]
    BY DEF Summarize
  <1>3. /\ verdict'.class = class(able) /\ DOMAIN verdict'.decisions = decided
        /\ \A name \in decided : verdict'.decisions[name] = decide(name, best, able)
    <2> HIDE DEF decide, class, decided
    <2> QED BY <1>2
  <1>4. Started /\ benchTask \in BenchTasks /\ queue \in Orders(benchTask) /\ RowsFollow
    BY <1>1 DEF BenchInv
  <1>5. ASSUME NEW name \in decided, decide(name, best, able) = "PROMOTE"
        PROVE  verdict'.class = "VALID" /\ Earned(name)
    <2>1. \A k \in DOMAIN periodRows, model \in ToSet(benchTask.models), top \in ToSet(benchTask.tops) :
            periodRows[k].method = TopOf(model, top) => Fitted(model, periodRows[k].test)
      BY <1>1, RowsFitted
    <2>2. AuditPasses(benchTask, able) /\ Completed(benchTask) /\ gaps = {} /\ ~benchTask.exploratory
      BY <1>5 DEF Decision
    <2>3. Earned(name)
      BY <1>4, <1>5, <2>1, <2>2, PromotionEarns
    <2> QED BY <1>3, <2>2, <2>3
  <1>6. \A name : Earned(name) => Earned(name)'
    BY <1>1, EarnedStays
  <1>7. PromotionIsEarned'
    <2>1. ASSUME NEW name \in DOMAIN verdict'.decisions, verdict'.decisions[name] = "PROMOTE"
          PROVE  verdict'.class = "VALID" /\ Earned(name)'
      BY <1>3, <1>5, <1>6, <2>1
    <2> QED BY <2>1 DEF PromotionIsEarned, Earned
  <1>8. Started'
    BY <1>1, <1>4 DEF Started, PeriodRow, FoldRow
  <1>9. RowsFollow'
    BY <1>1, <1>4 DEF RowsFollow, Fitted
  <1> QED BY <1>1, <1>4, <1>7, <1>8, <1>9 DEF BenchInv

LEMMA BenchStep == BenchInv /\ [BenchNext]_benchVars => BenchInv'
  <1> SUFFICES ASSUME BenchInv, [BenchNext]_benchVars PROVE BenchInv'
    OBVIOUS
  <1>1. CASE UNCHANGED benchVars
    <2>1. UNCHANGED <<benchTask, benchStage, benchPeriods, spyRows, gaps, test, queue, periodRows,
                      errors, folds, verdict>>
      BY <1>1 DEF benchVars
    <2>2. Started => Started'
      BY <2>1 DEF Started, PeriodRow, FoldRow
    <2>3. RowsFollow => RowsFollow'
      BY <2>1 DEF RowsFollow, Fitted
    <2>4. \A name : Earned(name) => Earned(name)'
      BY <2>1, EarnedStays
    <2>5. PromotionIsEarned => PromotionIsEarned'
      <3>1. verdict' = verdict
        BY <2>1
      <3>2. SUFFICES ASSUME PromotionIsEarned, NEW name \in DOMAIN verdict'.decisions,
                            verdict'.decisions[name] = "PROMOTE"
                     PROVE  verdict'.class = "VALID" /\ Earned(name)'
        BY DEF PromotionIsEarned, Earned
      <3>3. verdict.class = "VALID" /\ Earned(name)
        BY <3>1, <3>2 DEF PromotionIsEarned, Earned
      <3> QED BY <3>1, <3>3, <2>4
    <2> QED BY <2>1, <2>2, <2>3, <2>5 DEF BenchInv
  <1> QED BY <1>1, RejectStep, StartStep, RunStep, PrepareStep, FitStep, RecordStep, PeriodStep, SummaryStep
        DEF BenchNext

(* The invariant of a benchmark run: the tables are those of the periods so*)
(* far, every learned row has its model recorded or about to be, and what  *)
(* was promoted has been earned.                                           *)
THEOREM BenchInvariant == BenchSpec => []BenchInv
  <1> QED BY BenchInit_, BenchStep, PTL DEF BenchSpec

LEMMA InvTypesTables == BenchInv => BenchTypeOK
  <1> SUFFICES ASSUME BenchInv PROVE BenchTypeOK
    OBVIOUS
  <1>1. CASE benchStage \in {"start", "rejected"}
    <2>1. test = 0 /\ periodRows = <<>> /\ folds = <<>> /\ errors = {} /\ benchTask.tests \in Nat
      BY <1>1, TaskIs DEF BenchInv
    <2> QED BY <1>1, <2>1 DEF BenchTypeOK, ToSet
  <1>2. CASE benchStage \in {"run", "aborted", "done"}
    <2>1. Started
      BY <1>2 DEF BenchInv
    <2>2. DOMAIN benchPeriods = 1..benchTask.tests /\ benchTask.tests \in Nat
      BY <2>1, StartedTypes
    <2>3. \A r \in ToSet(periodRows) : r.method \in Requested(benchTask) /\ r.test \in DOMAIN benchPeriods
      BY <2>1, <2>2, StartedTypes DEF ToSet
    <2>4. \A fold \in ToSet(folds) : fold.test \in DOMAIN benchPeriods
      <3>1. \A k \in DOMAIN folds : folds[k] \in FoldRow
        BY <2>1 DEF Started
      <3> QED BY <2>2, <3>1 DEF FoldRow, ToSet
    <2> QED BY <1>2, <2>1, <2>2, <2>3, <2>4 DEF BenchTypeOK, Started
  <1> QED BY <1>1, <1>2 DEF BenchInv

(* The shape of a run's tables.                                            *)
THEOREM BenchTypeCorrect == BenchSpec => []BenchTypeOK
  <1> QED BY InvTypesTables, BenchInvariant, PTL

(* A learned method is promoted only out of a complete, audited run, for   *)
(* beating the benchmark in most of enough periods, no two of which were   *)
(* simulated on a common session of the benchmark.                         *)
THEOREM PromotionsAreEarned == BenchSpec => []PromotionIsEarned
  <1>1. BenchInv => PromotionIsEarned
    BY DEF BenchInv, PromotionIsEarned
  <1> QED BY <1>1, BenchInvariant, PTL
=============================================================================
