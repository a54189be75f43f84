------------------------------ MODULE Training ------------------------------
(***************************************************************************)
(* The rows a learned ranking is fitted on: the features of a stock on a   *)
(* date (src/ml/features.py), the labels that look past it                 *)
(* (src/ml/labels.py), the dataset (src/ml/dataset.py), and the two ways   *)
(* it is cut before a fit: the training window of a benchmark period       *)
(* (src/benchmarking/ml_training.py) and the folds of a walk-forward       *)
(* evaluation (src/ml/validation.py, src/ml/evaluation.py).                *)
(*                                                                         *)
(* One step evaluates one date, or fits one model.  The process-wide cache *)
(* of features and the reported metrics are left out.                      *)
(***************************************************************************)
EXTENDS Regime

CONSTANTS
  TrainFeeds,     \* the prices the loader may return
  TrainTasks,     \* what may be asked: see Periods and Walks
  TrainMembers,   \* TrainMembers[d]: the universe on day d
  FirstSupported, \* the first day whose universe is known
  LabelDays,      \* rows between a feature and its label
  SampleDays,     \* days between two evaluation dates
  MaxStale,       \* days a stock's last row may be old
  WindowDays,     \* the training window of a benchmark period
  MinTrainingRows

(* The last day whose rows may be used.                                    *)
TrainingEnd(task) == IF task.kind = "period" THEN task.start - 1 ELSE task.end

ASSUME TrainingAssumption ==
  /\ {LabelDays, SampleDays, WindowDays, MinTrainingRows, FirstSupported} \subseteq Nat \ {0}
  /\ MaxStale \in Nat
  /\ \A task \in TrainTasks :
       /\ task.kind \in {"period", "walk"} /\ task.target \in {"beats", "positive", "gain"}
       /\ task.start \in Nat \ {0}
       /\ task.kind = "walk" => {task.end, task.train, task.validate, task.step} \subseteq Nat \ {0}
       /\ 1..TrainingEnd(task) \subseteq DOMAIN TrainMembers
  /\ \A feed \in TrainFeeds :
       /\ {"SPY", "QQQ"} \subseteq DOMAIN feed
       /\ \A d \in DOMAIN TrainMembers : TrainMembers[d] \subseteq DOMAIN feed
       /\ \A t \in DOMAIN feed :
            /\ feed[t] \in Seq([open : Nat, close : Nat, volume : Int])
            /\ \A task \in TrainTasks : TrainingEnd(task) <= Len(feed[t])

VARIABLES
  trainFeed,   \* ticker -> rows by day
  trainTask,   \* what was asked
  trainStage,  \* "begin", "rows", "fit", "done", "insufficient"
  trainDate,   \* the evaluation dates below this one are done
  dataset,     \* the rows built so far
  fits         \* a record of each model fitted

trainVars == <<trainFeed, trainTask, trainStage, trainDate, dataset, fits>>

-----------------------------------------------------------------------------
(* Features of closes c and their rows h, up to the stock's last row.      *)

HalfWindow == Days[20] \div 2
Distance(c, n) == Change(Last(c) * Days[n], Average(c, n))
Slope(c, n) == Change(Average(c, n), Average(SubSeq(c, 1, Len(c) - Days[5]), n))
Zscore(c) ==
  LET w == Window(c, Days[20])  n == Days[20]
      spread == SquareRoot(n * Total([i \in DOMAIN w |-> w[i] * w[i]]) - Total(w) * Total(w))
  IN IF spread = 0 THEN 0 ELSE ((n * Last(c) - Total(w)) * Thousand) \div spread
VolumeTrend(v) ==
  LET before == Total(Window(SubSeq(v, 1, Len(v) - HalfWindow), HalfWindow))
  IN IF before <= 0 THEN 0 ELSE Change(Total(Window(v, HalfWindow)), before)

FeatureStrategies == Registered \ {"Controlled Breakout V1"}
RowDays == <<Days[200], Days[50] + Days[5], Days[20] + Days[5], Days[120] + 1, Days[60] + 1,
             Days[14] + 1, Days[20] + HalfWindow>> \o RegimeDays

(* The indexes' momenta are read at the stock's last row.                  *)
Features(t, h, spy, qqq) ==
  LET c == Closes(h)
      ahead(index, n) == Momentum(c, n) - Momentum(Closes(SubSeq(index, 1, AsOf(h))), n)
  IN [price |-> Last(c),
      distance |-> [n \in {20, 50, 200} |-> Distance(c, n)],
      slope |-> [n \in {20, 50} |-> Slope(c, n)],
      momentum |-> [n \in {5, 20, 60, 120} |-> Momentum(c, n)],
      relative |-> [n \in {20, 60} |-> <<ahead(spy, n), ahead(qqq, n)>>],
      breakout |-> [n \in {20, 60} |-> Breakout(c, n)],
      volume |-> <<VolumeRatio(Volumes(Traded(h)), 0), VolumeTrend(Volumes(Traded(h)))>>,
      volatility |-> Volatility(c), rsi |-> Rsi(c), zscore |-> Zscore(c),
      regime |-> RegimeOf(spy, qqq), indices |-> <<Index(Closes(spy)), Index(Closes(qqq))>>,
      strategies |-> [name \in FeatureStrategies |-> Analyze(name, t, h, qqq)]]

-----------------------------------------------------------------------------
(* Labels: over so many ROWS, whatever their dates.  Day 0: not yet known. *)

PricedDays(rows, first, last) == {d \in first..last : rows[d].close > 0}
LabelEnd(rows, day) ==
  LET ends == {e \in PricedDays(rows, day + 1, Len(rows)) :
                 Cardinality(PricedDays(rows, day + 1, e)) = LabelDays}
  IN IF rows[day].close = 0 \/ ends = {} THEN 0 ELSE CHOOSE e \in ends : \A d \in ends : e <= d

(* Two returns are compared without rounding.                              *)
Label(rows, other, day, target) ==
  LET end == LabelEnd(rows, day)  otherEnd == LabelEnd(other, day)
      base == rows[day].close  close == rows[end].close
      yes == CASE target = "beats" -> close * other[day].close > other[otherEnd].close * base
               [] target = "positive" -> close > base
               [] target = "gain" -> 100 * close >= 105 * base
  IN IF end = 0 \/ (target = "beats" /\ otherEnd = 0) THEN "none" ELSE IF yes THEN "yes" ELSE "no"

(* mutant: the benchmark's own last close is forgotten.                    *)
ObservableAlone(rows, other, day, target) ==
  IF Label(rows, other, day, target) = "none" THEN 0 ELSE LabelEnd(rows, day)

(* When a label can first be known: with its last close, and the           *)
(* benchmark's when it is relative to it.                                  *)
Observable(rows, other, day, target) ==
  IF Label(rows, other, day, target) = "none" THEN 0
  ELSE IF target = "beats" THEN Larger(LabelEnd(rows, day), LabelEnd(other, day))
  ELSE LabelEnd(rows, day)

-----------------------------------------------------------------------------
(* The dataset: features stop at the date, labels read every row at hand.  *)

UpTo(rows, day) == SubSeq(rows, 1, day)
Fresh(rows, date) == HasClose(UpTo(rows, date)) /\ date - AsOf(UpTo(rows, date)) <= MaxStale
Usable(rows, date) == Fresh(rows, date) /\ Len(Closes(UpTo(rows, date))) >= Highest(RowDays)

Row(prices, t, date, target) ==
  LET h == UpTo(prices[t], date)
  IN [ticker |-> t, date |-> date,
      features |-> Features(t, h, UpTo(prices["SPY"], date), UpTo(prices["QQQ"], date)),
      label |-> Label(prices[t], prices["SPY"], AsOf(h), target),
      known |-> Observable(prices[t], prices["SPY"], AsOf(h), target)]

RowsOf(prices, date, target) ==
  IF RegimeOf(UpTo(prices["SPY"], date), UpTo(prices["QQQ"], date)) = "NONE" THEN {}
  ELSE {Row(prices, t, date, target) : t \in {u \in TrainMembers[date] : Usable(prices[u], date)}}

EvaluationDates(first, last) == {first} \cup {d \in first..last : d % SampleDays = 0}

(* Rows with a label, and those whose label was known by a day.            *)
Supervised(rows) == {r \in rows : r.label # "none"}
Purged(rows, day) == {r \in rows : r.known # 0 /\ r.known <= day}
BothClasses(rows) == Cardinality({r.label : r \in rows}) = 2

-----------------------------------------------------------------------------
(* A period is trained on the window that ends the day before it, from     *)
(* prices cut there; a walk on the folds of one dataset of all prices.     *)

Periods == {task \in TrainTasks : task.kind = "period"}
Walks == {task \in TrainTasks : task.kind = "walk"}

Cut(feed, day) == [t \in DOMAIN feed |-> [d \in DOMAIN feed[t] |->
                     IF d <= day THEN feed[t][d] ELSE [open |-> 0, close |-> 0, volume |-> 0]]]
TrainingStart(task) ==
  IF task.kind = "period" THEN Larger(task.start - 1 - WindowDays, FirstSupported) ELSE task.start
Prices(task) == IF task.kind = "period" THEN Cut(trainFeed, TrainingEnd(task)) ELSE trainFeed

(* generate_walk_forward_folds over the dates of the supervised rows.      *)
Folds(task, rows) ==
  LET dates == {r.date : r \in rows}
      first == CHOOSE d \in dates : \A e \in dates : d <= e
      last == CHOOSE d \in dates : \A e \in dates : e <= d
      shift(k) == k * task.step
      end(k) == first + task.train - 1 + shift(k)
      folds == {k \in 0..last : end(k) + task.validate <= last}
  IN IF Cardinality(dates) < 2 THEN <<>>
     ELSE [i \in 1..Cardinality(folds) |->
             [start |-> IF task.rolling THEN first + shift(i - 1) ELSE first, until |-> end(i - 1),
              predicts |-> end(i - 1) + 1, last |-> end(i - 1) + task.validate]]

RowsFrom(rows, first, last) == {r \in rows : first <= r.date /\ r.date <= last}

TrainInit ==
  /\ trainFeed \in TrainFeeds /\ trainTask \in TrainTasks /\ trainStage = "begin"
  /\ trainDate = 0 /\ dataset = {} /\ fits = {}

BeginTraining ==
  /\ trainStage = "begin"
  /\ trainStage' = IF TrainingStart(trainTask) < TrainingEnd(trainTask) THEN "rows" ELSE "insufficient"
  /\ trainDate' = TrainingStart(trainTask)
  /\ UNCHANGED <<trainFeed, trainTask, dataset, fits>>

EvaluateDate ==
  /\ trainStage = "rows"
  /\ LET last == TrainingEnd(trainTask)
         dates == {d \in EvaluationDates(TrainingStart(trainTask), last) : d >= trainDate}
         date == CHOOSE d \in dates : \A e \in dates : d <= e
     IN IF dates = {} THEN trainStage' = "fit" /\ UNCHANGED <<trainDate, dataset>>
        ELSE /\ dataset' = dataset \cup RowsOf(Prices(trainTask), date, trainTask.target)
             /\ trainDate' = date + 1 /\ UNCHANGED trainStage
  /\ UNCHANGED <<trainFeed, trainTask, fits>>

FitPeriod ==
  /\ trainStage = "fit" /\ trainTask \in Periods
  /\ LET rows == Purged(Supervised(dataset), TrainingEnd(trainTask))
     IN IF Cardinality(rows) < MinTrainingRows \/ ~BothClasses(rows)
        THEN trainStage' = "insufficient" /\ UNCHANGED fits
        ELSE /\ fits' = {[until |-> TrainingEnd(trainTask), predicts |-> trainTask.start,
                          rows |-> rows]}
             /\ trainStage' = "done"
  /\ UNCHANGED <<trainFeed, trainTask, trainDate, dataset>>

(* Every fold in turn; one without rows or without both classes is         *)
(* skipped.                                                                *)
FitFolds ==
  /\ trainStage = "fit" /\ trainTask \in Walks
  /\ LET rows == Supervised(dataset)
         folds == Folds(trainTask, rows)
         trained(f) == Purged(RowsFrom(rows, f.start, f.until), f.until)
         fittable(f) == BothClasses(trained(f)) /\ RowsFrom(rows, f.predicts, f.last) # {}
         fitted == {f \in ToSet(folds) : fittable(f)}
         fit(f) == [until |-> f.until, predicts |-> f.predicts, rows |-> trained(f)]
     IN /\ fits' = {fit(f) : f \in fitted}
        /\ trainStage' = IF fitted = {} THEN "insufficient" ELSE "done"
  /\ UNCHANGED <<trainFeed, trainTask, trainDate, dataset>>

TrainNext == BeginTraining \/ EvaluateDate \/ FitPeriod \/ FitFolds
TrainSpec == TrainInit /\ [][TrainNext]_trainVars

-----------------------------------------------------------------------------
(* The shape of the rows: a stock has one row for a date.                  *)
TrainTypeOK ==
  /\ trainStage \in {"begin", "rows", "fit", "done", "insufficient"} /\ trainDate \in Nat
  /\ \A r \in dataset : r.label \in {"yes", "no", "none"} /\ (r.known = 0 <=> r.label = "none")
  /\ \A r, s \in dataset : r.ticker = s.ticker /\ r.date = s.date => r = s

(* A model is fitted before what it predicts begins, and only on rows that *)
(* the prices of the days up to its cutoff determine: cutting the prices   *)
(* there, the same rows are built again, features and labels both.         *)
NoFutureLabels ==
  \A fit \in fits :
    LET known == Cut(trainFeed, fit.until)
    IN /\ fit.until < fit.predicts
       /\ \A r \in fit.rows : r.date <= fit.until /\ r = Row(known, r.ticker, r.date, trainTask.target)
=============================================================================
