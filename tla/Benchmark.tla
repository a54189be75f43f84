----------------------------- MODULE Benchmark ------------------------------
(***************************************************************************)
(* A benchmark run (src/benchmarking/runner.py): every requested method is *)
(* simulated on the same periods, each learned model is fitted anew before *)
(* a period, a method that fails is noted and the run goes on; what is     *)
(* left is measured (metrics.py), audited (coverage.py, leakage_audit.py)  *)
(* and a learned method is promoted or not (promotion.py).                 *)
(*                                                                         *)
(* One step is one simulation, preparation, fit or summary.  A simulation  *)
(* answers any of SimReturns or fails; returns are whole percents.         *)
(***************************************************************************)
EXTENDS Regime

CONSTANTS
  BenchFeeds,     \* the prices the loader may return
  BenchTasks,     \* what may be asked: [rules, switching, models, tops,
                  \*   tests, exploratory, excluded, pinned, loads]
  RegisteredMethods, \* the method names that are registered
  BenchFirst, BenchLast, BenchDuration, BenchTolerance,
  WarmupDays,     \* how far before a period its training reaches
  UniverseSince,  \* the first day whose universe is known
  SimReturns,     \* the returns a simulation may have
  SpyReturn,      \* SpyReturn[d]: the benchmark's over the period from d
  MinPeriods, MinObservations

ASSUME BenchmarkAssumption ==
  /\ {BenchFirst, BenchLast, BenchDuration, WarmupDays, MinPeriods} \subseteq Nat \ {0}
  /\ MinObservations \in Nat \ {0, 1} /\ UniverseSince \in Nat
  /\ SimReturns \subseteq Int /\ \A d \in BenchFirst..BenchLast : SpyReturn[d] \in Int
  /\ \A task \in BenchTasks :
       /\ task.rules \in Seq(ToSet(task.rules)) /\ task.models \in Seq(ToSet(task.models))
       /\ task.tops \in Seq(Nat \ {0}) /\ task.tests \in Nat
       /\ {task.switching, task.exploratory, task.pinned} \subseteq BOOLEAN

VARIABLES
  benchTask,    \* what was asked
  benchStage,   \* "start", "rejected", "run", "aborted", "done"
  benchPeriods, \* the periods' first days, by test number
  spyRows,      \* the benchmark's rows that the run uses
  gaps,         \* the tickers without the prices the run needs
  test,         \* the current test
  queue,        \* what is left of it: [do, name]
  periodRows,   \* the period table: [method, test, total, spy]
  errors,       \* what failed: [method, test]
  folds,        \* the models fitted: [model, test, until, labels]
  verdict       \* the classification and the decisions

benchVars == <<benchTask, benchStage, benchPeriods, spyRows, gaps, test, queue, periodRows,
               errors, folds, verdict>>

-----------------------------------------------------------------------------
(* Methods                                                                 *)

Named(name) == <<name, 0>>
TopOf(model, n) == <<model, n>>
Switching == Named("Regime Switching")
Learned(task) == {TopOf(model, n) : model \in ToSet(task.models), n \in ToSet(task.tops)}
Switched_(task) == IF task.switching THEN {Switching} ELSE {}
Requested(task) == {Named(name) : name \in ToSet(task.rules)} \cup Switched_(task) \cup Learned(task)
Existing(task) == {Named(name) : name \in ToSet(task.rules) \cap RegisteredMethods} \cup Switched_(task)

Do(what, name) == <<[do |-> what, name |-> name]>>
Simulations(names) == [i \in DOMAIN names |-> [do |-> "simulate", name |-> names[i]]]
ModelSteps(task, model) ==
  LET ranked == [j \in DOMAIN task.tops |-> TopOf(model, task.tops[j])]
  IN Do("fit", Named(model)) \o Simulations(ranked) \o Do("record", Named(model))
Ruled(steps, name) == IF name \in RegisteredMethods THEN steps \o Do("simulate", Named(name)) ELSE steps
RuleSteps(task) ==
  FoldLeft(Ruled, <<>>, task.rules)
    \o (IF task.switching THEN Do("simulate", Switching) ELSE <<>>)
    \o (IF task.models = <<>> THEN <<>> ELSE Do("prepare", Named("models")))
Steps(task) == FoldLeft(LAMBDA steps, model : steps \o ModelSteps(task, model), RuleSteps(task), task.models)

-----------------------------------------------------------------------------
(* Prices: an earlier load extends the later one, the provider's failures  *)
(* add to those of the audit over the benchmark's own sessions.            *)

Extended(feed, warmup, day) ==
  [t \in DOMAIN feed |-> [d \in DOMAIN feed[t] |->
     IF feed[t][d].open = 0 /\ feed[t][d].close = 0 /\ d < day THEN warmup[t][d] ELSE feed[t][d]]]

Priced(row) == row.open > 0 /\ row.close > 0 /\ row.volume > 0
SessionsOf(rows, first, last) == {d \in first..last : rows[d].open > 0 \/ rows[d].close > 0}
CoverageGaps(feed, first, last, pinned) ==
  LET sessions == SessionsOf(feed["SPY"], first, last)
      calendar == Covered(feed["SPY"], first, last, BenchTolerance)
      member(t, d) == pinned \/ t \in {"SPY", "QQQ"} \/ d >= UniverseSince
      gap(t) == \E d \in sessions : member(t, d) /\ ~Priced(feed[t][d])
  IN {t \in DOMAIN feed : ~calendar \/ ~HasRows(feed[t]) \/ gap(t)}

(* Distinct first days while there are enough of them.                     *)
Starts == BenchFirst..BenchLast - BenchDuration
PeriodChoices(n) ==
  {p \in [1..n -> Starts] : n <= Cardinality(Starts) => Cardinality(ToSet(p)) = n}
TrainingFrom(task, first) ==
  IF task.pinned THEN first - WarmupDays ELSE Larger(first - WarmupDays, UniverseSince)

(* The sessions a test is simulated on, the first and the last of them, and *)
(* whether the benchmark allows it to be simulated.                         *)
Simulated(i) == SessionsOf(spyRows, benchPeriods[i], benchPeriods[i] + BenchDuration)
ActualStart(i) == Min(Simulated(i))
ActualEnd(i) == Max(Simulated(i))
Benchmarked(i) ==
  /\ Covered(spyRows, benchPeriods[i], benchPeriods[i] + BenchDuration, BenchTolerance)
  /\ spyRows[ActualStart(i)].open > 0

-----------------------------------------------------------------------------
(* Metrics of one method's rows, which keep their place in the table.      *)
(* <<>> is a value that cannot be computed.                                *)

RowsOfMethod(name) == Restrict(periodRows, {k \in DOMAIN periodRows : periodRows[k].method = name})
Totals(rows) == [k \in DOMAIN rows |-> rows[k].total]
Excess(rows) == [k \in DOMAIN rows |-> rows[k].total - rows[k].spy]
Added(f) == MapThenSumSet(LAMBDA k : f[k], DOMAIN f)
Percent(some, rows) == (100 * Cardinality(some)) \div Cardinality(DOMAIN rows)
TwiceMedian(f) ==
  LET sorted == SetToSortSeq(DOMAIN f, LAMBDA j, k : f[j] < f[k])  n == Len(sorted)
  IN f[sorted[(n + 1) \div 2]] + f[sorted[n \div 2 + 1]]
Sharpe(f) ==
  LET n == Cardinality(DOMAIN f)  total == Added(f)
      spread == n * Added([k \in DOMAIN f |-> f[k] * f[k]]) - total * total
  IN IF n < MinObservations \/ spread = 0 THEN <<>>
     ELSE <<(10 * total * SquareRoot(10000 * n * (n - 1))) \div (n * SquareRoot(spread))>>
Overlapping(rows) ==
  \E j, k \in DOMAIN rows :
    j # k /\ ActualStart(rows[k].test) \in ActualStart(rows[j].test)..ActualEnd(rows[j].test)

Metrics(name) ==
  LET rows == RowsOfMethod(name)
  IN [name |-> name, tested |-> Cardinality(DOMAIN rows), median |-> TwiceMedian(Excess(rows)),
      beats |-> Percent({k \in DOMAIN rows : rows[k].total > rows[k].spy}, rows),
      twenty |-> Percent({k \in DOMAIN rows : rows[k].total >= 20}, rows),
      sharpe |-> Sharpe(Totals(rows)), worst |-> Min(Range(Totals(rows))),
      overlap |-> Overlapping(rows)]

(* The best existing method, by median excess and then by Sharpe ratio.    *)
Best(task) ==
  LET metrics == {Metrics(r.method) : r \in {q \in ToSet(periodRows) : q.method \in Existing(task)}}
      steadier(a, b) == a.sharpe # <<>> /\ (b.sharpe = <<>> \/ a.sharpe[1] > b.sharpe[1])
      above(a, b) == a.median > b.median \/ (a.median = b.median /\ steadier(a, b))
  IN {m \in metrics : \A other \in metrics : ~above(other, m)}

(* evaluate_promotion; best is empty, or holds one existing method.        *)
Decision(m, best, rows, audited, covered) ==
  LET gains == Restrict(Totals(rows), {k \in DOMAIN rows : rows[k].total > 0})
      better == \E b \in best : /\ m.sharpe # <<>> /\ b.sharpe # <<>>
                               /\ m.sharpe[1] - b.sharpe[1] >= 100
      criteria ==
        /\ m.median > 0 /\ m.beats >= 55
        /\ better \/ \E b \in best : m.twenty >= b.twenty
        /\ \E b \in best : m.worst >= b.worst - 5
        /\ m.tested >= MinPeriods /\ ~m.overlap
        /\ \A k \in DOMAIN gains : 2 * gains[k] <= Added(gains)
  IN IF ~audited \/ ~covered THEN "INVALID"
     ELSE IF criteria THEN "PROMOTE"
     ELSE IF m.median <= 0 /\ m.beats < 50 THEN "REJECT" ELSE "RESEARCH_MORE"

-----------------------------------------------------------------------------
(* The audit: every fold was fitted on labels known before its period; the *)
(* probes that recompute features and rows need the data to do so (able),  *)
(* and fail when they cannot.  No model, no audit.                         *)

AuditPasses(task, able) ==
  \/ task.models = <<>>
  \/ folds # <<>> /\ able
     /\ \A i \in DOMAIN folds : /\ folds[i].until < benchPeriods[folds[i].test]
                               /\ folds[i].labels <= folds[i].until

(* mutant: methods nobody registered are not expected.                     *)
CompletedAvailable(task) ==
  LET expected == (Existing(task) \cup Learned(task)) \X DOMAIN benchPeriods
  IN /\ expected # {} /\ Len(periodRows) = Cardinality(expected)
     /\ {<<r.method, r.test>> : r \in ToSet(periodRows)} = expected

(* Every requested method has one row for every test, and no other.        *)
Completed(task) ==
  LET expected == Requested(task) \X DOMAIN benchPeriods
  IN /\ expected # {} /\ Len(periodRows) = Cardinality(expected)
     /\ {<<r.method, r.test>> : r \in ToSet(periodRows)} = expected

-----------------------------------------------------------------------------
(* The run                                                                 *)

BenchInit ==
  /\ benchTask \in BenchTasks /\ benchStage = "start" /\ benchPeriods = <<>>
  /\ spyRows = <<>> /\ gaps = {}
  /\ test = 0 /\ queue = <<>> /\ periodRows = <<>> /\ errors = {} /\ folds = <<>>
  /\ verdict = [class |-> "none", decisions |-> <<>>]

Acceptable(task) ==
  /\ task.excluded # {} => task.exploratory
  /\ task.exploratory => task.models = <<>>
  /\ "SPY" \notin task.excluded
  /\ task.pinned \/ BenchFirst >= UniverseSince
  /\ task.tests > 0 /\ Starts # {}

Reject ==
  /\ benchStage = "start" /\ ~Acceptable(benchTask) /\ benchStage' = "rejected"
  /\ UNCHANGED <<benchTask, benchPeriods, spyRows, gaps, test, queue, periodRows, errors, folds, verdict>>

StartBenchmark ==
  /\ benchStage = "start" /\ Acceptable(benchTask)
  /\ \E p \in PeriodChoices(benchTask.tests), feed, warmup \in BenchFeeds, lost \in benchTask.loads :
       LET first == Lowest(p)  last == Highest(p) + BenchDuration
           prices == Extended(feed, warmup, first)
           from == IF benchTask.models = <<>> THEN first ELSE TrainingFrom(benchTask, first)
       IN /\ benchPeriods' = p /\ spyRows' = prices["SPY"]
          /\ gaps' = lost \cup CoverageGaps(prices, from, last, benchTask.pinned)
  /\ benchStage' = "run" /\ test' = 1 /\ queue' = Steps(benchTask)
  /\ UNCHANGED <<benchTask, periodRows, errors, folds, verdict>>

Next_(what) == benchStage = "run" /\ queue # <<>> /\ Head(queue).do = what
Failed(names) == errors' = errors \cup {[method |-> name, test |-> test] : name \in names}

(* A method that fails, or ends holding a stock that was delisted, leaves  *)
(* no row; every method fails where the benchmark is not covered.          *)
RunMethod ==
  /\ Next_("simulate") /\ queue' = Tail(queue)
  /\ \/ Failed({Head(queue).name}) /\ UNCHANGED periodRows
     \/ \E r \in SimReturns :
          /\ Benchmarked(test)
          /\ periodRows' = Append(periodRows, [method |-> Head(queue).name, test |-> test,
                                               total |-> r, spy |-> SpyReturn[benchPeriods[test]]])
          /\ UNCHANGED errors
  /\ UNCHANGED <<benchTask, benchStage, benchPeriods, spyRows, gaps, test, folds, verdict>>

(* The training rows are shared by the models; too few of them fail every  *)
(* model, and any other error ends the whole run.                          *)
PrepareTraining ==
  /\ Next_("prepare")
  /\ \/ queue' = Tail(queue) /\ UNCHANGED <<benchStage, errors>>
     \/ /\ queue' = <<>> /\ UNCHANGED benchStage
        /\ Failed({Named(model) : model \in ToSet(benchTask.models)})
     \/ benchStage' = "aborted" /\ queue' = <<>> /\ UNCHANGED errors
  /\ UNCHANGED <<benchTask, benchPeriods, spyRows, gaps, test, periodRows, folds, verdict>>

FitModel ==
  /\ Next_("fit")
  /\ \/ queue' = Tail(queue) /\ UNCHANGED errors
     \/ queue' = SubSeq(queue, Len(benchTask.tops) + 3, Len(queue)) /\ Failed({Head(queue).name})
  /\ UNCHANGED <<benchTask, benchStage, benchPeriods, spyRows, gaps, test, periodRows, folds, verdict>>

(* The fold is kept even when its simulations failed.                      *)
RecordFold ==
  /\ Next_("record") /\ queue' = Tail(queue)
  /\ LET until == benchPeriods[test] - 1
     IN folds' = Append(folds, [model |-> Head(queue).name, test |-> test,
                                until |-> until, labels |-> until])
  /\ UNCHANGED <<benchTask, benchStage, benchPeriods, spyRows, gaps, test, periodRows, errors, verdict>>

NextPeriod ==
  /\ benchStage = "run" /\ queue = <<>> /\ test < benchTask.tests
  /\ test' = test + 1 /\ queue' = Steps(benchTask)
  /\ UNCHANGED <<benchTask, benchStage, benchPeriods, spyRows, gaps, periodRows, errors, folds, verdict>>

Summarize ==
  /\ benchStage = "run" /\ queue = <<>> /\ test = benchTask.tests
  /\ \E able \in BOOLEAN, best \in {b \in SUBSET Best(benchTask) : Cardinality(b) <= 1} :
       /\ best = {} => Best(benchTask) = {}
       /\ LET valid == AuditPasses(benchTask, able) /\ Completed(benchTask)
              decided == {name \in Learned(benchTask) : DOMAIN RowsOfMethod(name) # {}}
              decide(name) == Decision(Metrics(name), best, RowsOfMethod(name), valid,
                                       gaps = {} /\ ~benchTask.exploratory)
          IN verdict' = [class |-> IF benchTask.exploratory THEN "NON_PROMOTABLE"
                                   ELSE IF valid /\ gaps = {} THEN "VALID" ELSE "INVALID",
                         decisions |-> [name \in decided |-> decide(name)]]
  /\ benchStage' = "done"
  /\ UNCHANGED <<benchTask, benchPeriods, spyRows, gaps, test, queue, periodRows, errors, folds>>

BenchNext ==
  \/ Reject \/ StartBenchmark \/ RunMethod \/ PrepareTraining
  \/ FitModel \/ RecordFold \/ NextPeriod \/ Summarize
BenchSpec == BenchInit /\ [][BenchNext]_benchVars

-----------------------------------------------------------------------------
(* The shape of a run's tables.                                            *)
BenchTypeOK ==
  /\ benchStage \in {"start", "rejected", "run", "aborted", "done"} /\ test \in 0..benchTask.tests
  /\ \A r \in ToSet(periodRows) : r.method \in Requested(benchTask) /\ r.test \in DOMAIN benchPeriods
  /\ \A fold \in ToSet(folds) : fold.test \in DOMAIN benchPeriods
  /\ \A e \in errors : e.test \in DOMAIN benchPeriods

(* A learned method is promoted only out of a complete run: no price is    *)
(* missing, every requested method, those nobody registered included, has  *)
(* exactly one result for every period, every model was fitted before each *)
(* of them, and the method itself beat the benchmark in most of enough     *)
(* periods that share no session of the benchmark (days on which it did    *)
(* not trade may be shared), none of which brought more than half of its   *)
(* gains.                                                                  *)
PromotionIsEarned ==
  \A name \in DOMAIN verdict.decisions : verdict.decisions[name] = "PROMOTE" =>
    LET rows == RowsOfMethod(name)
        gains == Added([k \in DOMAIN rows |-> Larger(rows[k].total, 0)])
    IN /\ gaps = {} /\ benchTask.excluded = {} /\ verdict.class = "VALID"
       /\ \A asked \in Requested(benchTask), i \in DOMAIN benchPeriods :
            Cardinality({k \in DOMAIN RowsOfMethod(asked) : periodRows[k].test = i}) = 1
       /\ \A model \in ToSet(benchTask.models), i \in DOMAIN benchPeriods :
            \E fold \in ToSet(folds) :
              fold.model = Named(model) /\ fold.test = i /\ fold.until < benchPeriods[i]
       /\ Cardinality(DOMAIN rows) = Len(benchPeriods) /\ Len(benchPeriods) >= MinPeriods
       /\ \A i, j \in DOMAIN benchPeriods : i # j => Simulated(i) \cap Simulated(j) = {}
       /\ 2 * Cardinality({k \in DOMAIN rows : rows[k].total > rows[k].spy}) > Len(benchPeriods)
       /\ \A k \in DOMAIN rows : rows[k].total > 0 => 2 * rows[k].total <= gains
=============================================================================
