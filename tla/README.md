# A verification project for stock-comp

TLA+ models of the parts of stock-comp that keep money and plans consistent, of the
services around them and of the research that computes the plans, checked with TLC
on small instances and proved with TLAPS for instances of every size.  The models are
translated from the code; `PROJECT.json` maps every definition to the lines it stands for.

stock-comp is a paper-trading assistant.  A **desktop dashboard** (Streamlit and
one SQLite file) scans the market, proposes a daily plan of purchases and exits,
and records simulated trades.  A **hosted app** (FastAPI, Supabase SQL functions
and a web client) does the same for several users with versioned portfolios.
Behind both stand scanners, strategies, a backtester and machine-learning
research.

## 1. Inventory

### Desktop: ledger, plans, sessions

| part | state | operations | who calls it |
|---|---|---|---|
| ledger (`paper_trading/storage.py`, `ledger.py`, `portfolio.py`) | account row (cash, starting capital, realized profit), open lots, closed trades; row ids from AUTOINCREMENT | `open_position`, `close_position`, `replace_account_snapshot`, each one `BEGIN IMMEDIATE` transaction that ends in an accounting assertion and flags the newest plan | dashboard forms, plan execution |
| plans (`plan_store.py`) | plans with the account snapshot they were computed from and a regeneration flag; recommendation rows OPEN, EXECUTING, EXECUTED, DISMISSED | `save_plan`, `detect_plan_staleness`, `dismiss_recommendation`, `execute_recommendation` (claim, quote download, trade, finish or release: four transactions) | dashboard |
| snapshot setup (`account_setup.py`) | none; a reviewed form lives in the session | preview against realized profit, then apply | dashboard |
| dashboard (`app/competition_dashboard.py`) | session state | one script run per click, sessions overlap | the user |
| plan builder (`trading_plan.py`) | none | allocates purchases, reviews holdings | dashboard, API |
| market watcher (`market_watcher.py`) | last observations, de-duplicated alerts | check: read, download, re-read, insert | dashboard, schedule |

Hard: sessions share one file without a session-wide lock.  A scan of minutes
lies between reading the account and saving the plan; a quote download between
claiming a row and trading it; a user's thinking time between reviewing a form
and applying it.  Any of these ends early, fails or overlaps.  Correct means: the
money adds up after any sequence; a recommendation becomes one trade at most and
its status says so; an exit closes the lot that was reviewed; a purchase fits the
limits when it is made, not when it was planned.

### Hosted: portfolios, plan jobs, API

| part | state | operations | who calls it |
|---|---|---|---|
| SQL functions (`supabase/migrations/*.sql`) | accounts with a version, open positions, plans, recommendations, paper actions, account snapshots | create a portfolio, replace the account snapshot, save a plan, set a recommendation's status, record a paper action, read the current snapshot | API through `cloud_repository.py` |
| plan jobs (`api/plan_jobs.py`) | a table of jobs in memory, one scan slot | start or join, time limit and draining, eviction, retention | `public_app.py` |
| API handlers (`api/public_app.py`) | none | start a job, run it, answer polls; also a synchronous plan endpoint | web client |
| price loads (`journal_service.py`, `portfolio_valuation.py`, `ticker_opinion.py`) | a slot each, a thread pool, deadlines | ask, load symbol by symbol, time out, leave | API |
| filing research (`external_research.py`) | a gate, the time of the next request, a cache with three lifetimes | ask, wait for the gate, load the mapping, load the answer | API |
| account deletion and export (`account_deletion.py`, `account_export.py`) | single-use challenges in memory | review, confirm, delete at the identity provider | API |

Hard: requests arrive late, twice and from several devices; transactions overlap
and their timestamps are not the order of their commits; the scan thread cannot
be stopped when its limit passes; the answer to a committed save may be lost; the
process restarts and forgets its jobs.  Price loads run on threads that neither a
deadline nor a disconnect stops; research requests share one gate, one clock and one
cache with callers that may be cancelled while they hold it; two confirmations of one
deletion overlap at their awaits.  Correct means: a plan can be acted on
only for the account version it was computed for; a repeated request is booked
once; portfolios stay apart; SUCCEEDED is never said of a plan that was not
saved; a slot is never shared and never lost; a review deletes an account at most
once; the provider is never asked faster than it allows.

### Research

| part | state | operations |
|---|---|---|
| strategies, scanner (`strategies/`, `scanner/`) | none | required history, factors, signal and rank of one stock |
| regime (`market/`, `benchmarking/participation.py`) | none | indicators, regime, strategy map, breadth, number of positions |
| backtest and simulation (`backtesting/engine.py`, `benchmarking/simulation.py`) | cash, positions, trades, daily values | load, then one trading day after the other: rank, sell, buy, value |
| plan builder (`trading_plan.py`, `scan_coverage.py`) | none | load the indices, load the stocks, scan, allocate and review |
| price cache (`data/market_data.py`, `ticker_history.py`) | price files, a manifest of covered days, two lists of failures | load ranges, fill holes, record failures, clear |
| learned rankings (`ml/`, `benchmarking/ml_training.py`) | rows, labels, fits | evaluate dates, purge, fit a period, fit walk-forward folds |
| benchmark (`benchmarking/runner.py`, `promotion.py`, `metrics.py`, `coverage.py`) | rows, folds, errors | simulate every method on every period, train before each, audit, promote |

Hard: nothing runs concurrently here except the cache's workers, but results are easy
to get subtly wrong.  A single row too many makes a simulation see the future; an
order of exits, entries and fees may make or lose money; a plan is computed by separate
passes over the same votes; the cache's manifest claims days that a crash, a failure or
a clearing took from the file; a label looks ahead by rows while the cutoff is a date; a
failed method or a missing price must not promote a winner.

## 2. Modules

| module | models |
|---|---|
| `PaperLedger` | the ledger: the three transactions, the accounting assertion, exposure and profit arithmetic |
| `PlanExecution` | EXTENDS `PaperLedger`: sessions that plan, execute, trade by hand and replace the snapshot over one ledger |
| `CloudAccount` | the SQL functions over the portfolios of one user |
| `PlanOffer` | what a user can rely on in a portfolio: the abstract specification `CloudAccount` implements |
| `PlanJobs` | plan jobs of one API process, the handlers that use them, the save seen from the API, and restarts |
| `PriceLoads` | the journal's, the valuation's and the opinion's price loads |
| `AccountDeletion` | reviews, challenges and confirmations of account deletion |
| `MarketWatcher` | overlapping watcher checks while plans, trades and sessions move on |
| `ResearchGate` | filing and company-fact requests through one gate |
| `Strategies`, `Regime` | what a strategy says of a stock, and what the market says of strategies |
| `Simulation`, `SimulationProperties` | EXTENDS `Regime`: the backtest engine and the benchmark's simulation; what they promise |
| `PlanBuild` | EXTENDS `Regime`: how a plan is computed |
| `PriceCache` | the price cache, its manifest and its lists of failures |
| `Training` | the rows a learned ranking is fitted on |
| `Benchmark` | a benchmark run from its order to the promotion |
| `MC*` | instances for TLC; one `.cfg` per run |
| `PaperLedgerProofs`, `PlanExecutionProofs`, `CloudAccountProofs`, `PlanJobsProofs` | TLAPS theorems about the module of that name |
| `ServicesProofs` | theorems about `PriceLoads`, `AccountDeletion`, `MarketWatcher`, `ResearchGate`, `PriceCache` |
| `SimulationProofs`, `ResearchProofs` | theorems about `Simulation`, and about `Training`, `PlanBuild` and `Benchmark` |
| `FiniteSums` | lemmas on finite sets, sums and folds that the proofs share |

**PaperLedger.** `ledger` is one record because every write is one transaction;
an operation is a function from the record before to the record after
(`AfterOpen`, `AfterClose`, `AfterReplace`), committed if `Consistent` accepts it.
`next` is SQLite's AUTOINCREMENT counter.  Money is counted in whole units: where
the code compares floats within a tolerance the model compares integers, and
`AllocationAssumption` keeps the quantities whole.

**PlanExecution.** `plans` and `status` are the two tables, `pc`, `read`, `rec`
and `marks` what a session holds between transactions: the account it read before
its scan, the recommendation of the click, the quotes it downloaded.  A step is a
transaction or a read outside one, so anything may happen between two of them.
`recorded` is a history variable.  What a scan proposes is left open: any
purchases of different symbols and, for each holding it read, any review.
`Abandon` is a session that ends while it holds a claim; nothing in the code looks
for such a row again, so it stays EXECUTING.  This is modelled as it is, and no
property says otherwise.

**CloudAccount.** Every function takes the account's row lock (or the user's
advisory lock) before it reads what it decides on, so it is one step.  The
exception is `save_generated_trading_plan`: `now()` is the start of its transaction
and is fixed before the lock is granted.  A writer therefore takes two steps,
`BeginSave` and `SavePlan`.  Requests are not stored: any request a client could
have built from a version it once read (`Seen`) can be handled at any time, which
covers delay, repetition and reordering.  A request that is refused or answered from
`paper_actions` is a stutter.  Money is counted in units of the last decimal a column
`numeric(18,4)` keeps, prices in units that go `Fine` to one of money.  Arithmetic is exact
until it reaches a column, and each column (cash, cost basis, basis released, realized
profit) is `Rounded` on its own, so the four need not add up.

**PlanOffer.** A plan is an offer for one version of one account: `Issue` replaces
the offer before it, `Change` and `Fill` end it.  The mapping takes an account's
CURRENT plan as its offer and the pairs of plan and ticker in `paper_actions` as
what was filled.

**PlanJobs.** The event loop runs a handler until it awaits, so a step is what runs
between two awaits.  `phase` is where `_run` is with each job; `writes` are save
requests the database has not handled, and the database may handle one after the
API has given up on it or has restarted.  Its answer (`answers`: a plan id, a refusal for the
version, another error) is a message of its own, which the job may read or never get; what
the job then says of the plan rests on that answer alone.  Clocks are left out: a limit may pass at
any moment in which it can, and a finished job may age past the retention time
(`Age`), after which it is dropped by the next start.

**PriceLoads.** A caller is one request.  `slot` is the service's semaphore, `job` the
caller's work in the thread pool; `took` says that the work, not the request, holds the
slot.  The journal and the valuation take the slot before they submit and return it from
the future's done callback; the opinion's thread takes it itself and returns it in a
finally clause, and a request that leaves cancels an opinion still queued.  A deadline may
pass at any time.

**AccountDeletion.** A step is what a handler does between two awaits.  `review` keeps
every challenge ever handed out, `challenges` what the process still knows.  The
provider's deletion and its answer are two steps, and the answer may be lost.

**MarketWatcher.** A check reads, downloads, compares the ledger with what it read, inserts in
one transaction and returns what it inserted.  `ledger` is what it compares; plans, trades and
completed sessions move on meanwhile, and a check may die anywhere.  A death between the
commit and the return leaves alerts in the table (`newAlerts`) that no check returns
(`reported`): they are listed on the page, but never again as new.  An alert is its event key;
the UNIQUE key of the table is what keeps it from being announced twice.

**ResearchGate.** Time is counted in steps of the provider's spacing.  `cache` is a set of
entries with a moment of expiry, `nextRequest` the clock the requests share; `Enter` is
everything a request does between taking the gate and its next await.  Cancellation is
possible wherever the code awaits and remembers the failures the code remembers.

**Strategies, Regime.** Pure operators.  A stock is a sequence of rows [open, close,
volume] by day; ratios are whole thousandths, averages are compared through their sums.
`Days` maps the windows the code names in days (5, 14, 20, 50, 60, 120, 200) to short
ones, so that eight days of prices reach every branch; tests on the number of rows are
kept.  Every registered strategy, the regime's classification with its insufficient
history, the strategy map, breadth and participation are there.

**Simulation.** One step is one trading day.  `data` is fixed after the load, and
`Before` is the only way a rebalance looks at it.  `Selects` ranks, `Sell` and `Buy` apply
fees and limits in the engine's order, `Attribution` is the report by position.  `method` is
a registered strategy, a learned ranking, the regime-switching or the adaptive method.
`Selects` takes the prices as a parameter, so that `SimulationProperties` can compare the
selection with the one made on prices whose future is altered (`Hidden`).

**PlanBuild.** Two loads that may fail, a scan of every strategy, then the pure builder:
coverage, candidates by consensus or by one strategy, holding reviews, and purchases under
cash, capacity and the cap for one stock.  `PlanExecution` begins where this ends and leaves
open what a scan proposes, so it covers every plan built here.

**PriceCache.** A range is a set of days.  A load picks up tickers in any order, asks the
provider only for what the manifest and the rows leave open, and ends in two writes with a
crash possible between them; `Clear` may come at any time because it takes no lock.

**Training.** Rows are built date by date with the day their label is known; `Purged`
keeps those known by the cutoff.  `FitPeriod` is the benchmark's training window, `FitFolds`
the walk-forward evaluation.

**Benchmark.** `queue` is the runner's order of simulations, preparations, fits and records
within a period.  A period is a number of requested days; it is simulated on the sessions
`spyRows` has among them, which may begin later and end earlier, and fails where the benchmark
is not covered.  The audit of a promotion compares those first and last sessions.  A
simulation answers any return or fails; an unregistered method, a
training set that is too small and a rejected order take the paths the code gives them.

**MCServices, MCResearch.** These parts share no state in the process, so one run checks them
together: `part` is chosen at the start and says whose steps a behaviour takes; the others
rest in an initial state.

### What the models leave out

- Row-level security, grants, sign-in and rate limits: one signed-in user in
  `CloudAccount`, any owners in `PlanJobs`.
- The text of reasons and messages, audit columns, the backup file a snapshot replacement
  leaves beside the database.
- Of the hosted app's amounts: fractional quantities; the sixteen or so digits to which SQL
  rounds a quotient before a column rounds it; the fallback to `average_price` times quantity
  for a position without a cost basis; the positions as a plan's snapshot stores them in JSON,
  where nothing is rounded.
- The age limit on market data of a plan (`record_recommendation_paper_action`
  refuses prices more than four days old): it only refuses.
- Prices, fees and returns are integers; a purchase and a fee round down where the code
  keeps fractions.  The windows of the strategies are shortened as said above.
- Of the features of a learned ranking, those that no cutoff test tells apart; the metrics
  a decision does not read; estimation itself (a fit is its rows).
- The watcher's alerts of price moves and volume surges, which compare two numbers of one
  download; the eviction from the research cache, which never fills at these sizes.
- The synchronous endpoint `POST /v1/plans/current` (`public_app.py:524`) scans
  without the coordinator's slot; `OneJobScans` speaks of jobs.

## 3. What TLC checks

Every configuration has `CHECK_DEADLOCK FALSE`: users may stop clicking, and the
bounds end a behaviour.  Sizes are distinct states.

**paper_ledger** (113 thousand).  Two symbols, both directions, prices 1, 2, 4, one
below the minimum price; snapshot forms that balance and forms that do not; three
lots ever.  Three lots are enough for two open at a time and one opened after a
close; two symbols for a quoted beside an unquoted lot.
- `PreviewPredictsAudit`: the preview of a snapshot form (`account_setup.py`) and the
  accounting assertion that ends its transaction (`storage.py`) are different computations
  over different values.  On every ledger they agree on every form, so a form shown as
  balanced is refused only if realized profit moved since, and no other gets in.
- `CloseNeverRefused`: in no reachable ledger does the accounting assertion roll an
  exit back, at any price.
- `EquityIdentity`: equity from its parts equals equity from profit, at any marks.
- `OnlyShortLossOverdraws`: cash falls below zero only through a losing SHORT.
- `HistoryKept`: closed trades are append-only.

**plan_trades** (184 thousand).  Two sessions, two symbols, prices that move between
2 and 4, two successive plans of one purchase each, sessions that end anywhere.
- `OneTradePerRecommendation`, `StatusMatchesTrades`: no row is traded twice; EXECUTED
  rows have a trade, OPEN and DISMISSED ones have none, released claims included.
- `PurchaseFitsSharedCapacity`: after each purchase the whole book, lots opened by the
  other session since the quotes included, is within capacity and the per-symbol cap.

**plan_snapshots** (444 thousand).  Two sessions, one symbol, one plan; manual trades
and snapshot forms with a LONG or a SHORT holding; up to three lots, so that a lot a
plan reviews can be closed and another opened in its place.
- `ExitClosesReviewedLot`: a recorded exit closed the lot its plan reviewed.
- `ExecutionStartsOnPlannedBook`: a recommendation is accepted only while the ledger
  has the cash and the lots the plan was computed from.  Neither the dashboard's
  staleness test nor the regeneration flag gives this alone.
- `ClaimsSettle` (liveness): a claim ends, in a trade or in a release.

**cloud_actions** (294 thousand).  One portfolio, two tickers, two keys, versions to
3, two saves; forms with three shares at a basis of 22, which does not divide, and
with a SHORT, beside which nothing is priced; prices of 5.5 and 6.5 units (`Fine` = 2).  An
exit of one or two shares of three then rounds every column it writes.
- `CurrentPlanMatchesAccount`: at most one CURRENT plan, of the present version.
- `RecordedOnce`: a recommendation is RECORDED exactly when one action was booked for
  it; no key and no version is consumed twice.
- `VersionNamesBook`: the book never changes without its version moving by one.
- `ShownSnapshotIsCurrent`: the snapshot selected for display is the account's book.
- `PurchaseFitsCapacity`, `ActionConservesBasis`: limits hold after each purchase; cash plus
  cost basis moves by the profit reported, and the basis of the holdings by the basis reported
  as released, to within one unit of the last decimal.  No more holds: one share of
  the three sold at 5.5 adds 6 to cash and takes 7 from the basis, with a profit of -2.

**cloud_portfolios** (18 thousand).  Two portfolios, three saves, two versions.
- `AccountsAreSeparate`: no request touches two portfolios.
- `ImplementsOffers`: refinement of `PlanOffer`.

**plan_jobs** (211 thousand).  Two users, one request id each, a table of two, three
jobs: enough to evict, to retry after eviction, and to have one job draining while
another is asked for.
- `OneJobScans`, `NoLateSave`, `RetryFindsItsJob`: one scanning thread, drained ones
  included; a late result is never sent; a retained request id has one job and a running
  job is never evicted.
- `OutcomeIsTruthful`: a job that SUCCEEDED has its plan in the database, and one stopped by
  the time limit or by a portfolio that changed has none there and none on the way, although
  the request and its answer travel apart from the job.
- `SlotIsFreed` (liveness): whatever fails, a job leaves the slot.

**services** (309 thousand).  Nine parts, each alone:
- *Price loads*: two callers, two symbols a load.  Two callers are enough for one to find
  the slot taken, to return late, and to time out while the other asks.
  `SlotCarriedByWork`: a slot is free or carried by exactly one unfinished load.
  `SlotReturns` (liveness): however its callers leave, a load gives the slot back.
- *Deletion*: three users, two handlers, two challenges and two reviews.
  `DeletedOnceAsReviewed`: a review leads to at most one deletion, of its own user and
  session, and only after its challenge is gone from the book.
- *Watcher*: two checks, two plans, one trade, two sessions.  `PlansAnnouncedOnce`: a plan any
  check observed has been announced, no alert is returned as new twice, and an alert none has
  returned is one whose check is about to return it or died after its commit.
- *Research gate*: three requests of two kinds, a clock of two spacings.  `ProviderSpaced`: no
  two provider requests are closer than the spacing; only the gate's holder has one under way.
- *Simulation*: eight days and two stocks out of rising, dipping, falling, wild, interrupted
  and late ones, with indices that rise, fall, break off or begin late; every method.
  `MoneyConserved`: cash, trades, fees and the attributed profits add up on every day, cash
  never becomes negative and no purchase exceeds its limit.  `NoLookAhead`: a rebalance selects
  the same stocks in the same order whatever today's closes and later prices are.  It is
  stated from the day both indices have begun: `engine.py:268` prefers QQQ to SPY if QQQ has
  any row in the whole load, so an index that begins later changes a rebalance before it.
- *Plan building*: the same stocks, some without the last days or volumes, with long and short
  holdings and a cash target.  `PlanFits`: purchases together fit cash and capacity, each keeps
  the cap, all prices are of the reference session, and nothing is bought that is up for exit.
- *Price cache*: one stock, four days, three ranges that overlap, replies that are empty,
  complete or have a hole.  `NoSilentGap`: a whole-history load that asked nobody and reported
  nothing has no hole, whatever failures, crashes and clearings came before.
- *Training*: twelve days with holes in stocks and indices, four periods, six walks.
  `NoFutureLabels`: rows of a fit are the rows built from prices cut at its cutoff.
- *Benchmark*: six orders, among them a gapped load, an unregistered and a repeated method and
  an exploratory run; three feeds, one complete, one where SPY lacks a day, so that two periods
  share a day but no session and may be promoted, and one where it lacks three, so that
  periods fail.  `PromotionIsEarned`: a promotion implies a complete, valid run over periods
  without a common session, models fitted before each period, and gains in most periods that
  no single period dominates.

### Where the code and its own words differ

Each is a run that ends in a counterexample.

- **plan_flagged**: `execute_recommendation` tests the regeneration flag before the
  claim.  Two sessions that hold claims on two rows of one plan both trade, the second
  after the first trade flagged the plan, though the refusal says to "generate a new
  plan before recording another trade".  The ledger's own limits still hold
  (`PurchaseFitsSharedCapacity`).
- **plan_capital**: the dashboard reads the account and then the holdings its plan is built
  from (`competition_dashboard.py:593`, `594`), in two transactions.  A snapshot applied
  between the two leaves the plan with the new holdings and cash that happens to be the same,
  but with the old starting capital.  The plan saved afterwards passes `detect_plan_staleness`, which compares cash and lot
  ids, although its capacity was computed from another capital.
- **cloud_shown**: two saves overlap; the one that commits last has the earlier
  `generated_at`.  Readers choose the newest by that column and find the ARCHIVED plan:
  the CURRENT one is neither shown nor accepted until the next save.
- **plan_jobs_answer**: `plan_job_status` reads the account first and the status
  afterwards.  If the save commits in between, the answer says SUCCEEDED with the
  snapshot from before it, which the client takes as final.

- **research_delegate**: in a regime-switching simulation a stock whose last close is old is
  analyzed by the delegate of that older day (`simulation.py:612`), although the class says that
  every candidate of one rebalance comes from the same delegate, and all are then ranked with
  the delegate chosen last.

### Fairness

`Spec` has none.  `PlanExecution!FairSpec` adds weak fairness of each session's
`Execute`: `execute_recommendation` is one function whose downloads have time limits and
whose transactions commit or raise, so once called it runs to its end.  Clicks are not
fair.  `plan_snapshots` sets `MayAbandon` to FALSE, since a session that ends with a claim
does leave it.  `PlanJobs!FairSpec` adds weak fairness of each job's `Run`: the event
loop resumes a task whose await has ended, a scan thread ends because its downloads have
limits, an HTTP call ends within ten seconds.  The database is not assumed fair:
`SaveUnconfirmed` covers a save that is never answered.  `PriceLoads!LoadsFairness` adds weak
fairness of each caller's `Work` and `Deliver`: threads of the pool run, a download has a
limit, and the event loop resumes a request whose future is done.  Whether anyone asks,
expires or leaves is not fair.

## 4. What is proved

All theorems hold for every value of the constants that satisfies the named
assumptions: any number of symbols, sessions, lots, plans, portfolios, jobs, users,
callers, checks and requests, any prices over any number of days, any universe, methods,
periods and returns.  The bounds in the guards are constants too, so no proof depends on
their size.

The assumptions say what the inputs are, and TLC evaluates them on every run.  Prices are
naturals (0 is a missing value), books and feeds are typed, and a feed holds what is asked
of it.  A universe names nobody twice, because `scanner_universe.py:16` builds it with
`dict.fromkeys`.  A benchmark's tops are positive and its returns integers.
`MoneyIsConserved` carries the one hypothesis beyond these, stated in the theorem:
`FeeRate <= 100`.  The engine refuses a negative fee only (`engine.py:481`; the form,
`backtest_ui.py:187`, sets no maximum), and a sale whose fee exceeds its proceeds takes cash
below zero.

| theorem | says |
|---|---|
| `PaperLedgerProofs!LedgerTypeCorrect`, `ClosedHistoryIsKept`, `OnlyShortLossesOverdraw` | `LedgerTypeOK` (distinct, never reused lot ids), `HistoryKept`, `OnlyShortLossOverdraws` |
| `PaperLedgerProofs!PreviewsPredictAudits`, `ClosesAreNeverRefused`, `EquityIsOne` | `PreviewPredictsAudit`, `CloseNeverRefused`, `EquityIdentity` |
| `PlanExecutionProofs!PlanTypeCorrect`, `RecommendationTradesOnce`, `StatusIsTruthful`, `ExitsCloseReviewedLots`, `ExecutionStartsFresh`, `PurchasesFit` | `TypeOK`, `OneTradePerRecommendation`, `StatusMatchesTrades`, `ExitClosesReviewedLot`, `ExecutionStartsOnPlannedBook`, `PurchaseFitsSharedCapacity` |
| `PlanExecutionProofs!SessionsImplementLedger`, `SharedLedgerIsSound` | any number of sessions over one file implement the ledger, so its properties hold for them |
| `CloudAccountProofs!AccountTypeCorrect`, `CurrentPlansMatch`, `ActionsAreRecordedOnce`, `SnapshotsAreCurrent`, `VersionsNameBooks`, `PortfoliosAreSeparate`, `OffersImplemented` | `TypeOK`, `CurrentPlanMatchesAccount`, `RecordedOnce`, `ShownSnapshotIsCurrent`, `VersionNamesBook`, `AccountsAreSeparate`, `ImplementsOffers` |
| `PlanJobsProofs!JobsTypeCorrect`, `ScansAlone`, `LateScansAreDiscarded`, `OutcomesAreTruthful`, `RetriesFindTheirJob` | `TypeOK`, `OneJobScans`, `NoLateSave`, `OutcomeIsTruthful`, `RetryFindsItsJob` |
| `CloudAccountProofs!PurchasesFitCapacity`, `ActionsConserveBasis` | `PurchaseFitsCapacity`, `ActionConservesBasis` |
| `ServicesProofs!LoadsTypeCorrect`, `SlotsAreCarried` | `LoadsTypeOK`, `SlotCarriedByWork` |
| `ServicesProofs!DeletionTypeCorrect`, `ReviewsDeleteOnce` | `DelTypeOK`, `DeletedOnceAsReviewed` |
| `ServicesProofs!WatchTypeCorrect`, `PlansAreAnnouncedOnce` | `WatchTypeOK`, `PlansAnnouncedOnce` |
| `ServicesProofs!GateTypeCorrect`, `RequestsAreSpaced` | `GateTypeOK`, `ProviderSpaced` |
| `ServicesProofs!CacheTypeCorrect`, `CacheNeverHidesGaps` | `CacheTypeOK`, `NoSilentGap` |
| `SimulationProofs!SelectsWithoutLookAhead` | `NoLookAhead` |
| `SimulationProofs!MoneyIsConserved` | `FeeRate <= 100` implies `MoneyConserved` (and `SimTypeOK`) |
| `ResearchProofs!TrainTypeCorrect`, `FitsWithoutFuture` | `TrainTypeOK`, `NoFutureLabels` |
| `ResearchProofs!PlansFit` | `PlanTypeOK`, `PlanFits` |
| `ServicesProofs!PartsKeepTheirPromises` | in the composition that `services` checks, the invariants of its parts, `ServicesTypeOK` with them |
| `ResearchProofs!BenchTypeCorrect`, `PromotionsAreEarned` | `BenchTypeOK`, `PromotionIsEarned` |

**The ledger.** `LedgerInv` adds to the types that closed trades are numbered without
gaps (`TradeIdsOK`), so the next number is new.  `OnlyShortLossesOverdraw` also uses the
accounting assertion of the closing transaction: a lot's committed capital is its entry
value, so a LONG exit returns its exit value, which is not negative.
`BooksInv` is the accounting assertion and the finiteness of the open lots; it is what the
transactions commit.  `PreviewsPredictAudits` needs that the lots of a form, numbered, have the
value of its holdings, and that the rest of the assertion cannot fail on a form.
`ClosesAreNeverRefused` needs what
a close does to the two sums: committed capital loses the lot's share, realized profit gains
the trade's.  `EquityIsOne` splits the lots into LONG and SHORT and adds two functions over one
set.  A sum over a finite set is the fold of the library, a function chosen on the subsets of
the set; the module proves that it exists (`SumsExist`), that it is the same whichever element
is taken first (`SumsTake`), and how it grows, adds and splits (`SumTakes`, `SumPlus`,
`SumSplit`).  The argument is a least counterexample among the subsets (`AllSubsets`), because
the library's induction theorems take an operator and cannot be used.  `FiniteSums` holds
the part of this that several modules need.

**Sessions.** None of the plan properties is inductive.  `IInv` says what a session may
rely on between its transactions:
- `KnownInv`: every lot remembered anywhere, in the ledger, a plan or a scan under way,
  has an id below the counter, and an id means one lot.  `ExitClosesReviewedLot` follows
  from it, and it is why ids must not be reused.
- `ClaimInv`: a claim is EXECUTING and held by one session, because the claiming UPDATE
  tests the status.
- `TradeInv`: a session that has claimed and not traded works on an untraded row; every
  EXECUTED row has a trade.  `StatusMatchesTrades` follows.
- `BookInv`: if the row a session chose belongs to a plan that is still the latest and
  unflagged, the ledger still has the book it was chosen on.  Every ledger transaction
  flags the latest plan, and a plan saved later makes the chosen row's plan not the
  latest.
- `WorkInv`, `RowInv`: what a session holds is a row and quotes that cover it.
- `BooksInv`: the accounts agree across sessions.
Every ledger step of a session is one of the ledger's own (`SessionsImplementLedger`), so what
is proved of one user's ledger holds for the shared one (`SharedLedgerIsSound`).
`PurchasesFit` follows from the guard of the committing transaction, which sees the lots other
sessions opened since the quotes: `OpenFits` computes the exposure after the purchase from the
one before it.

**Portfolios.** `IInv` adds to the checked invariants that an action's plan and version
belong to its account and lie in its past (so no version is consumed twice), that no
snapshot is newer than its account and the one of its version shows it, and that an
account not yet opened holds nothing.  `CurrentPlanMatchesAccount` is inductive because
every version change retires the CURRENT plan in the same transaction.  Separation rests
on `OneTouched`: each step touches one account.  For the refinement, each action is
mapped to an `Open`, `Issue`, `Change`, `Fill` or a stutter.  The two properties of sums
need one fact more, that holdings are finite (`MoneyInv`).  A purchase merges with a position
held or adds one, a sale removes shares at the average basis or the whole position; in each
case the sum over the positions is the sum over the others plus the one that changed
(`SumTakes`).  `Rounds` says how far a column may be from the amount it keeps; amounts that
balance exactly then balance to within one unit (`RoundsBalance`).

**Jobs.** The slot belongs to the one job that is not done; a job that still runs is
RUNNING and in the table; an aged one has finished; a scan has sent nothing to the
database.  `OutcomesAreTruthful` follows a request through the database (`AnswerInv`): a plan id
is answered only for a plan in the database, and a refusal only where nothing was saved and
nothing is left to handle.  That the oldest retained job exists needs least elements of finite sets of
numbers, proved by a counting argument (lemma by lemma in the module).

**Services.** `PriceLoads`: a slot is free and no work carries it, or exactly one work does
(`CarryInv`), and work without a slot is an opinion still queued (`WorkInv`).
`AccountDeletion`: a confirmation under way has a challenge of its own, which is out of the
book (`OwnInv`), and nothing was sent for a challenge in the book or still being verified
(`SentInv`).  `MarketWatcher`: what a check has observed, or will compare with, has been
announced (`AnnouncedInv`); each alert in the table was stored by one check, which returns it
when it is done and not before (`ReportInv`).
`ResearchGate`: requests were sent at different times, all before `nextRequest`, and a request
past the gate is the one that holds it.

**The price cache.** `NoSilentGap` is false of the manifest: after a crash or a clearing it
claims days the file lacks, and no invariant repairs that.  What is inductive (`CacheInv`)
concerns one load.  Everything a load needs and the file does not hold is asked again,
because `Missing` is computed from the rows and the manifest together, and a failed request
leaves its record.  So a ticker that a load has answered without asking anybody, and without
a word in its report, had every listed day in the file it was answered from
(`AnswersAreWhole`).

**Simulation.** `NoLookAhead` compares two selections, so its proof is about operators and its
invariant (`SimInv`) only says that the data is a feed and the date a day.  Two sets of prices
are the same view of a day if they agree on the rows before it and on who is eligible
(`SameView`).  Each operator of the selection, from the windows of a strategy to breadth,
regime, delegate, votes and rank, is shown to give the same answer on the same view, and the
altered prices of `Hidden` are such a view.
`MoneyConserved` needs `Books`: after every trade cash and the costs of all trades add up to
the starting cash and each purchase kept its limit; `MoneyInv` adds that the last value noted
is the worth of the book on the last day valued.  The report's attribution by stock is another partition of the same costs
(`SumByClass`).

**Training.** `NoFutureLabels` says that a fit's rows are those built from prices cut at its
cutoff.  `TrainInv` keeps every row of the dataset as the one built from the prices at hand,
and every fit's labels known by its cutoff (`KnownFit`).  The theorem then needs that a
label known by a day is the same label on prices cut there (`LabelEndAgrees`): the least day
with enough closes after the row is found at or before the cut or not at all.

**Plans.** `PlanInv`: once quotes exist they are the latest closes, and a plan that is built is
`Whole` and `Fitting`.  The candidates come from one pass over the votes (`CandidatesAre`); the
allocation is a fold over them, and each of its steps keeps the account of what was spent, of
the slots left and of the cap per stock.  A fold over a sequence is, in the library, a function on the subsets of
its indices.  That this function exists (`StepsExist`), and that it keeps whatever each of its
steps keeps (`StepsKeep`), is proved once, again by a least counterexample.

**Benchmark.** Whether a model was fitted before the period it is judged on depends on the order
of the runner's steps: a fold is recorded after its simulations, so a row may be in the table
whose model is not.  `BenchInv` says that what is left of a period is an order in which every
simulation of a learned method is followed by its record before the next fit or preparation
(`Orders`, proved of `Steps` and kept by every tail, failed fits included), and that every
learned row has its model recorded or still to be recorded in this period (`RowsFollow`).  A
summary is made with an empty queue, so every row has its model.  Periods have no common session because every session of a period lies
between its first and its last (`SessionsSpan`), and windows that do not overlap share nothing
(`PeriodsApart`); days without a session may be shared.  Completeness is a count: as
many rows as pairs, and every pair present, so each pair has one row (`Completed`).  The rest is
arithmetic on shares: 55 in a hundred of n rounded down is more than half of n.

### Model-checked only

- Liveness: `ClaimsSettle`, `SlotIsFreed`, `SlotReturns`.  The prover has no ENABLED, so fairness
  cannot be used.
- What the numbers are: that a window's sum, a median or a Sharpe ratio is what the
  definition says for every input would need induction over data.  The proofs above need what
  these operators depend on and bounds of them, never their value.

## 5. Not modelled

- *Numbers whose correctness is statistical*: estimation of the learned models
  (`ml/models.py`), the feature values beyond those the cutoff concerns, top-N evaluation and
  stability and daily-risk metrics.  They are formulas over floating-point series without state.
- *Input and output*: AI summaries (`ai/analyze.py`, a call to a text provider), the web
  client's rendering, the desktop launcher and the request gateway, the pages of the dashboard
  and of the scanner, charts, reports and exports, parsing of filings.
- *Journal computations*: once prices are loaded the journal is a pure function of them and of
  saved actions.
- *The synchronous plan endpoint*: it scans without the coordinator's slot, as its code plainly
  says; whatever it saves goes through the same SQL function as in `CloudAccount`.
- *Several processes*: `PlanJobs` and `AccountDeletion` are one process each.  What the
  database does with a late save for a deleted owner is decided by foreign keys outside
  the functions modelled.

What would come next: a specification of a plan's life across `PlanBuild`, `PlanExecution` and
`CloudAccount` with one abstract plan all three refine, and the synchronous plan endpoint beside
the coordinator's slot.
