----------------------------- MODULE PriceCache -----------------------------
(***************************************************************************)
(* The price cache every scan and every simulation loads through           *)
(* (src/data/market_data.py, src/data/ticker_history.py): price files, a   *)
(* manifest of the dates each is said to cover, and two lists of provider  *)
(* failures, a persistent one and one forgotten after fifteen minutes.     *)
(*                                                                         *)
(* A date range is a set of consecutive days, so _merge_ranges is union.   *)
(* One load runs at a time (_cache_lock); its tickers may load in any      *)
(* order (the parallel workers).  clear_market_data_cache takes no lock.   *)
(***************************************************************************)
EXTENDS Integers, FiniteSets

CONSTANTS
  Symbols_,       \* the tickers
  CacheDays,      \* the last trading day: days are 1..CacheDays
  Listed,         \* Listed[t]: the first and the last day t is traded
  Gap,            \* CACHE_COVERAGE_TOLERANCE_DAYS
  Requests,       \* what callers ask for: [from, to, whole, needed, live]
  Replies,        \* the days the provider may answer for
  Files,          \* the days the manually supplied files may hold
  RetryAge        \* LIVE_FAILURE_RETRY_SECONDS, in ticks

ASSUME CacheAssumption ==
  /\ {CacheDays, Gap} \subseteq Nat \ {0} /\ RetryAge \in Nat
  /\ \A t \in Symbols_ : Listed[t][1] \in 1..CacheDays /\ Listed[t][2] \in Listed[t][1]..CacheDays
  /\ \A r \in Requests : /\ r.from \in 1..CacheDays /\ r.to \in r.from..CacheDays
                         /\ r.needed \subseteq 1..CacheDays

VARIABLES
  priceRows,   \* ticker -> the days its price file holds
  manifest,    \* ticker -> the days it is said to cover, {} for no entry
  misses,      \* recorded failures: [ticker, days, live, age]
  load         \* the load in progress, or the last one

cacheVars == <<priceRows, manifest, misses, load>>

-----------------------------------------------------------------------------
(* Ranges                                                                  *)

First_(days) == CHOOSE d \in days : \A e \in days : d <= e
Last_(days) == CHOOSE d \in days : \A e \in days : d >= e
Span(days) == IF days = {} THEN {} ELSE First_(days)..Last_(days)
Ranges(days) ==
  {First_(r)..Last_(r) : r \in {{e \in days : (d..e) \cup (e..d) \subseteq days} : d \in days}}

(* The listed part of a range; {} when it lies outside the listing.        *)
ListedRange(t, days) == days \cap (Listed[t][1]..Listed[t][2])

(* The days rows miss of a range: its ends and holes beyond the tolerance. *)
MissingRows(rows, range) ==
  LET found == rows \cap range
      hole(a, b) == IF b - a > Gap THEN a + 1..b - 1 ELSE {}
      before == IF First_(found) - First_(range) > Gap THEN First_(range)..First_(found) - 1 ELSE {}
      after == IF Last_(range) - Last_(found) > Gap THEN Last_(found) + 1..Last_(range) ELSE {}
      next(d) == First_({e \in found : e > d})
  IN IF range = {} \/ found = {} THEN range
     ELSE before \cup after \cup UNION {hole(d, next(d)) : d \in found \ {Last_(found)}}

(* A claimed coverage, its ends trimmed to the rows there are.             *)
Trimmed(claim, rows) ==
  LET from == IF First_(rows) - First_(claim) <= Gap THEN First_(claim) ELSE First_(rows)
      to == IF Last_(claim) - Last_(rows) <= Gap THEN Last_(claim) ELSE Last_(rows)
  IN IF claim = {} \/ rows = {} THEN {} ELSE from..to

-----------------------------------------------------------------------------
(* One ticker of a load: what is missing, who is asked, what is kept.      *)

RequestDays == load.request.from..load.request.to
Integrity(t) ==
  ListedRange(t, RequestDays \cap IF load.request.whole THEN RequestDays ELSE load.request.needed)
Required(t, range) ==
  /\ ListedRange(t, range) # {}
  /\ load.request.whole \/ ListedRange(t, range) \cap load.request.needed # {}

(* The coverage relied on: none when the request has no rows at all.       *)
Relied(t, cached) ==
  LET coverage == Trimmed(load.manifest[t], cached)
  IN IF cached \cap RequestDays = {} /\ Required(t, RequestDays) THEN {} ELSE coverage

(* mutant: the manifest is believed without looking at the rows.           *)
WantedByManifest(t, cached) ==
  LET covered == Relied(t, cached)
      outside == IF covered = {} THEN RequestDays ELSE RequestDays \ covered
  IN {ListedRange(t, r) : r \in Ranges(outside)} \ {{}}

Wanted(t, cached) ==
  LET covered == Relied(t, cached)
      integrity == Integrity(t)
      outside == IF covered = {} THEN RequestDays ELSE RequestDays \ covered
  IN {ListedRange(t, r) : r \in Ranges(outside \cup MissingRows(cached, integrity))} \ {{}}

(* A miss recorded from before the listing says nothing of a listed range. *)
Known(t, range) ==
  {m.days \cap range : m \in {x \in load.misses : x.ticker = t /\ First_(x.days) >= Listed[t][1]}} \ {{}}
Asked(t, cached) == UNION {Ranges(r \ UNION Known(t, r)) : r \in Wanted(t, cached)}
Skipped(t, cached) == UNION {Known(t, r) : r \in Wanted(t, cached)}

(* An empty or failed answer falls back to the manually supplied files.    *)
Fetched(range, primary, manual) ==
  IF primary \cap range # {} THEN primary \cap range ELSE manual \cap range

LoadResult(t, cached, primary, manual) ==
  LET asked == Asked(t, cached)  skipped == Skipped(t, cached)
      lost == {r \in asked : Fetched(r, primary, manual) = {}}
      stale == {r \in skipped : manual \cap r = {}}
      fetched == UNION {Fetched(r, primary, manual) : r \in asked}
      rows == cached \cup fetched \cup (manual \cap UNION skipped)
      partial == {r \in asked \ lost : MissingRows(Fetched(r, primary, manual), r) # {}}
  IN [rows |-> rows, asked |-> asked # {}, lost |-> lost,
      complete |-> lost \cup stale \cup partial = {},
      gaps |-> MissingRows(rows, Integrity(t)),
      manual |-> \/ \E r \in skipped : manual \cap r # {}
                 \/ \E r \in asked : primary \cap r = {} /\ manual \cap r # {},
      reported |-> {r \in lost \cup stale : Required(t, r)}]

(* What the manifest says afterwards; without rows the entry is left.      *)
Claim(t, cached, result) ==
  LET relied == Relied(t, cached)
  IN IF result.asked /\ result.complete /\ result.gaps = {} THEN Span(RequestDays \cup relied)
     ELSE IF result.gaps # {} THEN Trimmed(IF relied = {} THEN RequestDays ELSE relied, result.rows)
     ELSE IF cached = {} THEN load.manifest[t] ELSE Trimmed(load.manifest[t], cached)

-----------------------------------------------------------------------------
(* Loads                                                                   *)

NoLoad == [stage |-> "none"]
CacheInit ==
  /\ priceRows = [t \in Symbols_ |-> {}] /\ manifest = [t \in Symbols_ |-> {}]
  /\ misses = {} /\ load = NoLoad

Idle_ == load.stage \in {"none", "done"}

(* A live load forgets the misses that are too old.                        *)
BeginLoad(r, tickers) ==
  /\ Idle_
  /\ load' = [stage |-> "load", request |-> r, left |-> tickers, manifest |-> manifest,
              misses |-> {m \in misses : m.live = r.live /\ (r.live => m.age <= RetryAge)},
              answer |-> [t \in {} |-> NoLoad]]
  /\ UNCHANGED <<priceRows, manifest, misses>>

Remember(records, t, ranges) ==
  {m \in records : ~(m.ticker = t /\ m.days \in ranges)}
    \cup {[ticker |-> t, days |-> r, live |-> load.request.live, age |-> 0] : r \in ranges}

(* An unreadable file counts as no rows, and is overwritten.               *)
LoadTicker(t) ==
  /\ load.stage = "load" /\ t \in load.left
  /\ \E primary \in Replies, manual \in Files, cached \in {priceRows[t], {}} :
       LET result == LoadResult(t, cached, primary, manual)
       IN /\ priceRows' = IF result.rows = {} THEN priceRows ELSE [priceRows EXCEPT ![t] = result.rows]
          /\ load' = [load EXCEPT !.left = @ \ {t},
                        !.manifest[t] = Claim(t, cached, result),
                        !.misses = Remember(@, t, result.lost),
                        !.answer = [u \in DOMAIN @ \cup {t} |->
                          IF u # t THEN @[u]
                          ELSE [rows |-> result.rows \cap RequestDays, asked |-> result.asked,
                                manual |-> result.manual, reported |-> result.reported]]]
  /\ UNCHANGED <<manifest, misses>>

(* The manifest is written before the misses; needed rows that nobody      *)
(* could deliver are reported as well (_validate_required_coverage).       *)
WriteManifest ==
  /\ load.stage = "load" /\ load.left = {}
  /\ manifest' = load.manifest
  /\ load' = [load EXCEPT !.stage = "write",
       !.answer = [t \in DOMAIN @ |->
         LET needed == ListedRange(t, load.request.needed)
         IN IF needed # {} /\ @[t].reported = {} /\ @[t].rows \cap needed = {} /\ ~load.request.whole
            THEN [@[t] EXCEPT !.reported = {needed}] ELSE @[t]]]
  /\ UNCHANGED <<priceRows, misses>>

WriteMisses ==
  /\ load.stage = "write"
  /\ misses' = load.misses \cup {m \in misses : m.live # load.request.live}
  /\ load' = [load EXCEPT !.stage = "done"]
  /\ UNCHANGED <<priceRows, manifest>>

-----------------------------------------------------------------------------
(* The process ends, the cache directory is cleared, time passes between   *)
(* loads.                                                                  *)

LoadDies == ~Idle_ /\ load' = NoLoad /\ UNCHANGED <<priceRows, manifest, misses>>

Clear ==
  /\ priceRows' = [t \in Symbols_ |-> {}] /\ manifest' = [t \in Symbols_ |-> {}] /\ misses' = {}
  /\ UNCHANGED load

Pass ==
  /\ Idle_ /\ \E m \in misses : m.live /\ m.age <= RetryAge
  /\ misses' = {IF m.live /\ m.age <= RetryAge THEN [m EXCEPT !.age = @ + 1] ELSE m : m \in misses}
  /\ UNCHANGED <<priceRows, manifest, load>>

CacheNext ==
  \/ \E r \in Requests, tickers \in SUBSET Symbols_ \ {{}} : BeginLoad(r, tickers)
  \/ \E t \in Symbols_ : LoadTicker(t)
  \/ WriteManifest \/ WriteMisses \/ LoadDies \/ Clear \/ Pass
CacheSpec == CacheInit /\ [][CacheNext]_cacheVars

-----------------------------------------------------------------------------
(* The shape of the cache; a miss is recorded once.                        *)
CacheTypeOK ==
  /\ priceRows \in [Symbols_ -> SUBSET (1..CacheDays)] /\ manifest \in [Symbols_ -> SUBSET (1..CacheDays)]
  /\ load.stage \in {"none", "load", "write", "done"}
  /\ \A m, n \in misses : m.ticker = n.ticker /\ m.days = n.days /\ m.live = n.live => m = n

(* A load of whole histories that asked nobody, took no manual file and    *)
(* reported no failure returns rows without a hole: whatever earlier       *)
(* loads, failures, crashes and clearings left in the cache, the manifest  *)
(* alone is never believed.                                                *)
NoSilentGap ==
  load.stage = "done" /\ load.request.whole =>
    \A t \in DOMAIN load.answer :
      LET a == load.answer[t]
      IN ~a.asked /\ ~a.manual /\ a.reported = {} =>
           MissingRows(a.rows, ListedRange(t, RequestDays)) = {}
=============================================================================
