---------------------------- MODULE MarketWatcher ----------------------------
(***************************************************************************)
(* The dashboard's market watcher (src/paper_trading/market_watcher.py):   *)
(* a check reads the ledger, the saved plan and the last observation,      *)
(* downloads daily closes, reads the ledger again, and appends one         *)
(* observation with its alerts to a database of its own.  Checks of two    *)
(* browser sessions overlap; a check may die at any point, after its       *)
(* commit too, and then returns nothing of what it stored.                 *)
(*                                                                         *)
(* One watched stock; an alert is its event key, the text left out.  The   *)
(* keys of price moves and volume surges, which name a session as those of *)
(* a missing price do, are left out with the numbers they compare.         *)
(***************************************************************************)
EXTENDS Integers, Sequences

CONSTANTS
  Checks,      \* checks, each run once
  Signals,     \* what the plan's strategy says of the stock
  MaxPlans,    \* bound: plans ever saved
  MaxTrades,   \* bound: paper trades recorded meanwhile
  MaxSessions  \* bound: completed trading sessions

ASSUME WatchAssumption == MaxPlans \in Nat /\ MaxTrades \in Nat /\ MaxSessions \in Nat \ {0}

VARIABLES
  ledger,        \* [trades, plan, fresh]: plan 0 is none; fresh while the plan matches
  market,        \* the last completed session and what it shows
  check,         \* [at, ledger, previous, seen] of every check
  observations,  \* the observations table, oldest first
  alerts,        \* the alerts table: keys, UNIQUE
  newAlerts,     \* newAlerts[c]: keys whose rows a check's transaction inserted
  reported       \* reported[c]: keys a check returned as new

watchVars == <<ledger, market, check, observations, alerts, newAlerts, reported>>

-----------------------------------------------------------------------------
NoSignal == "unknown"
Bars == [session : 1..MaxSessions, priced : BOOLEAN, signal : Signals \cup {NoSignal}]
NoObservation == [plan |-> 0, signal |-> NoSignal]
NewCheck == [at |-> "new"]
End(c, how) == check' = [check EXCEPT ![c] = [at |-> how]]

WatchInit ==
  /\ ledger = [trades |-> 0, plan |-> 0, fresh |-> TRUE]
  /\ market \in {b \in Bars : b.session = 1 /\ b.priced}
  /\ check = [c \in Checks |-> NewCheck]
  /\ observations = << >> /\ alerts = {}
  /\ newAlerts = [c \in Checks |-> {}] /\ reported = [c \in Checks |-> {}]

(* load_watcher_history: the newest observation.                           *)
LastObservation ==
  IF observations = << >> THEN NoObservation ELSE observations[Len(observations)]

(* evaluate_observation: an observation and the keys of its alerts.  Every *)
(* plan has the same strategy, so a signal is compared whenever the last   *)
(* observation and this one both have it.                                  *)
SignalSeen(bar, l) == IF l.plan > 0 /\ bar.priced THEN bar.signal ELSE NoSignal
Observation(l, bar) == [plan |-> l.plan, signal |-> SignalSeen(bar, l)]
(* mutant: the first observation ever made announces nothing.              *)
PlanAlertsOnChange(l, previous) ==
  (IF previous.plan > 0 /\ previous.plan # l.plan THEN {<<"plan_changed", l.plan>>} ELSE {})
    \cup (IF l.plan > 0 /\ ~l.fresh THEN {<<"stale_plan", l.plan>>} ELSE {})
PlanAlerts(l, previous) ==
  (IF l.plan > 0 /\ previous.plan # l.plan THEN {<<"plan_changed", l.plan>>} ELSE {})
    \cup (IF l.plan > 0 /\ ~l.fresh THEN {<<"stale_plan", l.plan>>} ELSE {})
SignalAlerts(l, bar, previous) ==
  LET old == previous.signal
      new == SignalSeen(bar, l)
  IN IF old # NoSignal /\ new # NoSignal /\ old # new
     THEN {<<"signal_change", old, new, bar.session>>} ELSE {}
PriceAlerts(l, bar) ==
  IF ~bar.priced THEN {<<"missing_price", bar.session>>}
  ELSE IF l.plan > 0 /\ bar.signal = NoSignal THEN {<<"signal_unavailable", bar.session>>}
  ELSE {}
Alerts(l, bar, previous) ==
  PlanAlerts(l, previous) \cup SignalAlerts(l, bar, previous) \cup PriceAlerts(l, bar)

(* run_watcher_check until the download.                                   *)
ReadLedger(c) ==
  /\ check[c].at = "new"
  /\ check' = [check EXCEPT ![c] =
       [at |-> "loading", ledger |-> ledger, previous |-> LastObservation]]
  /\ UNCHANGED <<ledger, market, observations, alerts, newAlerts, reported>>

(* The closes have arrived; the ledger and the latest plan are compared    *)
(* with what was read.                                                     *)
Recheck(c) ==
  /\ check[c].at = "loading"
  /\ IF ledger = check[c].ledger
     THEN check' = [check EXCEPT ![c] = [at |-> "saving", ledger |-> ledger,
                                          previous |-> @.previous, seen |-> market]]
     ELSE End(c, "changed")
  /\ UNCHANGED <<ledger, market, observations, alerts, newAlerts, reported>>

(* One transaction: the observation, and INSERT OR IGNORE of every alert;  *)
(* what was inserted is known to this check alone until it returns.        *)
Insert(keys) == keys \ alerts
Save(c) ==
  /\ check[c].at = "saving"
  /\ LET k == check[c]
         keys == Alerts(k.ledger, k.seen, k.previous)
     IN /\ observations' = Append(observations, Observation(k.ledger, k.seen))
        /\ alerts' = alerts \cup keys
        /\ newAlerts' = [newAlerts EXCEPT ![c] = Insert(keys)]
  /\ End(c, "saved")
  /\ UNCHANGED <<ledger, market, reported>>

(* The connection is closed and the page gets the new alerts.              *)
Return(c) ==
  /\ check[c].at = "saved"
  /\ reported' = [reported EXCEPT ![c] = newAlerts[c]]
  /\ End(c, "done")
  /\ UNCHANGED <<ledger, market, observations, alerts, newAlerts>>

(* The dashboard process or the download dies; a transaction that has not  *)
(* committed leaves nothing, one that has leaves its rows.                 *)
CheckDies(c) ==
  /\ check[c].at \in {"loading", "saving", "saved"}
  /\ End(c, "dead")
  /\ UNCHANGED <<ledger, market, observations, alerts, newAlerts, reported>>

(* The ledger and the market move on meanwhile.                            *)
SavePlan ==
  /\ ledger.plan < MaxPlans
  /\ ledger' = [trades |-> ledger.trades, plan |-> ledger.plan + 1, fresh |-> TRUE]
  /\ UNCHANGED <<market, check, observations, alerts, newAlerts, reported>>
RecordTrade ==
  /\ ledger.trades < MaxTrades
  /\ ledger' = [trades |-> ledger.trades + 1, plan |-> ledger.plan, fresh |-> FALSE]
  /\ UNCHANGED <<market, check, observations, alerts, newAlerts, reported>>
CloseSession ==
  /\ market.session < MaxSessions
  /\ market' \in {b \in Bars : b.session = market.session + 1}
  /\ UNCHANGED <<ledger, check, observations, alerts, newAlerts, reported>>

WatchNext ==
  \/ \E c \in Checks : ReadLedger(c) \/ Recheck(c) \/ Save(c) \/ Return(c) \/ CheckDies(c)
  \/ SavePlan \/ RecordTrade \/ CloseSession

WatchSpec == WatchInit /\ [][WatchNext]_watchVars

-----------------------------------------------------------------------------
(* The shape of the watcher's tables and checks.                           *)
WatchTypeOK ==
  /\ ledger \in [trades : 0..MaxTrades, plan : 0..MaxPlans, fresh : BOOLEAN]
  /\ market \in Bars
  /\ \A c \in Checks :
       check[c].at \in {"new", "loading", "saving", "saved", "changed", "done", "dead"}
  /\ observations \in Seq([plan : 0..MaxPlans, signal : Signals \cup {NoSignal}])

(* A plan that any check has observed has been announced, although checks  *)
(* compare with an observation they read before the download and others    *)
(* save, or die, in between (market_watcher.py:312).  No alert is returned *)
(* as new by two checks, and one that none has returned is still held by   *)
(* the check that stored it, which is about to return it or died after its *)
(* commit (market_watcher.py:369): nothing else keeps an alert unsaid.     *)
PlansAnnouncedOnce ==
  /\ \A i \in DOMAIN observations : observations[i].plan > 0 =>
       <<"plan_changed", observations[i].plan>> \in alerts
  /\ \A c, d \in Checks : c # d => reported[c] \cap reported[d] = {}
  /\ \A k \in alerts : (\A c \in Checks : k \notin reported[c]) =>
       \E c \in Checks : check[c].at \in {"saved", "dead"} /\ k \in newAlerts[c]
=============================================================================
