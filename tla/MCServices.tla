----------------------------- MODULE MCServices -----------------------------
(* The API process's price loads, account deletions and filing research,   *)
(* the dashboard's market watcher, and the research.  They share no state  *)
(* here, so a behaviour is one of theirs: `part' says whose.               *)
EXTENDS PriceLoads, AccountDeletion, MarketWatcher, ResearchGate, MCResearch

CONSTANTS u1, u2, u3, t1
BuyAvoid == {"BUY", "AVOID"}
Two == {1, 2}
ThreeUsers == {u1, u2, u3}
OneTicker == {t1}
ThreeFetchers == {"f1", "f2", "f3"}

servicesVars == <<loadVars, delVars, watchVars, gateVars>>

ServicesInit ==
  /\ part \in {"loads", "deletion", "watcher", "gate",
               "simulation", "plan", "cache", "training", "benchmark"}
  /\ LoadsInit /\ DelInit /\ WatchInit /\ GateInit
  /\ part # "watcher" => market.signal = "BUY"
  /\ ResearchInit

ServicesNext ==
  \/ part = "loads" /\ LoadsNext /\ UNCHANGED <<delVars, watchVars, gateVars, researchVars>>
  \/ part = "deletion" /\ DelNext /\ UNCHANGED <<loadVars, watchVars, gateVars, researchVars>>
  \/ part = "watcher" /\ WatchNext /\ UNCHANGED <<loadVars, delVars, gateVars, researchVars>>
  \/ part = "gate" /\ GateNext /\ UNCHANGED <<loadVars, delVars, watchVars, researchVars>>
  \/ ResearchNext /\ UNCHANGED servicesVars

(* Only the threads and the event loop of the price loads are fair; they   *)
(* have nothing to do in the other parts.                                  *)
ServicesSpec == /\ ServicesInit
                /\ [][ServicesNext /\ UNCHANGED part]_<<part, servicesVars, researchVars>>
                /\ LoadsFairness

(* The shape of every variable of the part that runs.                      *)
ServicesTypeOK ==
  CASE part = "loads" -> LoadsTypeOK
    [] part = "deletion" -> DelTypeOK
    [] part = "watcher" -> WatchTypeOK
    [] part = "gate" -> GateTypeOK
    [] part = "simulation" -> SimTypeOK
    [] part = "plan" -> PlanTypeOK
    [] part = "cache" -> CacheTypeOK
    [] part = "training" -> TrainTypeOK
    [] part = "benchmark" -> BenchTypeOK
=============================================================================
