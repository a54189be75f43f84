----------------------------- MODULE PriceLoads -----------------------------
(***************************************************************************)
(* The price loads of one API process: the journal's                       *)
(* (src/api/journal_service.py), the portfolio valuation's                 *)
(* (src/api/portfolio_valuation.py) and the stock opinion's                *)
(* (src/api/ticker_opinion.py).  Each service has one slot.  The work runs *)
(* on a thread that no timeout and no disconnect stops, so the slot        *)
(* belongs to the work and never to the request that asked for it.         *)
(*                                                                         *)
(* A caller is one HTTP request; a load is a number of symbols, loaded one *)
(* after the other.  Clocks are left out: a deadline may pass at any time. *)
(***************************************************************************)
EXTENDS Naturals, FiniteSets

CONSTANTS Callers, Symbols   \* requests; symbols of a load

ASSUME LoadsAssumption == IsFiniteSet(Callers) /\ Symbols \in Nat \ {0}

VARIABLES
  slot,     \* slot[s]: loads of service s that may still start
  asked,    \* the service a caller asked, "none" before it asks
  answer,   \* what the caller was told
  job,      \* its work in the thread pool: [phase, left, took]
  late      \* its deadline has passed

loadVars == <<slot, asked, answer, job, late>>

-----------------------------------------------------------------------------
Services == {"journal", "valuation", "opinion"}
Answers == {"pending", "not_needed", "busy", "unavailable", "timed_out", "loaded", "gone"}
Phases == {"none", "queued", "loading", "done", "failed", "refused"}
NoJob == [phase |-> "none", left |-> 0, took |-> FALSE]

Holds(c) == job[c].took
Waiting(c) == answer[c] = "pending" /\ job[c].phase # "none"

LoadsInit ==
  /\ slot = [s \in Services |-> 1]
  /\ asked = [c \in Callers |-> "none"]
  /\ answer = [c \in Callers |-> "pending"]
  /\ job = [c \in Callers |-> NoJob]
  /\ late = [c \in Callers |-> FALSE]

Tell(c, a) == answer' = [answer EXCEPT ![c] = a]

(* Answered without a load: nothing to price or too many symbols, the slot *)
(* taken, or a pool that accepts no work (the request returns the slot).   *)
AskWithoutLoad(c, s, a) ==
  /\ a = "busy" => slot[s] = 0
  /\ a = "unavailable" => slot[s] = 1
  /\ asked' = [asked EXCEPT ![c] = s]
  /\ Tell(c, a)
  /\ UNCHANGED <<slot, job, late>>

(* The journal and the valuation take the slot and submit; it now belongs  *)
(* to the work.                                                            *)
AskForLoad(c, s) ==
  /\ slot[s] = 1
  /\ slot' = [slot EXCEPT ![s] = 0]
  /\ asked' = [asked EXCEPT ![c] = s]
  /\ job' = [job EXCEPT ![c] = [phase |-> "queued", left |-> Symbols, took |-> TRUE]]
  /\ UNCHANGED <<answer, late>>

(* The opinion is submitted first: its thread tries the gate.              *)
AskForOpinion(c) ==
  /\ asked' = [asked EXCEPT ![c] = "opinion"]
  /\ job' = [job EXCEPT ![c] = [phase |-> "queued", left |-> Symbols, took |-> FALSE]]
  /\ UNCHANGED <<slot, answer, late>>

(* mutant: an outcome nobody waits for releases nothing.                   *)
EndWorkUnheard(c, phase) ==
  /\ job' = [job EXCEPT ![c] = [phase |-> phase, left |-> 0, took |-> FALSE]]
  /\ slot' = IF Holds(c) /\ Waiting(c) THEN [slot EXCEPT ![asked[c]] = @ + 1] ELSE slot

(* The work ends, whoever still waits: the future's done callback, or the  *)
(* finally clause of the opinion's thread, returns what the work took.     *)
EndWork(c, phase) ==
  /\ job' = [job EXCEPT ![c] = [phase |-> phase, left |-> 0, took |-> FALSE]]
  /\ slot' = IF Holds(c) THEN [slot EXCEPT ![asked[c]] = @ + 1] ELSE slot

(* mutant: the request, not the work, gives the slot back.                 *)
LeaveReleasing(c, a) ==
  /\ Waiting(c)
  /\ Tell(c, a)
  /\ slot' = [slot EXCEPT ![asked[c]] = 1]
  /\ UNCHANGED <<job, asked, late>>

StartWork(c) ==
  /\ job[c].phase = "queued"
  /\ \/ /\ Holds(c) /\ ~late[c]
        /\ job' = [job EXCEPT ![c].phase = "loading"] /\ UNCHANGED slot
     \/ /\ Holds(c) /\ late[c]
        /\ EndWork(c, "failed")
     \/ /\ ~Holds(c) /\ slot["opinion"] = 1
        /\ slot' = [slot EXCEPT !["opinion"] = 0]
        /\ job' = [job EXCEPT ![c] = [phase |-> "loading", left |-> @.left, took |-> TRUE]]
     \/ /\ ~Holds(c) /\ slot["opinion"] = 0
        /\ EndWork(c, "refused")
  /\ UNCHANGED <<asked, answer, late>>

(* One symbol, after a look at the deadline (the opinion has none in its   *)
(* thread); any symbol may fail the whole load.                            *)
LoadSymbol(c) ==
  /\ job[c].phase = "loading" /\ job[c].left > 0
  /\ \/ /\ late[c] => asked[c] = "opinion"
        /\ job' = [job EXCEPT ![c].left = @ - 1] /\ UNCHANGED slot
     \/ EndWork(c, "failed")
  /\ UNCHANGED <<asked, answer, late>>

(* The journal looks at the deadline once more at the end.                 *)
FinishWork(c) ==
  /\ job[c].phase = "loading" /\ job[c].left = 0
  /\ EndWork(c, IF asked[c] = "journal" /\ late[c] THEN "failed" ELSE "done")
  /\ UNCHANGED <<asked, answer, late>>

Expire(c) ==
  /\ asked[c] # "none" /\ ~late[c]
  /\ late' = [late EXCEPT ![c] = TRUE]
  /\ UNCHANGED <<slot, asked, answer, job>>

(* The work's outcome reaches the request if its time is not up first.     *)
Deliver(c) ==
  /\ Waiting(c)
  /\ \/ job[c].phase = "done" /\ Tell(c, "loaded")
     \/ job[c].phase = "failed" /\ Tell(c, "unavailable")
     \/ job[c].phase = "refused" /\ Tell(c, "busy")
  /\ UNCHANGED <<slot, asked, job, late>>

(* A request that leaves cancels an opinion no thread has taken up yet;    *)
(* the other two are shielded.                                             *)
Leave(c, a) ==
  /\ Waiting(c)
  /\ Tell(c, a)
  /\ IF asked[c] = "opinion" /\ job[c].phase = "queued"
     THEN EndWork(c, "failed") ELSE UNCHANGED <<slot, job>>
  /\ UNCHANGED <<asked, late>>

TimeOut(c) == late[c] /\ Leave(c, IF asked[c] = "valuation" THEN "unavailable" ELSE "timed_out")
Disconnect(c) == Leave(c, "gone")

Request(c) ==
  /\ asked[c] = "none"
  /\ \/ \E s \in Services \ {"opinion"} :
          \/ \E a \in {"not_needed", "busy", "unavailable"} : AskWithoutLoad(c, s, a)
          \/ AskForLoad(c, s)
     \/ AskForOpinion(c)

Work(c) == StartWork(c) \/ LoadSymbol(c) \/ FinishWork(c)

LoadsNext == \E c \in Callers :
  Request(c) \/ Work(c) \/ Expire(c) \/ Deliver(c) \/ TimeOut(c) \/ Disconnect(c)

(* Threads of the pool run and the event loop delivers; nobody must ask.   *)
LoadsFairness == \A c \in Callers : WF_loadVars(Work(c)) /\ WF_loadVars(Deliver(c))

LoadsSpec == LoadsInit /\ [][LoadsNext]_loadVars /\ LoadsFairness

-----------------------------------------------------------------------------
(* The shape of every variable of the price loads.                         *)
LoadsTypeOK ==
  /\ slot \in [Services -> 0..1]
  /\ asked \in [Callers -> Services \cup {"none"}]
  /\ answer \in [Callers -> Answers]
  /\ job \in [Callers -> [phase : Phases, left : 0..Symbols, took : BOOLEAN]]
  /\ late \in [Callers -> BOOLEAN]

(* A slot is free or carried by exactly one unfinished load: no timeout,   *)
(* disconnect, refusal or failure leaks it or returns it twice             *)
(* (journal_service.py, worker.add_done_callback).                         *)
SlotCarriedByWork ==
  \A s \in Services :
    /\ slot[s] + Cardinality({c \in Callers : asked[c] = s /\ Holds(c)}) = 1
    /\ \A c \in Callers : Holds(c) => job[c].phase \in {"queued", "loading"}

(* However its callers leave, a load gives its slot back: no service stays *)
(* busy for good.                                                          *)
SlotReturns == \A s \in Services : slot[s] = 0 ~> slot[s] = 1
=============================================================================
