--------------------------- MODULE ServicesProofs ----------------------------
(* Proofs about the components that share nothing but the API process: the *)
(* journal's price loads, account deletion, the dashboard's market         *)
(* watcher, the gate of the filing research, and the price cache; then     *)
(* about these and the research together, side by side in one process.     *)
EXTENDS MCServices, ResearchProofs

-----------------------------------------------------------------------------
(* Proofs about the price loads: the slot of a service with any number of   *)
(* requests, loads of any length, deadlines and disconnects at any moment.  *)

Job == [phase : Phases, left : 0..Symbols, took : BOOLEAN]
Carries(c, s) == asked[c] = s /\ Holds(c)

(* A caller that has not asked has no work; work that holds no slot and has *)
(* not ended is an opinion in the queue; what holds a slot has not ended.   *)
WorkInv ==
  \A c \in Callers :
    /\ asked[c] = "none" => job[c] = NoJob
    /\ Holds(c) => job[c].phase \in {"queued", "loading"}
    /\ ~Holds(c) /\ job[c].phase \in {"queued", "loading"} =>
         job[c].phase = "queued" /\ asked[c] = "opinion"

(* A slot is free and no work carries it, or one does.                      *)
CarryInv ==
  \A s \in Services :
    \/ slot[s] = 1 /\ \A c \in Callers : ~Carries(c, s)
    \/ slot[s] = 0 /\ \E c \in Callers : \A d \in Callers : Carries(d, s) <=> d = c

LoadsInv == LoadsTypeOK /\ WorkInv /\ CarryInv

LEMMA InitLoadsInv == LoadsInit => LoadsInv
  <1> SUFFICES ASSUME LoadsInit PROVE LoadsInv
    OBVIOUS
  <1>1. NoJob \in Job
    BY LoadsAssumption DEF NoJob, Job, Phases
  <1>2. LoadsTypeOK
    BY <1>1 DEF LoadsInit, LoadsTypeOK, Answers, Job
  <1>3. WorkInv /\ CarryInv
    BY DEF LoadsInit, WorkInv, CarryInv, Carries, Holds, NoJob, Services
  <1> QED BY <1>2, <1>3 DEF LoadsInv

LEMMA ShorterWork ==
  ASSUME NEW j \in Job, NEW n
  PROVE  [j EXCEPT !.left = n] = [phase |-> j.phase, left |-> n, took |-> j.took]
  BY DEF Job

(* The end of a load, whatever its outcome and whoever listens.             *)
LEMMA WorkEnds ==
  ASSUME LoadsInv, NEW c \in Callers, NEW phase \in {"done", "failed", "refused"},
         asked[c] # "none", EndWork(c, phase), asked' = asked,
         answer' \in [Callers -> Answers], late' \in [Callers -> BOOLEAN]
  PROVE  LoadsInv'
  <1> USE DEF LoadsInv
  <1>1. job' = [job EXCEPT ![c] = [phase |-> phase, left |-> 0, took |-> FALSE]]
    BY DEF EndWork
  <1>2. [phase |-> phase, left |-> 0, took |-> FALSE] \in Job
    BY LoadsAssumption DEF Job, Phases
  <1>3. /\ job' \in [Callers -> Job]
        /\ job'[c] = [phase |-> phase, left |-> 0, took |-> FALSE]
        /\ \A d \in Callers : d # c => job'[d] = job[d]
    BY <1>1, <1>2 DEF LoadsTypeOK, Job
  <1>4. \A s : ~Carries(c, s)'
    BY <1>3 DEF Carries, Holds
  <1>5. \A s : \A d \in Callers : d # c => (Carries(d, s)' <=> Carries(d, s))
    BY <1>3 DEF Carries, Holds
  <1>6. WorkInv'
    BY <1>3 DEF WorkInv, Holds
  <1>7. CASE Holds(c)
    <2>1. /\ asked[c] \in Services /\ Carries(c, asked[c])
          /\ slot' = [slot EXCEPT ![asked[c]] = @ + 1]
      BY <1>7 DEF LoadsTypeOK, Carries, EndWork
    <2>2. slot[asked[c]] = 0 /\ \A d \in Callers : Carries(d, asked[c]) => d = c
      BY <2>1 DEF CarryInv
    <2>3. slot'[asked[c]] = 1 /\ \A s \in Services : s # asked[c] => slot'[s] = slot[s]
      BY <2>1, <2>2 DEF LoadsTypeOK
    <2>4. slot' \in [Services -> 0..1]
      BY <2>1, <2>2 DEF LoadsTypeOK
    <2>5. \A s \in Services : s # asked[c] => ~Carries(c, s)
      BY DEF Carries
    <2>6. CarryInv'
      <3> SUFFICES ASSUME NEW s \in Services
                   PROVE  \/ slot'[s] = 1 /\ \A d \in Callers : ~Carries(d, s)'
                          \/ slot'[s] = 0 /\ \E e \in Callers : \A d \in Callers : Carries(d, s)' <=> d = e
        BY DEF CarryInv
      <3>1. CASE s = asked[c]
        BY <3>1, <1>4, <1>5, <2>2, <2>3
      <3>2. CASE s # asked[c]
        <4>1. slot'[s] = slot[s] /\ \A d \in Callers : Carries(d, s)' <=> Carries(d, s)
          BY <3>2, <1>4, <1>5, <2>3, <2>5
        <4> QED BY <4>1 DEF CarryInv
      <3> QED BY <3>1, <3>2
    <2> QED BY <1>3, <1>6, <2>4, <2>6 DEF LoadsTypeOK, Job
  <1>8. CASE ~Holds(c)
    <2>1. slot' = slot
      BY <1>8 DEF EndWork
    <2>2. \A s : \A d \in Callers : Carries(d, s)' <=> Carries(d, s)
      BY <1>4, <1>5, <1>8 DEF Carries
    <2>3. CarryInv'
      BY <2>1, <2>2 DEF CarryInv
    <2> QED BY <1>3, <1>6, <2>1, <2>3 DEF LoadsTypeOK, Job
  <1> QED BY <1>7, <1>8

(* Work that takes the free slot of its service.                            *)
LEMMA WorkTakes ==
  ASSUME LoadsInv, NEW c \in Callers, NEW s \in Services, NEW j \in Job,
         ~Holds(c), slot[s] = 1,
         slot' = [slot EXCEPT ![s] = 0],
         asked' = [asked EXCEPT ![c] = s],
         job' = [job EXCEPT ![c] = j], j.took, j.phase \in {"queued", "loading"},
         UNCHANGED <<answer, late>>
  PROVE  LoadsInv'
  <1> USE DEF LoadsInv
  <1>1. /\ slot' \in [Services -> 0..1] /\ slot'[s] = 0
        /\ \A r \in Services : r # s => slot'[r] = slot[r]
    BY DEF LoadsTypeOK
  <1>2. /\ asked' \in [Callers -> Services \cup {"none"}] /\ asked'[c] = s
        /\ \A d \in Callers : d # c => asked'[d] = asked[d]
    BY DEF LoadsTypeOK
  <1>3. /\ job' \in [Callers -> Job] /\ job'[c] = j
        /\ \A d \in Callers : d # c => job'[d] = job[d]
    BY DEF LoadsTypeOK, Job
  <1>4. s # "none"
    BY DEF Services
  <1>5. WorkInv'
    BY <1>2, <1>3, <1>4 DEF WorkInv, Holds
  <1>6. /\ Carries(c, s)' /\ \A r : r # s => ~Carries(c, r)'
        /\ \A r : ~Carries(c, r)
        /\ \A r : \A d \in Callers : d # c => (Carries(d, r)' <=> Carries(d, r))
    BY <1>2, <1>3 DEF Carries, Holds
  <1>7. \A d \in Callers : ~Carries(d, s)
    BY DEF CarryInv
  <1>8. CarryInv'
    <2> SUFFICES ASSUME NEW r \in Services
                 PROVE  \/ slot'[r] = 1 /\ \A d \in Callers : ~Carries(d, r)'
                        \/ slot'[r] = 0 /\ \E e \in Callers : \A d \in Callers : Carries(d, r)' <=> d = e
      BY DEF CarryInv
    <2>1. CASE r = s
      BY <2>1, <1>1, <1>6, <1>7
    <2>2. CASE r # s
      <3>1. slot'[r] = slot[r] /\ \A d \in Callers : Carries(d, r)' <=> Carries(d, r)
        BY <2>2, <1>1, <1>6
      <3> QED BY <3>1 DEF CarryInv
    <2> QED BY <2>1, <2>2
  <1> QED BY <1>1, <1>2, <1>3, <1>5, <1>8 DEF LoadsTypeOK, Job

(* Work that changes without taking or returning a slot.                    *)
LEMMA WorkMoves ==
  ASSUME LoadsInv, NEW c \in Callers, NEW s \in Services, NEW j \in Job,
         asked[c] \in {"none", s}, asked' = [asked EXCEPT ![c] = s],
         job' = [job EXCEPT ![c] = j], j.took = job[c].took,
         j.took => j.phase \in {"queued", "loading"},
         ~j.took => j.phase \notin {"queued", "loading"} \/ (j.phase = "queued" /\ s = "opinion"),
         slot' = slot, answer' \in [Callers -> Answers], late' \in [Callers -> BOOLEAN]
  PROVE  LoadsInv'
  <1> USE DEF LoadsInv
  <1>2. /\ asked' \in [Callers -> Services \cup {"none"}] /\ asked'[c] = s
        /\ \A d \in Callers : d # c => asked'[d] = asked[d]
    BY DEF LoadsTypeOK
  <1>3. /\ job' \in [Callers -> Job] /\ job'[c] = j
        /\ \A d \in Callers : d # c => job'[d] = job[d]
    BY DEF LoadsTypeOK, Job
  <1>4. s # "none"
    BY DEF Services
  <1>5. WorkInv'
    BY <1>2, <1>3, <1>4 DEF WorkInv, Holds
  <1>6. asked[c] = "none" => ~Holds(c)
    BY DEF WorkInv, Holds, NoJob
  <1>7. \A r \in Services : Carries(c, r)' <=> Carries(c, r)
    BY <1>2, <1>3, <1>4, <1>6 DEF Carries, Holds
  <1>8. \A r \in Services : \A d \in Callers : Carries(d, r)' <=> Carries(d, r)
    BY <1>2, <1>3, <1>7 DEF Carries, Holds
  <1>9. CarryInv'
    BY <1>8 DEF CarryInv
  <1> QED BY <1>2, <1>3, <1>5, <1>9 DEF LoadsTypeOK, Job

(* What only answers or only lets time pass disturbs nothing.               *)
LEMMA OnlyTold ==
  ASSUME LoadsInv, UNCHANGED <<slot, asked, job>>,
         answer' \in [Callers -> Answers], late' \in [Callers -> BOOLEAN]
  PROVE  LoadsInv'
  <1>1. WorkInv' /\ CarryInv'
    BY DEF LoadsInv, WorkInv, CarryInv, Carries, Holds
  <1> QED BY <1>1 DEF LoadsInv, LoadsTypeOK

LEMMA RequestStep ==
  ASSUME LoadsInv, NEW c \in Callers, Request(c)
  PROVE  LoadsInv'
  <1> DEFINE queued(took) == [phase |-> "queued", left |-> Symbols, took |-> took]
  <1>1. job[c] = NoJob /\ job[c] \in Job /\ ~Holds(c) /\ asked[c] = "none"
        /\ answer \in [Callers -> Answers] /\ late \in [Callers -> BOOLEAN]
    BY DEF LoadsInv, WorkInv, LoadsTypeOK, Job, Request, Holds, NoJob
  <1>2. \A took \in BOOLEAN : queued(took) \in Job
    BY LoadsAssumption DEF Job, Phases
  <1>3. ASSUME NEW s \in Services \ {"opinion"}, NEW a \in {"not_needed", "busy", "unavailable"},
               AskWithoutLoad(c, s, a)
        PROVE  LoadsInv'
    <2>1. answer' \in [Callers -> Answers]
      BY <1>1, <1>3 DEF AskWithoutLoad, Tell, Answers
    <2>2. job' = [job EXCEPT ![c] = NoJob]
      BY <1>1, <1>3 DEF AskWithoutLoad, LoadsInv, LoadsTypeOK
    <2>3. NoJob.took = FALSE /\ NoJob.phase = "none"
      BY DEF NoJob
    <2> QED BY <1>1, <1>3, <2>1, <2>2, <2>3, WorkMoves DEF AskWithoutLoad
  <1>4. ASSUME NEW s \in Services \ {"opinion"}, AskForLoad(c, s)
        PROVE  LoadsInv'
    BY <1>1, <1>2, <1>4, WorkTakes DEF AskForLoad
  <1>5. CASE AskForOpinion(c)
    <2>1. "opinion" \in Services /\ NoJob.took = FALSE
      BY DEF Services, NoJob
    <2> QED BY <1>1, <1>2, <1>5, <2>1, WorkMoves DEF AskForOpinion
  <1> QED BY <1>3, <1>4, <1>5 DEF Request

LEMMA StartLoadStep ==
  ASSUME LoadsInv, NEW c \in Callers, StartWork(c)
  PROVE  LoadsInv'
  <1>1. /\ job \in [Callers -> Job] /\ job[c] \in Job /\ job[c].phase = "queued"
        /\ asked \in [Callers -> Services \cup {"none"}]
        /\ answer \in [Callers -> Answers] /\ late \in [Callers -> BOOLEAN]
    BY DEF LoadsInv, LoadsTypeOK, Job, StartWork
  <1>2. asked[c] \in Services /\ asked[c] # "none" /\ asked = [asked EXCEPT ![c] = asked[c]]
    BY <1>1 DEF LoadsInv, WorkInv, NoJob
  <1>3. CASE Holds(c) /\ job' = [job EXCEPT ![c].phase = "loading"] /\ slot' = slot
    <2> DEFINE j == [job[c] EXCEPT !.phase = "loading"]
    <2>1. j \in Job /\ j.took = job[c].took /\ j.phase = "loading"
      BY <1>1 DEF Job, Phases
    <2>2. job' = [job EXCEPT ![c] = j]
      BY <1>3
    <2>3. j.took
      BY <1>3, <2>1 DEF Holds
    <2>4. UNCHANGED <<slot, asked, answer, late>>
      BY <1>3 DEF StartWork
    <2> HIDE DEF j
    <2> QED BY <1>1, <1>2, <2>1, <2>2, <2>3, <2>4, WorkMoves
  <1>4. CASE \E phase \in {"failed", "refused"} : EndWork(c, phase)
    BY <1>1, <1>2, <1>4, WorkEnds DEF StartWork
  <1>5. CASE /\ ~Holds(c) /\ slot["opinion"] = 1
             /\ slot' = [slot EXCEPT !["opinion"] = 0]
             /\ job' = [job EXCEPT ![c] = [phase |-> "loading", left |-> @.left, took |-> TRUE]]
    <2> DEFINE j == [phase |-> "loading", left |-> job[c].left, took |-> TRUE]
    <2>1. j \in Job
      BY <1>1 DEF Job, Phases
    <2>2. job' = [job EXCEPT ![c] = j]
      BY <1>5
    <2>3. asked[c] = "opinion" /\ "opinion" \in Services
      BY <1>1, <1>5 DEF LoadsInv, WorkInv, Services
    <2>4. j.took /\ j.phase = "loading"
      OBVIOUS
    <2>5. UNCHANGED <<asked, answer, late>>
      BY DEF StartWork
    <2> HIDE DEF j
    <2>6. ~Holds(c) /\ slot["opinion"] = 1 /\ slot' = [slot EXCEPT !["opinion"] = 0]
      BY <1>5
    <2>7. asked' = [asked EXCEPT ![c] = "opinion"]
      BY <1>2, <2>3, <2>5
    <2> QED BY <2>1, <2>2, <2>3, <2>4, <2>5, <2>6, <2>7, WorkTakes
  <1> QED BY <1>3, <1>4, <1>5 DEF StartWork

LEMMA LoadStep ==
  ASSUME LoadsInv, NEW c \in Callers, LoadSymbol(c) \/ FinishWork(c)
  PROVE  LoadsInv'
  <1>1. /\ job \in [Callers -> Job] /\ job[c] \in Job /\ job[c].phase = "loading"
        /\ asked \in [Callers -> Services \cup {"none"}]
        /\ answer \in [Callers -> Answers] /\ late \in [Callers -> BOOLEAN]
    BY DEF LoadsInv, LoadsTypeOK, Job, LoadSymbol, FinishWork
  <1>2. asked[c] \in Services /\ asked[c] # "none" /\ asked = [asked EXCEPT ![c] = asked[c]]
    BY <1>1 DEF LoadsInv, WorkInv, NoJob
  <1>5. job[c].took = TRUE
    BY <1>1 DEF LoadsInv, WorkInv, Holds, Job
  <1>3. CASE /\ job[c].left > 0 /\ job' = [job EXCEPT ![c].left = @ - 1]
             /\ UNCHANGED <<slot, asked, answer, late>>
    <2> DEFINE j == [phase |-> "loading", left |-> job[c].left - 1, took |-> TRUE]
    <2>1. j \in Job
      BY <1>1, <1>3, LoadsAssumption DEF Job, Phases
    <2>2. job' = [job EXCEPT ![c] = j]
      <3>1. [job[c] EXCEPT !.left = @ - 1] = j
        BY <1>1, <1>5, ShorterWork
      <3>2. job' = [job EXCEPT ![c] = [job[c] EXCEPT !.left = @ - 1]]
        BY <1>3
      <3> QED BY <3>1, <3>2
    <2>3. j.took /\ j.phase = "loading"
      OBVIOUS
    <2> HIDE DEF j
    <2>4. j.took = job[c].took /\ asked' = [asked EXCEPT ![c] = asked[c]]
      BY <1>2, <1>3, <1>5 DEF j
    <2>5. slot' = slot /\ answer' \in [Callers -> Answers] /\ late' \in [Callers -> BOOLEAN]
      BY <1>1, <1>3
    <2> QED BY <1>2, <2>1, <2>2, <2>3, <2>4, <2>5, WorkMoves
  <1>4. CASE (\E phase \in {"failed", "done"} : EndWork(c, phase)) /\ UNCHANGED <<asked, answer, late>>
    BY <1>1, <1>2, <1>4, WorkEnds
  <1> QED BY <1>3, <1>4 DEF LoadSymbol, FinishWork

LEMMA LeaveStep ==
  ASSUME LoadsInv, NEW c \in Callers, NEW a \in Answers, Leave(c, a)
  PROVE  LoadsInv'
  <1>1. answer' \in [Callers -> Answers] /\ late' \in [Callers -> BOOLEAN] /\ asked' = asked
    BY DEF LoadsInv, LoadsTypeOK, Leave, Tell
  <1>2. asked[c] # "none"
    BY DEF LoadsInv, WorkInv, Leave, Waiting, NoJob
  <1>3. CASE EndWork(c, "failed")
    BY <1>1, <1>2, <1>3, WorkEnds
  <1>4. CASE UNCHANGED <<slot, job>>
    BY <1>1, <1>4, OnlyTold
  <1> QED BY <1>3, <1>4 DEF Leave

LEMMA NextLoadsInv == LoadsInv /\ [LoadsNext]_loadVars => LoadsInv'
  <1> SUFFICES ASSUME LoadsInv, [LoadsNext]_loadVars PROVE LoadsInv'
    OBVIOUS
  <1>1. answer \in [Callers -> Answers] /\ late \in [Callers -> BOOLEAN]
    BY DEF LoadsInv, LoadsTypeOK
  <1>2. CASE UNCHANGED loadVars
    BY <1>1, <1>2, OnlyTold DEF loadVars
  <1>3. ASSUME NEW c \in Callers, Expire(c)
        PROVE  LoadsInv'
    BY <1>1, <1>3, OnlyTold DEF Expire
  <1>4. ASSUME NEW c \in Callers, Deliver(c)
        PROVE  LoadsInv'
    <2>1. answer' \in [Callers -> Answers]
      BY <1>1, <1>4 DEF Deliver, Tell, Answers
    <2> QED BY <1>1, <1>4, <2>1, OnlyTold DEF Deliver
  <1>5. ASSUME NEW c \in Callers, TimeOut(c) \/ Disconnect(c)
        PROVE  LoadsInv'
    BY <1>5, LeaveStep DEF TimeOut, Disconnect, Answers
  <1> QED BY <1>2, <1>3, <1>4, <1>5, RequestStep, StartLoadStep, LoadStep DEF LoadsNext, Work

LEMMA AlwaysLoadsInv == LoadsSpec => []LoadsInv
  BY InitLoadsInv, NextLoadsInv, PTL DEF LoadsSpec

-----------------------------------------------------------------------------
(* Every variable of the price loads keeps its shape.                       *)
THEOREM LoadsTypeCorrect == LoadsSpec => []LoadsTypeOK
  <1>1. LoadsInv => LoadsTypeOK
    BY DEF LoadsInv
  <1> QED BY AlwaysLoadsInv, <1>1, PTL

LEMMA OneCarrier ==
  ASSUME LoadsInv
  PROVE  SlotCarriedByWork
  <1> SUFFICES ASSUME NEW s \in Services
               PROVE  slot[s] + Cardinality({c \in Callers : asked[c] = s /\ Holds(c)}) = 1
    BY DEF LoadsInv, WorkInv, SlotCarriedByWork
  <1> DEFINE carriers == {c \in Callers : asked[c] = s /\ Holds(c)}
  <1>1. CASE slot[s] = 1 /\ \A c \in Callers : ~Carries(c, s)
    <2>1. carriers = {}
      BY <1>1 DEF Carries
    <2> HIDE DEF carriers
    <2>2. slot[s] + Cardinality(carriers) = 1
      BY <1>1, <2>1, FS_EmptySet
    <2> QED BY <2>2 DEF carriers
  <1>2. CASE slot[s] = 0 /\ \E c \in Callers : \A d \in Callers : Carries(d, s) <=> d = c
    <2>1. PICK c \in Callers : \A d \in Callers : Carries(d, s) <=> d = c
      BY <1>2
    <2>2. carriers = {c}
      BY <2>1 DEF Carries
    <2> HIDE DEF carriers
    <2>3. slot[s] + Cardinality(carriers) = 1
      BY <1>2, <2>2, FS_Singleton
    <2> QED BY <2>3 DEF carriers
  <1> QED BY <1>1, <1>2 DEF LoadsInv, CarryInv

(* The slot of a service is free or carried by exactly one unfinished load, *)
(* for any number of requests: no timeout, disconnect, refusal or failure   *)
(* leaks it or returns it twice (journal_service.py, add_done_callback).    *)
THEOREM SlotsAreCarried == LoadsSpec => []SlotCarriedByWork
  BY AlwaysLoadsInv, OneCarrier, PTL

-----------------------------------------------------------------------------
(* Proofs about the deletion of accounts: any number of users, sessions,    *)
(* overlapping requests and challenges, with restarts at any moment.        *)

Confirming == {"verifying", "deleting", "deleted"}
Quiet == [at : {"idle"}] \cup [at : {"reviewing"}, user : Users, session : Sessions]
Confirmation == [at : Confirming, user : Users, session : Sessions, challenge : Nat]
Active(h) == handler[h].at \in Confirming

DelTableInv == handler \in [Handlers -> Quiet \cup Confirmation] /\ IsFiniteSet(Reviews)

(* A confirmation under way has a challenge of its own, which is its user's *)
(* and its session's and no longer in the book.                             *)
OwnInv ==
  /\ \A h \in Handlers : Active(h) =>
       /\ handler[h].challenge \in Reviews \ challenges
       /\ review[handler[h].challenge] = [user |-> handler[h].user, session |-> handler[h].session]
  /\ \A h, k \in Handlers :
       Active(h) /\ Active(k) /\ handler[h].challenge = handler[k].challenge => h = k

(* Nothing was sent for a challenge in the book or still being verified.    *)
SentInv ==
  /\ \A c \in Reviews : deletes[c] \in 0..1
  /\ \A c \in challenges : deletes[c] = 0
  /\ \A h \in Handlers : handler[h].at = "verifying" => deletes[handler[h].challenge] = 0

UserInv ==
  /\ \A c, d \in challenges : review[c].user = review[d].user => c = d
  /\ \A h \in Handlers : handler[h].at = "deleted" => handler[h].user \in removed

DelInv == DelTypeOK /\ DelTableInv /\ OwnInv /\ SentInv /\ UserInv

LEMMA InitDelInv == DelInit => DelInv
  <1> SUFFICES ASSUME DelInit PROVE DelInv
    OBVIOUS
  <1>1. Reviews = {} /\ DOMAIN deletes = {} /\ Cardinality(Reviews) = 0 /\ IsFiniteSet(Reviews)
    BY FS_EmptySet DEF DelInit, Reviews
  <1>2. Cardinality(challenges) <= MaxChallenges
    BY FS_EmptySet, DeletionAssumption DEF DelInit
  <1>3. DelTypeOK
    BY <1>1, <1>2 DEF DelInit, DelTypeOK
  <1>4. Idle \in Quiet /\ Idle.at = "idle"
    BY DEF Idle, Quiet
  <1>5. DelTableInv
    BY <1>1, <1>4 DEF DelInit, DelTableInv
  <1>6. OwnInv /\ SentInv /\ UserInv
    BY <1>1, <1>4 DEF DelInit, OwnInv, SentInv, UserInv, Active, Confirming
  <1> QED BY <1>3, <1>5, <1>6 DEF DelInv

LEMMA ActiveShape ==
  ASSUME DelTableInv, NEW h \in Handlers, Active(h)
  PROVE  handler[h] \in Confirmation
  BY DEF DelTableInv, Active, Confirming, Quiet, Confirmation

LEMMA Moved ==
  ASSUME NEW j \in Confirmation, NEW p \in Confirming
  PROVE  [j EXCEPT !.at = p] = [at |-> p, user |-> j.user, session |-> j.session, challenge |-> j.challenge]
  BY DEF Confirmation

-----------------------------------------------------------------------------
(* A handler that stops confirming, or only asks for a review, takes no     *)
(* challenge with it.                                                       *)
LEMMA HandlerQuiet ==
  ASSUME DelInv, NEW h \in Handlers, NEW j \in Quiet,
         handler' = [handler EXCEPT ![h] = j],
         UNCHANGED <<review, challenges, expired, deletes, removed>>,
         told' \subseteq removed
  PROVE  DelInv'
  <1> USE DEF DelInv
  <1>1. /\ handler' \in [Handlers -> Quiet \cup Confirmation] /\ handler'[h] = j
        /\ \A k \in Handlers : k # h => handler'[k] = handler[k]
    BY DEF DelTableInv
  <1>2. j.at \notin Confirming
    BY DEF Quiet, Confirming
  <1>3. Reviews' = Reviews
    BY DEF Reviews
  <1>4. ~Active(h)' /\ \A k \in Handlers : Active(k)' => k # h /\ Active(k)
    BY <1>1, <1>2 DEF Active
  <1>5. DelTypeOK' /\ DelTableInv'
    BY <1>1, <1>3 DEF DelTypeOK, DelTableInv
  <1>6. OwnInv'
    BY <1>1, <1>3, <1>4 DEF OwnInv
  <1>7. SentInv' /\ UserInv'
    BY <1>1, <1>2, <1>3 DEF SentInv, UserInv, Confirming
  <1> QED BY <1>5, <1>6, <1>7

LEMMA PreviewStep ==
  ASSUME DelInv, NEW h \in Handlers, NEW u \in Users, NEW s \in Sessions, Preview(h, u, s)
  PROVE  DelInv'
  <1>1. [at |-> "reviewing", user |-> u, session |-> s] \in Quiet
    BY DEF Quiet
  <1> QED BY <1>1, HandlerQuiet DEF Preview, DelInv, DelTypeOK

LEMMA IdleQuiet == Idle \in Quiet
  BY DEF Idle, Quiet

LEMMA FailStep ==
  ASSUME DelInv, NEW h \in Handlers, Fail(h)
  PROVE  DelInv'
  BY IdleQuiet, HandlerQuiet DEF Fail, Drop, DelInv, DelTypeOK

LEMMA AnsweredStep ==
  ASSUME DelInv, NEW h \in Handlers, Answered(h)
  PROVE  DelInv'
  <1>1. told' \subseteq removed
    BY DEF Answered, DelInv, DelTypeOK, UserInv
  <1> QED BY <1>1, IdleQuiet, HandlerQuiet DEF Answered, Drop

-----------------------------------------------------------------------------
(* A challenge goes out                                                     *)

LEMMA NextReview ==
  ASSUME DelInv
  PROVE  /\ Cardinality(Reviews) + 1 \in Nat /\ Cardinality(Reviews) + 1 \notin Reviews
         /\ IsFiniteSet(Reviews \cup {Cardinality(Reviews) + 1})
         /\ Reviews \cup {Cardinality(Reviews) + 1}
              = 1..Cardinality(Reviews \cup {Cardinality(Reviews) + 1})
  <1> DEFINE n == Cardinality(Reviews)
  <1>1. n \in Nat /\ Reviews = 1..n /\ IsFiniteSet(Reviews)
    BY FS_CardinalityType DEF DelInv, DelTableInv, DelTypeOK
  <1> HIDE DEF n
  <1> DEFINE more == Reviews \cup {n + 1}
  <1>2. n + 1 \notin Reviews /\ more = 1..(n + 1)
    BY <1>1
  <1>3. IsFiniteSet(more) /\ Cardinality(more) = n + 1
    BY <1>1, <1>2, FS_AddElement DEF n
  <1> HIDE DEF more
  <1>4. n + 1 \in Nat /\ more = 1..Cardinality(more)
    BY <1>1, <1>2, <1>3
  <1> QED BY <1>2, <1>3, <1>4 DEF more, n

LEMMA ChallengeStep ==
  ASSUME DelInv, NEW h \in Handlers, Challenge(h)
  PROVE  DelInv'
  <1> USE DEF DelInv
  <1> DEFINE p == handler[h]
             next == Cardinality(Reviews) + 1
             kept == Remaining(p.user)
  <1>1. /\ p.at = "reviewing" /\ p.user \in Users /\ p.session \in Sessions
        /\ UNCHANGED <<expired, removed, told>>
        /\ handler' = [handler EXCEPT ![h] = Idle]
    BY DEF Challenge, Drop, DelTableInv, Quiet, Confirmation, Confirming
  <1>2. /\ handler' \in [Handlers -> Quiet \cup Confirmation] /\ handler'[h] = Idle
        /\ \A k \in Handlers : k # h => handler'[k] = handler[k]
    BY <1>1, IdleQuiet DEF DelTableInv
  <1>3. Idle.at = "idle" /\ ~Active(h)' /\ \A k \in Handlers : Active(k)' => k # h /\ Active(k)
    BY <1>2 DEF Active, Idle, Confirming
  <1>4. kept \subseteq challenges /\ \A c \in kept : review[c].user # p.user
    BY DEF Remaining
  <1>5. IsFiniteSet(challenges) /\ IsFiniteSet(kept) /\ Cardinality(kept) <= MaxChallenges
        /\ Cardinality(kept) \in Nat
    <2>1. IsFiniteSet(challenges)
      BY FS_Subset DEF DelTypeOK, DelTableInv
    <2>2. IsFiniteSet(kept) /\ Cardinality(kept) <= Cardinality(challenges)
      BY <1>4, <2>1, FS_Subset
    <2>3. Cardinality(kept) \in Nat /\ Cardinality(challenges) \in Nat
      BY <2>1, <2>2, FS_CardinalityType
    <2> QED BY <2>1, <2>2, <2>3, DeletionAssumption DEF DelTypeOK
  <1> HIDE DEF kept
  <1>6. CASE challenges' = kept /\ UNCHANGED <<review, deletes>>
    <2>1. Reviews' = Reviews
      BY <1>6 DEF Reviews
    <2>2. DelTypeOK' /\ DelTableInv'
      BY <1>1, <1>2, <1>4, <1>5, <1>6, <2>1 DEF DelTypeOK, DelTableInv
    <2>3. OwnInv'
      BY <1>2, <1>3, <1>4, <1>6, <2>1 DEF OwnInv
    <2>4. SentInv' /\ UserInv'
      BY <1>1, <1>2, <1>3, <1>4, <1>6, <2>1 DEF SentInv, UserInv
    <2> QED BY <2>2, <2>3, <2>4
  <1>7. CASE /\ Cardinality(kept) < MaxChallenges
             /\ review' = [c \in Reviews \cup {next} |->
                  IF c = next THEN [user |-> p.user, session |-> p.session] ELSE review[c]]
             /\ challenges' = kept \cup {next}
             /\ deletes' = [c \in Reviews \cup {next} |-> IF c = next THEN 0 ELSE deletes[c]]
    <2>1. /\ next \in Nat /\ next \notin Reviews
          /\ IsFiniteSet(Reviews \cup {next})
          /\ Reviews \cup {next} = 1..Cardinality(Reviews \cup {next})
      BY NextReview
    <2> HIDE DEF next
    <2>2. Reviews' = Reviews \cup {next} /\ DOMAIN deletes' = Reviews'
      BY <1>7 DEF Reviews
    <2>3. /\ review'[next] = [user |-> p.user, session |-> p.session]
          /\ \A c \in Reviews : review'[c] = review[c]
          /\ deletes'[next] = 0 /\ \A c \in Reviews : deletes'[c] = deletes[c]
      BY <1>7, <2>1
    <2>4. kept \subseteq Reviews
      BY <1>4 DEF DelTypeOK
    <2>5. Cardinality(challenges') <= MaxChallenges
      <3>1. Cardinality(kept \cup {next}) = Cardinality(kept) + 1
        BY <1>5, <2>1, <2>4, FS_AddElement
      <3> QED BY <1>5, <1>7, <3>1, DeletionAssumption
    <2>6. DelTableInv'
      BY <1>2, <2>1, <2>2 DEF DelTableInv
    <2>7. \A c \in Reviews' : review'[c] \in [user : Users, session : Sessions]
      BY <1>1, <2>2, <2>3 DEF DelTypeOK
    <2>8. DelTypeOK'
      BY <1>1, <1>7, <2>1, <2>2, <2>4, <2>5, <2>7 DEF DelTypeOK
    <2>9. OwnInv'
      BY <1>2, <1>3, <1>4, <1>7, <2>1, <2>2, <2>3 DEF OwnInv
    <2>10. SentInv'
      <3>1. \A c \in Reviews' : deletes'[c] \in 0..1
        BY <2>2, <2>3 DEF SentInv
      <3>2. \A c \in challenges' : deletes'[c] = 0
        BY <1>4, <1>7, <2>3, <2>4 DEF SentInv
      <3>3. \A k \in Handlers : handler'[k].at = "verifying" => deletes'[handler'[k].challenge] = 0
        <4> SUFFICES ASSUME NEW k \in Handlers, handler'[k].at = "verifying"
                     PROVE  deletes'[handler'[k].challenge] = 0
          OBVIOUS
        <4>1. handler'[k] = handler[k] /\ Active(k)
          BY <1>2, <1>3 DEF Active, Confirming
        <4>2. handler[k].challenge \in Reviews /\ deletes[handler[k].challenge] = 0
          BY <4>1 DEF OwnInv, SentInv
        <4> QED BY <4>1, <4>2, <2>3
      <3> QED BY <3>1, <3>2, <3>3 DEF SentInv
    <2>11. UserInv'
      <3>1. \A c \in kept : review'[c].user = review[c].user /\ review[c].user # p.user
        BY <1>4, <2>3, <2>4
      <3>2. ASSUME NEW c \in challenges', NEW d \in challenges', review'[c].user = review'[d].user
            PROVE  c = d
        <4>1. \A e \in kept : e # next /\ e \in challenges /\ review'[e] = review[e]
          BY <1>4, <2>3, <2>4
        <4>2. review'[next].user = p.user /\ challenges' = kept \cup {next}
          BY <1>7, <2>3
        <4>3. CASE c \in kept /\ d \in kept
          BY <3>2, <4>1, <4>3 DEF UserInv
        <4>4. CASE c = next \/ d = next
          BY <3>1, <3>2, <4>1, <4>2, <4>4
        <4> QED BY <4>2, <4>3, <4>4
      <3>3. \A k \in Handlers : handler'[k].at = "deleted" => handler'[k].user \in removed'
        <4> SUFFICES ASSUME NEW k \in Handlers, handler'[k].at = "deleted"
                     PROVE  handler'[k].user \in removed'
          OBVIOUS
        <4>1. k # h /\ handler'[k] = handler[k] /\ removed' = removed
          BY <1>1, <1>2, <1>3
        <4> QED BY <4>1 DEF UserInv
      <3> QED BY <3>2, <3>3 DEF UserInv
    <2> QED BY <2>6, <2>8, <2>9, <2>10, <2>11
  <1> QED BY <1>6, <1>7 DEF Challenge, kept

-----------------------------------------------------------------------------
(* The confirmation and its awaits                                          *)

LEMMA ConfirmStep ==
  ASSUME DelInv, NEW h \in Handlers, NEW u \in Users, NEW s \in Sessions, NEW c \in Reviews,
         Confirm(h, u, s, c)
  PROVE  DelInv'
  <1> USE DEF DelInv
  <1> DEFINE j == [at |-> "verifying", user |-> u, session |-> s, challenge |-> c]
  <1>1. /\ c \in challenges /\ review[c] = [user |-> u, session |-> s]
        /\ challenges' = challenges \ {c} /\ handler' = [handler EXCEPT ![h] = j]
        /\ UNCHANGED <<review, expired, deletes, removed, told>>
    BY DEF Confirm, Consume, Valid
  <1>2. c \in Nat
    BY FS_CardinalityType DEF DelTypeOK, DelTableInv
  <1>3. j \in Confirmation /\ j.at = "verifying" /\ j.challenge = c /\ j.user = u /\ j.session = s
    BY <1>2 DEF Confirmation, Confirming
  <1> HIDE DEF j
  <1>4. /\ handler' \in [Handlers -> Quiet \cup Confirmation] /\ handler'[h] = j
        /\ \A k \in Handlers : k # h => handler'[k] = handler[k]
    BY <1>1, <1>3 DEF DelTableInv
  <1>5. Reviews' = Reviews
    BY <1>1 DEF Reviews
  <1>6. Cardinality(challenges') <= MaxChallenges
    <2>1. IsFiniteSet(challenges)
      BY FS_Subset DEF DelTypeOK, DelTableInv
    <2>2. Cardinality(challenges') <= Cardinality(challenges)
      BY <1>1, <2>1, FS_Subset
    <2>3. Cardinality(challenges') \in Nat /\ Cardinality(challenges) \in Nat
      BY <1>1, <2>1, FS_Subset, FS_CardinalityType
    <2> QED BY <2>2, <2>3, DeletionAssumption DEF DelTypeOK
  <1>7. DelTypeOK' /\ DelTableInv'
    BY <1>1, <1>4, <1>5, <1>6 DEF DelTypeOK, DelTableInv
  <1>8. \A k \in Handlers : k # h => (Active(k)' <=> Active(k))
    BY <1>4 DEF Active
  <1>9. OwnInv'
    BY <1>1, <1>3, <1>4, <1>5, <1>8 DEF OwnInv
  <1>10. SentInv' /\ UserInv'
    BY <1>1, <1>3, <1>4, <1>5 DEF SentInv, UserInv
  <1> QED BY <1>7, <1>9, <1>10

(* A confirmation that comes one await further; what it sends is counted.   *)
LEMMA ConfirmationMoves ==
  ASSUME DelInv, NEW h \in Handlers, Active(h), NEW p \in {"deleting", "deleted"},
         handler' = [handler EXCEPT ![h].at = p],
         UNCHANGED <<review, challenges, expired, told>>,
         removed' \in SUBSET Users, removed \subseteq removed',
         p = "deleted" => handler[h].user \in removed',
         \/ deletes' = deletes
         \/ handler[h].at = "verifying" /\ deletes' = [deletes EXCEPT ![handler[h].challenge] = @ + 1]
  PROVE  DelInv'
  <1> USE DEF DelInv
  <1> DEFINE j == [handler[h] EXCEPT !.at = p]
             c == handler[h].challenge
  <1>1. handler[h] \in Confirmation /\ p \in Confirming
    BY ActiveShape DEF Confirming
  <1>2. j \in Confirmation /\ j.at = p /\ j.user = handler[h].user
        /\ j.session = handler[h].session /\ j.challenge = c
    BY <1>1, Moved DEF Confirmation
  <1>3. handler' = [handler EXCEPT ![h] = j]
    OBVIOUS
  <1> HIDE DEF j
  <1>4. /\ handler' \in [Handlers -> Quiet \cup Confirmation] /\ handler'[h] = j
        /\ \A k \in Handlers : k # h => handler'[k] = handler[k]
    BY <1>2, <1>3 DEF DelTableInv
  <1>5. Reviews' = Reviews
    BY DEF Reviews
  <1>6. \A k \in Handlers : Active(k)' <=> Active(k)
    BY <1>1, <1>2, <1>4 DEF Active
  <1>7. OwnInv'
    BY <1>2, <1>4, <1>5, <1>6 DEF OwnInv
  <1>8. c \in Reviews \ challenges /\ c \in DOMAIN deletes
    BY DEF OwnInv, DelTypeOK
  <1>9. DOMAIN deletes' = DOMAIN deletes /\ \A d \in Reviews : d # c => deletes'[d] = deletes[d]
    BY <1>8 DEF DelTypeOK
  <1>10. deletes'[c] \in 0..1
    BY <1>8 DEF SentInv, DelTypeOK
  <1>11. DelTypeOK' /\ DelTableInv'
    BY <1>4, <1>5, <1>9 DEF DelTypeOK, DelTableInv
  <1>12. \A k \in Handlers : handler'[k].at = "verifying" =>
           k # h /\ handler[k].challenge # c /\ handler[k].challenge \in Reviews
    BY <1>2, <1>4, <1>6 DEF Active, Confirming, OwnInv
  <1>13. SentInv'
    BY <1>4, <1>5, <1>8, <1>9, <1>10, <1>12 DEF SentInv, DelTypeOK
  <1>14. UserInv'
    BY <1>2, <1>4 DEF UserInv
  <1> QED BY <1>7, <1>11, <1>13, <1>14

LEMMA DelSendStep ==
  ASSUME DelInv, NEW h \in Handlers, SendDelete(h) \/ ProviderDeletes(h)
  PROVE  DelInv'
  <1>1. Active(h) /\ handler[h] \in Confirmation /\ removed \in SUBSET Users
    <2>1. Active(h)
      BY DEF SendDelete, ProviderDeletes, Active, Confirming
    <2> QED BY <2>1, ActiveShape DEF DelInv, DelTypeOK
  <1>2. CASE SendDelete(h)
    BY <1>1, <1>2, ConfirmationMoves DEF SendDelete, Move
  <1>3. CASE ProviderDeletes(h)
    <2>1. handler[h].user \in Users
      BY <1>1 DEF Confirmation
    <2> QED BY <1>1, <1>3, <2>1, ConfirmationMoves DEF ProviderDeletes, Move
  <1> QED BY <1>2, <1>3

LEMMA ExpiryStep ==
  ASSUME DelInv, NEW c \in Reviews, Expiry(c)
  PROVE  DelInv'
  <1>1. Reviews' = Reviews
    BY DEF Expiry, Reviews
  <1>2. DelTypeOK' /\ DelTableInv'
    BY <1>1 DEF DelInv, DelTypeOK, DelTableInv, Expiry
  <1>3. OwnInv' /\ SentInv' /\ UserInv'
    BY <1>1 DEF DelInv, OwnInv, SentInv, UserInv, Active, Expiry
  <1> QED BY <1>2, <1>3 DEF DelInv

LEMMA RestartStep ==
  ASSUME DelInv, DelRestart
  PROVE  DelInv'
  <1>1. Reviews' = Reviews
    BY DEF DelRestart, Reviews
  <1>2. Cardinality(challenges') <= MaxChallenges
    BY FS_EmptySet, DeletionAssumption DEF DelRestart
  <1>3. DelTypeOK' /\ DelTableInv'
    BY <1>1, <1>2, IdleQuiet DEF DelInv, DelTypeOK, DelTableInv, DelRestart
  <1>4. \A h \in Handlers : handler'[h].at = "idle"
    BY DEF DelRestart, Idle
  <1>5. OwnInv' /\ SentInv' /\ UserInv'
    BY <1>1, <1>4 DEF DelInv, OwnInv, SentInv, UserInv, Active, Confirming, DelRestart
  <1> QED BY <1>3, <1>5 DEF DelInv

LEMMA StutterStep ==
  ASSUME DelInv, UNCHANGED delVars
  PROVE  DelInv'
  BY DEF DelInv, DelTypeOK, DelTableInv, OwnInv, SentInv, UserInv, Active, Reviews, delVars

LEMMA NextDelInv == DelInv /\ [DelNext]_delVars => DelInv'
  BY PreviewStep, ConfirmStep, ChallengeStep, DelSendStep, AnsweredStep, FailStep,
     ExpiryStep, RestartStep, StutterStep DEF DelNext

LEMMA AlwaysDelInv == DelSpec => []DelInv
  BY InitDelInv, NextDelInv, PTL DEF DelSpec

-----------------------------------------------------------------------------
(* The shape of the deletion's state: challenges are numbered without gaps  *)
(* and the book never holds more than MAX_CHALLENGES.                       *)
THEOREM DeletionTypeCorrect == DelSpec => []DelTypeOK
  <1>1. DelInv => DelTypeOK
    BY DEF DelInv
  <1> QED BY AlwaysDelInv, <1>1, PTL

(* One review sends at most one DELETE, for its own user and session,       *)
(* however many confirmations and awaits overlap and whenever the process   *)
(* restarts; the book holds one challenge for a user.                       *)
THEOREM ReviewsDeleteOnce == DelSpec => []DeletedOnceAsReviewed
  <1>1. DelInv => DeletedOnceAsReviewed
    BY DEF DelInv, DeletedOnceAsReviewed, OwnInv, SentInv, UserInv, Active, Confirming
  <1> QED BY AlwaysDelInv, <1>1, PTL

-----------------------------------------------------------------------------
(* Proofs about the market watcher: any number of overlapping checks, with  *)
(* plans, trades and sessions in between and checks that die anywhere, also *)
(* between the commit and the return.                                       *)

Ledgers == [trades : 0..MaxTrades, plan : 0..MaxPlans, fresh : BOOLEAN]
Seen == [plan : 0..MaxPlans, signal : Signals \cup {NoSignal}]
AtRest == [at : {"new", "saved", "changed", "done", "dead"}]
Loading == [at : {"loading"}, ledger : Ledgers, previous : Seen]
Saving == [at : {"saving"}, ledger : Ledgers, previous : Seen, seen : Bars]

WatchTableInv ==
  /\ check \in [Checks -> AtRest \cup Loading \cup Saving]
  /\ newAlerts \in [Checks -> SUBSET alerts] /\ reported \in [Checks -> SUBSET alerts]

(* What a check has observed, or will compare with, has been announced.     *)
Announced(n, keys) == n > 0 => <<"plan_changed", n>> \in keys
AnnouncedInv ==
  /\ \A i \in DOMAIN observations : Announced(observations[i].plan, alerts)
  /\ \A c \in Checks : check[c].at \in {"loading", "saving"} =>
       Announced(check[c].previous.plan, alerts)

(* A check stores before it returns, and returns what it stored: every alert *)
(* was stored by one check, which keeps it when it dies unheard.            *)
ReportInv ==
  /\ \A c \in Checks : check[c].at \in {"new", "loading", "saving", "changed"} => newAlerts[c] = {}
  /\ \A c \in Checks : reported[c] = IF check[c].at = "done" THEN newAlerts[c] ELSE {}
  /\ \A k \in alerts : \E c \in Checks : k \in newAlerts[c]
  /\ \A c, d \in Checks : c # d => newAlerts[c] \cap newAlerts[d] = {}

WatchInv == WatchTypeOK /\ WatchTableInv /\ AnnouncedInv /\ ReportInv

LEMMA InitWatchInv == WatchInit => WatchInv
  <1> SUFFICES ASSUME WatchInit PROVE WatchInv
    OBVIOUS
  <1>1. NewCheck \in AtRest /\ NewCheck.at = "new"
    BY DEF NewCheck, AtRest
  <1>2. observations \in Seq(Seen) /\ DOMAIN observations = {}
    BY EmptySeq DEF WatchInit
  <1>3. ledger \in Ledgers
    BY WatchAssumption DEF WatchInit, Ledgers
  <1>4. WatchTypeOK
    BY <1>1, <1>2, <1>3 DEF WatchInit, WatchTypeOK, Seen, Ledgers
  <1>5. WatchTableInv /\ AnnouncedInv /\ ReportInv
    BY <1>1, <1>2 DEF WatchInit, WatchTableInv, AnnouncedInv, ReportInv
  <1> QED BY <1>4, <1>5 DEF WatchInv

LEMMA LastSeen ==
  ASSUME WatchInv
  PROVE  LastObservation \in Seen /\ Announced(LastObservation.plan, alerts)
  <1>1. observations \in Seq(Seen)
    BY DEF WatchInv, WatchTypeOK, Seen
  <1>2. CASE observations = << >>
    <2>1. LastObservation = NoObservation
      BY <1>2 DEF LastObservation
    <2>2. NoObservation \in Seen /\ NoObservation.plan = 0
      BY WatchAssumption DEF NoObservation, Seen
    <2> QED BY <2>1, <2>2 DEF Announced
  <1>3. CASE observations # << >>
    <2>1. Len(observations) \in DOMAIN observations /\ observations[Len(observations)] \in Seen
      BY <1>1, <1>3
    <2> QED BY <1>3, <2>1 DEF LastObservation, WatchInv, AnnouncedInv
  <1> QED BY <1>2, <1>3

(* A check that moves on or dies and reports nothing.                       *)
LEMMA CheckMoves ==
  ASSUME WatchInv, NEW c \in Checks, NEW k \in AtRest \cup Loading \cup Saving,
         check[c].at # "done", k.at # "done", check' = [check EXCEPT ![c] = k],
         k.at \in {"new", "loading", "saving", "changed"} => newAlerts[c] = {},
         k.at \in {"loading", "saving"} => Announced(k.previous.plan, alerts),
         UNCHANGED <<ledger, market, observations, alerts, newAlerts, reported>>
  PROVE  WatchInv'
  <1> USE DEF WatchInv
  <1>1. /\ check' \in [Checks -> AtRest \cup Loading \cup Saving] /\ check'[c] = k
        /\ \A d \in Checks : d # c => check'[d] = check[d]
    BY DEF WatchTableInv
  <1>2. WatchTypeOK' /\ WatchTableInv'
    <2>1. \A d \in Checks : check'[d].at \in {"new", "loading", "saving", "saved", "changed", "done", "dead"}
      BY <1>1 DEF AtRest, Loading, Saving
    <2> QED BY <1>1, <2>1 DEF WatchTypeOK, WatchTableInv
  <1>3. AnnouncedInv'
    BY <1>1 DEF AnnouncedInv
  <1>4. ReportInv'
    BY <1>1 DEF ReportInv
  <1> QED BY <1>2, <1>3, <1>4

LEMMA ReadStep ==
  ASSUME WatchInv, NEW c \in Checks, ReadLedger(c)
  PROVE  WatchInv'
  <1> DEFINE k == [at |-> "loading", ledger |-> ledger, previous |-> LastObservation]
  <1>1. k \in Loading /\ k.at = "loading" /\ k.previous = LastObservation
    BY LastSeen DEF WatchInv, WatchTypeOK, Loading, Ledgers
  <1>2. /\ check' = [check EXCEPT ![c] = k] /\ check[c].at = "new"
        /\ UNCHANGED <<ledger, market, observations, alerts, newAlerts, reported>>
    BY DEF ReadLedger
  <1>3. newAlerts[c] = {}
    BY <1>2 DEF WatchInv, ReportInv
  <1> HIDE DEF k
  <1> QED BY <1>1, <1>2, <1>3, LastSeen, CheckMoves

LEMMA RestStep ==
  ASSUME WatchInv, NEW c \in Checks, NEW how \in {"changed", "dead"}, End(c, how),
         check[c].at # "done", how = "changed" => newAlerts[c] = {},
         UNCHANGED <<ledger, market, observations, alerts, newAlerts, reported>>
  PROVE  WatchInv'
  <1> DEFINE k == [at |-> how]
  <1>1. k \in AtRest /\ k.at = how
    BY DEF AtRest
  <1>2. check' = [check EXCEPT ![c] = k]
    BY DEF End
  <1> HIDE DEF k
  <1> QED BY <1>1, <1>2, CheckMoves

LEMMA RecheckStep ==
  ASSUME WatchInv, NEW c \in Checks, Recheck(c)
  PROVE  WatchInv'
  <1> DEFINE k == [at |-> "saving", ledger |-> ledger, previous |-> check[c].previous, seen |-> market]
  <1>1. /\ check[c].at = "loading" /\ check[c] \in Loading
        /\ UNCHANGED <<ledger, market, observations, alerts, newAlerts, reported>>
    BY DEF Recheck, WatchInv, WatchTableInv, AtRest, Loading, Saving
  <1>2. k \in Saving /\ k.at = "saving" /\ k.previous = check[c].previous
    BY <1>1 DEF WatchInv, WatchTypeOK, Loading, Saving, Ledgers
  <1>3. Announced(check[c].previous.plan, alerts) /\ newAlerts[c] = {}
    BY <1>1 DEF WatchInv, AnnouncedInv, ReportInv
  <1>4. CASE check' = [check EXCEPT ![c] = k]
    <2> HIDE DEF k
    <2> QED BY <1>1, <1>2, <1>3, <1>4, CheckMoves
  <1>5. CASE End(c, "changed")
    BY <1>1, <1>3, <1>5, RestStep
  <1> QED BY <1>4, <1>5 DEF Recheck

LEMMA DiesStep ==
  ASSUME WatchInv, NEW c \in Checks, CheckDies(c)
  PROVE  WatchInv'
  BY RestStep DEF CheckDies

-----------------------------------------------------------------------------
(* The keys of an observation announce its plan, unless the one before has. *)
LEMMA KeysAnnounce ==
  ASSUME NEW l \in Ledgers, NEW bar, NEW previous \in Seen, Announced(previous.plan, alerts)
  PROVE  Announced(l.plan, alerts \cup Alerts(l, bar, previous))
  BY DEF Announced, Alerts, PlanAlerts

LEMMA ObservedStep ==
  ASSUME NEW l \in Ledgers, NEW bar \in Bars
  PROVE  Observation(l, bar) \in Seen /\ Observation(l, bar).plan = l.plan
  BY DEF Observation, SignalSeen, Seen, Ledgers, Bars

LEMMA SaveStep ==
  ASSUME WatchInv, NEW c \in Checks, Save(c)
  PROVE  WatchInv'
  <1> USE DEF WatchInv
  <1> DEFINE k == check[c]
             keys == Alerts(k.ledger, k.seen, k.previous)
             o == Observation(k.ledger, k.seen)
  <1>1. /\ k.at = "saving" /\ k \in Saving
        /\ k.ledger \in Ledgers /\ k.previous \in Seen /\ k.seen \in Bars
    BY DEF Save, WatchTableInv, AtRest, Loading, Saving
  <1>2. /\ observations' = Append(observations, o)
        /\ alerts' = alerts \cup keys
        /\ newAlerts' = [newAlerts EXCEPT ![c] = keys \ alerts]
        /\ check' = [check EXCEPT ![c] = [at |-> "saved"]]
        /\ UNCHANGED <<ledger, market, reported>>
    BY DEF Save, Insert, End
  <1>3. o \in Seen /\ o.plan = k.ledger.plan
    BY <1>1, ObservedStep
  <1>4. Announced(k.previous.plan, alerts)
    BY <1>1 DEF AnnouncedInv
  <1>5. Announced(o.plan, alerts')
    BY <1>1, <1>2, <1>3, <1>4, KeysAnnounce
  <1>6. \A n : Announced(n, alerts) => Announced(n, alerts')
    BY <1>2 DEF Announced
  <1> HIDE DEF keys, o
  <1>7. [at |-> "saved"] \in AtRest /\ [at |-> "saved"].at = "saved"
    BY DEF AtRest
  <1>8. /\ check' \in [Checks -> AtRest \cup Loading \cup Saving] /\ check'[c].at = "saved"
        /\ \A d \in Checks : d # c => check'[d] = check[d]
    BY <1>2, <1>7 DEF WatchTableInv
  <1>9. /\ newAlerts[c] = {} /\ reported[c] = {} /\ newAlerts'[c] = keys \ alerts
        /\ newAlerts' \in [Checks -> SUBSET alerts'] /\ reported' \in [Checks -> SUBSET alerts']
        /\ \A d \in Checks : d # c => newAlerts'[d] = newAlerts[d] /\ newAlerts[d] \subseteq alerts
    BY <1>1, <1>2 DEF WatchTableInv, ReportInv
  <1>10. observations \in Seq(Seen)
    BY DEF WatchTypeOK, Seen
  <1>11. /\ observations' \in Seq(Seen)
         /\ \A i \in DOMAIN observations' : observations'[i] = o \/
              (i \in DOMAIN observations /\ observations'[i] = observations[i])
    <2>1. o \in Seen
      BY <1>3
    <2>2. observations' = Append(observations, o)
      BY <1>2
    <2>3. /\ observations' \in Seq(Seen)
          /\ Len(observations') = Len(observations) + 1
          /\ \A i \in 1..Len(observations) : observations'[i] = observations[i]
          /\ observations'[Len(observations) + 1] = o
      BY <1>10, <2>1, <2>2, AppendProperties
    <2>4. Len(observations) \in Nat /\ DOMAIN observations = 1..Len(observations)
      BY <1>10, LenProperties
    <2>5. DOMAIN observations' = 1..Len(observations')
      BY <2>3, LenProperties
    <2>6. ASSUME NEW i \in DOMAIN observations', i # Len(observations) + 1
          PROVE  i \in DOMAIN observations
      BY <2>3, <2>4, <2>5, <2>6
    <2> QED BY <2>3, <2>4, <2>6
  <1>12. WatchTypeOK' /\ WatchTableInv'
    <2>1. \A d \in Checks : check'[d].at \in {"new", "loading", "saving", "saved", "changed", "done", "dead"}
      BY <1>8 DEF AtRest, Loading, Saving
    <2> QED BY <1>2, <1>8, <1>9, <1>11, <2>1 DEF WatchTypeOK, WatchTableInv, Seen
  <1>13. AnnouncedInv'
    BY <1>5, <1>6, <1>8, <1>11 DEF AnnouncedInv
  <1>14. ReportInv'
    BY <1>2, <1>8, <1>9 DEF ReportInv
  <1> QED BY <1>12, <1>13, <1>14

-----------------------------------------------------------------------------
LEMMA ReturnStep ==
  ASSUME WatchInv, NEW c \in Checks, Return(c)
  PROVE  WatchInv'
  <1> USE DEF WatchInv
  <1>1. /\ check[c].at = "saved" /\ check' = [check EXCEPT ![c] = [at |-> "done"]]
        /\ reported' = [reported EXCEPT ![c] = newAlerts[c]]
        /\ UNCHANGED <<ledger, market, observations, alerts, newAlerts>>
    BY DEF Return, End
  <1>2. [at |-> "done"] \in AtRest /\ [at |-> "done"].at = "done"
    BY DEF AtRest
  <1>3. /\ check' \in [Checks -> AtRest \cup Loading \cup Saving] /\ check'[c].at = "done"
        /\ \A d \in Checks : d # c => check'[d] = check[d]
    BY <1>1, <1>2 DEF WatchTableInv
  <1>4. /\ reported' \in [Checks -> SUBSET alerts'] /\ reported'[c] = newAlerts[c]
        /\ \A d \in Checks : d # c => reported'[d] = reported[d]
    BY <1>1 DEF WatchTableInv
  <1>5. WatchTypeOK' /\ WatchTableInv'
    <2>1. \A d \in Checks : check'[d].at \in {"new", "loading", "saving", "saved", "changed", "done", "dead"}
      BY <1>3 DEF AtRest, Loading, Saving
    <2> QED BY <1>1, <1>3, <1>4, <2>1 DEF WatchTypeOK, WatchTableInv
  <1>6. AnnouncedInv'
    BY <1>1, <1>3 DEF AnnouncedInv
  <1>7. ReportInv'
    BY <1>1, <1>3, <1>4 DEF ReportInv
  <1> QED BY <1>5, <1>6, <1>7

LEMMA WorldStep ==
  ASSUME WatchInv, SavePlan \/ RecordTrade \/ CloseSession
  PROVE  WatchInv'
  <1>1. UNCHANGED <<check, observations, alerts, newAlerts, reported>>
    BY DEF SavePlan, RecordTrade, CloseSession
  <1>2. /\ ledger \in Ledgers /\ market \in Bars
        /\ ledger.trades \in 0..MaxTrades /\ ledger.plan \in 0..MaxPlans /\ ledger.fresh \in BOOLEAN
    BY DEF WatchInv, WatchTypeOK, Ledgers
  <1>3. ledger' \in Ledgers
    <2>1. CASE SavePlan
      <3>1. ledger.plan + 1 \in 0..MaxPlans
        BY <1>2, <2>1, WatchAssumption DEF SavePlan
      <3> QED BY <1>2, <2>1, <3>1 DEF SavePlan, Ledgers
    <2>2. CASE RecordTrade
      <3>1. ledger.trades + 1 \in 0..MaxTrades
        BY <1>2, <2>2, WatchAssumption DEF RecordTrade
      <3> QED BY <1>2, <2>2, <3>1 DEF RecordTrade, Ledgers
    <2>3. CASE CloseSession
      BY <1>2, <2>3 DEF CloseSession
    <2> QED BY <2>1, <2>2, <2>3
  <1>4. market' \in Bars
    BY <1>2 DEF SavePlan, RecordTrade, CloseSession
  <1>5. WatchTypeOK'
    BY <1>1, <1>3, <1>4 DEF WatchInv, WatchTypeOK, Ledgers
  <1>6. WatchTableInv' /\ AnnouncedInv' /\ ReportInv'
    BY <1>1 DEF WatchInv, WatchTableInv, AnnouncedInv, ReportInv
  <1> QED BY <1>5, <1>6 DEF WatchInv

LEMMA NextWatchInv == WatchInv /\ [WatchNext]_watchVars => WatchInv'
  <1> SUFFICES ASSUME WatchInv, [WatchNext]_watchVars PROVE WatchInv'
    OBVIOUS
  <1>1. CASE UNCHANGED watchVars
    BY <1>1 DEF WatchInv, WatchTypeOK, WatchTableInv, AnnouncedInv, ReportInv, watchVars
  <1>2. CASE WatchNext
    BY <1>2, ReadStep, RecheckStep, SaveStep, ReturnStep, DiesStep, WorldStep DEF WatchNext
  <1> QED BY <1>1, <1>2

(* What the invariant says of the alerts nobody was told.                   *)
LEMMA WatchKeeps ==
  ASSUME WatchInv
  PROVE  PlansAnnouncedOnce
  <1>1. \A i \in DOMAIN observations : observations[i].plan > 0 =>
          <<"plan_changed", observations[i].plan>> \in alerts
    BY DEF WatchInv, AnnouncedInv, Announced
  <1>2. \A c, d \in Checks : c # d => reported[c] \cap reported[d] = {}
    BY DEF WatchInv, ReportInv
  <1>3. ASSUME NEW k \in alerts, \A c \in Checks : k \notin reported[c]
        PROVE  \E c \in Checks : check[c].at \in {"saved", "dead"} /\ k \in newAlerts[c]
    <2>1. PICK c \in Checks : k \in newAlerts[c]
      BY DEF WatchInv, ReportInv
    <2>2. check[c].at \in {"saved", "dead"}
      BY <1>3, <2>1 DEF WatchInv, ReportInv, WatchTypeOK
    <2> QED BY <2>1, <2>2
  <1> QED BY <1>1, <1>2, <1>3 DEF PlansAnnouncedOnce

LEMMA AlwaysWatchInv == WatchSpec => []WatchInv
  BY InitWatchInv, NextWatchInv, PTL DEF WatchSpec

-----------------------------------------------------------------------------
(* The shape of the watcher's tables and checks.                            *)
THEOREM WatchTypeCorrect == WatchSpec => []WatchTypeOK
  <1>1. WatchInv => WatchTypeOK
    BY DEF WatchInv
  <1> QED BY AlwaysWatchInv, <1>1, PTL

(* A plan any check has observed has been announced, however checks overlap *)
(* and die between the read of the last observation and the save; no alert  *)
(* is returned as new by two checks, and an alert that none has returned    *)
(* was stored by a check that is about to return or died after its commit   *)
(* (market_watcher.py:312, 369).                                            *)
THEOREM PlansAreAnnouncedOnce == WatchSpec => []PlansAnnouncedOnce
  <1>1. WatchInv => PlansAnnouncedOnce
    BY WatchKeeps
  <1> QED BY AlwaysWatchInv, <1>1, PTL

-----------------------------------------------------------------------------
(* Theorems about ResearchGate: the inductive invariant says who holds the  *)
(* gate and that no request was sent at or after the next permitted moment. *)

Unasked == [at : {"new"}]
Opened_ == [at : {"waiting", "mapping", "answer", "done"}, kind : Kinds, ticker : Tickers,
          reply : {"none", "sent", "ok", "fail", "cancelled"}]
GateTableInv == fetch \in [Fetchers -> Unasked \cup Opened_]

(* The holder of the gate is the one request past the wait for it.         *)
Inside(x) == x.at \in {"mapping", "answer"}
HolderInv ==
  /\ gate \in Fetchers \cup {"free"}
  /\ \A f \in Fetchers : Inside(fetch[f]) <=> gate = f

(* Every request was sent before the next may be; no two share a moment.   *)
SpacedInv ==
  /\ now \in Nat /\ nextRequest \in Nat /\ now <= Horizon /\ nextRequest <= now + 1
  /\ \A r \in sent : r[3] \in Nat /\ r[3] < nextRequest
  /\ \A r, s \in sent : r # s => r[3] # s[3]

CacheOK(c) ==
  /\ \A d, e \in c : d.key = e.key => d = e
  /\ \A e \in c : e.value \in {"ok", "fail"} /\ e.expiry \in Nat \ {0}

GateInv == GateTableInv /\ HolderInv /\ SpacedInv /\ CacheOK(cache)

-----------------------------------------------------------------------------
LEMMA InitGateInv == GateInit => GateInv
  <1> SUFFICES ASSUME GateInit PROVE GateInv
    OBVIOUS
  <1>1. GateTableInv
    BY DEF GateInit, GateTableInv, Unasked
  <1>2. HolderInv
    BY GateAssumption DEF GateInit, HolderInv, Inside
  <1>3. SpacedInv /\ CacheOK(cache)
    BY GateAssumption DEF GateInit, SpacedInv, CacheOK
  <1> QED BY <1>1, <1>2, <1>3 DEF GateInv

(* A cached answer replaces the one under its key.                         *)
LEMMA PutKeeps ==
  ASSUME NEW c, CacheOK(c), NEW key, NEW value \in {"ok", "fail"}, now \in Nat
  PROVE  CacheOK(Put(c, key, value))
  <1> DEFINE e == [key |-> key, value |-> value, expiry |-> now + Lifetime(key, value)]
  <1>1. Lifetime(key, value) \in Nat \ {0}
    BY GateAssumption DEF Lifetime
  <1>2. e.key = key /\ e.value = value /\ e.expiry \in Nat \ {0}
    BY <1>1
  <1>3. Put(c, key, value) = {d \in c : d.key # key} \cup {e}
    BY DEF Put
  <1> HIDE DEF e
  <1> QED BY <1>2, <1>3 DEF CacheOK

(* A move changes one request and keeps its stock.                         *)
LEMMA ProceedKeeps ==
  ASSUME GateTableInv, NEW f \in Fetchers, fetch[f].at # "new",
         NEW at \in {"waiting", "mapping", "answer", "done"},
         NEW reply \in {"none", "sent", "ok", "fail", "cancelled"}, Proceed(f, at, reply)
  PROVE  /\ GateTableInv'
         /\ fetch'[f].at = at
         /\ \A g \in Fetchers : g # f => fetch'[g] = fetch[g]
  <1> DEFINE x == [at |-> at, kind |-> fetch[f].kind, ticker |-> fetch[f].ticker, reply |-> reply]
  <1>1. fetch[f] \in Opened_
    BY DEF GateTableInv, Unasked
  <1>2. x \in Opened_ /\ x.at = at
    BY <1>1 DEF Opened_
  <1>3. fetch' = [fetch EXCEPT ![f] = x]
    BY DEF Proceed
  <1> HIDE DEF x
  <1> QED BY <1>2, <1>3 DEF GateTableInv

(* The request that ends gives back the gate if it holds it.               *)
LEMMA ReplyKeeps ==
  ASSUME GateTableInv, HolderInv, NEW f \in Fetchers, fetch[f].at # "new",
         NEW reply \in {"ok", "fail", "cancelled"}, Reply(f, reply)
  PROVE  GateTableInv' /\ HolderInv'
  <1>1. Proceed(f, "done", reply) /\ gate' = IF gate = f THEN "free" ELSE gate
    BY DEF Reply
  <1>2. /\ GateTableInv' /\ fetch'[f].at = "done"
        /\ \A g \in Fetchers : g # f => fetch'[g] = fetch[g]
    BY <1>1, ProceedKeeps
  <1>3. HolderInv'
    BY <1>1, <1>2, GateAssumption DEF HolderInv, Inside
  <1> QED BY <1>2, <1>3

(* The request that takes or keeps the gate is inside it.                  *)
LEMMA HoldKeeps ==
  ASSUME GateTableInv, HolderInv, NEW f \in Fetchers, fetch[f].at # "new",
         gate \in {"free", f}, gate' = f,
         NEW at \in {"mapping", "answer"}, NEW reply \in {"none", "sent"}, Proceed(f, at, reply)
  PROVE  GateTableInv' /\ HolderInv'
  <1>1. /\ GateTableInv' /\ fetch'[f].at = at
        /\ \A g \in Fetchers : g # f => fetch'[g] = fetch[g]
    BY ProceedKeeps
  <1>2. HolderInv'
    BY <1>1, GateAssumption DEF HolderInv, Inside
  <1> QED BY <1>1, <1>2

LEMMA ClockKeeps == ASSUME SpacedInv, UNCHANGED <<now, nextRequest, sent>> PROVE SpacedInv'
  BY DEF SpacedInv

LEMMA CacheStays == ASSUME CacheOK(cache), UNCHANGED cache PROVE CacheOK(cache)'
  BY DEF CacheOK

-----------------------------------------------------------------------------
LEMMA AskStep ==
  ASSUME GateInv, NEW f \in Fetchers, NEW kind \in Kinds, NEW t \in Tickers, Ask(f, kind, t)
  PROVE  GateInv'
  <1> DEFINE x == [at |-> "waiting", kind |-> kind, ticker |-> t, reply |-> "none"]
  <1>1. /\ fetch' = [fetch EXCEPT ![f] = x] /\ fetch[f].at = "new"
        /\ UNCHANGED <<now, gate, cache, nextRequest, sent>>
    BY DEF Ask
  <1>2. x \in Opened_ /\ x.at = "waiting"
    BY DEF Opened_
  <1> HIDE DEF x
  <1>3. GateTableInv'
    BY <1>1, <1>2 DEF GateInv, GateTableInv
  <1>4. HolderInv'
    BY <1>1, <1>2 DEF GateInv, GateTableInv, HolderInv, Inside
  <1> QED BY <1>1, <1>3, <1>4, ClockKeeps, CacheStays DEF GateInv

LEMMA EnterStep == ASSUME GateInv, NEW f \in Fetchers, Enter(f) PROVE GateInv'
  <1>1. /\ GateTableInv /\ HolderInv /\ CacheOK(cache) /\ now \in Nat
        /\ SpacedInv'
    BY ClockKeeps DEF GateInv, Enter, SpacedInv
  <1>2. fetch[f].at = "waiting" /\ gate = "free"
    BY DEF Enter
  <1>3. CASE Cached(Key(f)) # {}
    <2>1. CachedValue(Key(f)) \in {"ok", "fail"}
      BY <1>1, <1>3 DEF CachedValue, Cached, CacheOK
    <2>2. Reply(f, CachedValue(Key(f))) /\ UNCHANGED cache
      BY <1>3 DEF Enter
    <2>3. GateTableInv' /\ HolderInv'
      BY <1>1, <1>2, <2>1, <2>2, ReplyKeeps
    <2> QED BY <1>1, <2>2, <2>3, CacheStays DEF GateInv
  <1>4. CASE Cached(Key(f)) = {} /\ (NeedsMapping(f) \/ Mapped)
    <2>1. PICK at \in {"mapping", "answer"} : Proceed(f, at, "none")
      BY <1>4 DEF Enter
    <2>2. gate' = f /\ UNCHANGED cache
      BY <1>4 DEF Enter
    <2>3. GateTableInv' /\ HolderInv'
      BY <1>1, <1>2, <2>1, <2>2, HoldKeeps
    <2> QED BY <1>1, <2>2, <2>3, CacheStays DEF GateInv
  <1>5. CASE Cached(Key(f)) = {} /\ ~(NeedsMapping(f) \/ Mapped)
    <2>1. /\ Reply(f, "fail")
          /\ cache' = IF fetch[f].kind = "filings" THEN Put(cache, Key(f), "fail") ELSE cache
      BY <1>5 DEF Enter
    <2>2. GateTableInv' /\ HolderInv'
      BY <1>1, <1>2, <2>1, ReplyKeeps
    <2>3. CacheOK(Put(cache, Key(f), "fail"))
      BY <1>1, PutKeeps
    <2>4. CacheOK(cache)'
      BY <1>1, <2>1, <2>3 DEF CacheOK
    <2> QED BY <1>1, <2>2, <2>4 DEF GateInv
  <1> QED BY <1>3, <1>4, <1>5

LEMMA GateSendStep == ASSUME GateInv, NEW f \in Fetchers, Send(f) PROVE GateInv'
  <1> DEFINE r == <<f, fetch[f].at, now>>
  <1>1. /\ Proceed(f, fetch[f].at, "sent") /\ fetch[f].at \in {"mapping", "answer"}
        /\ now >= nextRequest /\ nextRequest' = now + 1 /\ sent' = sent \cup {r}
        /\ UNCHANGED <<now, gate, cache>>
    BY DEF Send, Sending
  <1>2. gate = f
    BY <1>1 DEF GateInv, HolderInv, Inside
  <1>3. GateTableInv' /\ HolderInv'
    BY <1>1, <1>2, HoldKeeps DEF GateInv
  <1>4. r[3] = now
    OBVIOUS
  <1> HIDE DEF r
  <1>5. SpacedInv'
    <2>1. /\ now \in Nat /\ nextRequest \in Nat /\ now <= Horizon
          /\ \A q \in sent : q[3] \in Nat /\ q[3] < nextRequest
          /\ \A q, s \in sent : q # s => q[3] # s[3]
      BY DEF GateInv, SpacedInv
    <2>2. \A q \in sent : q[3] \in Nat /\ q[3] < now
      BY <1>1, <2>1
    <2>3. \A q \in sent' : q[3] \in Nat /\ q[3] < nextRequest'
      BY <1>1, <1>4, <2>1, <2>2
    <2>4. \A q, s \in sent' : q # s => q[3] # s[3]
      BY <1>1, <1>4, <2>1, <2>2
    <2>5. now' \in Nat /\ nextRequest' \in Nat /\ now' <= Horizon /\ nextRequest' <= now' + 1
      BY <1>1, <2>1
    <2> QED BY <2>3, <2>4, <2>5 DEF SpacedInv
  <1>6. CacheOK(cache)'
    BY <1>1, CacheStays DEF GateInv
  <1> QED BY <1>3, <1>5, <1>6 DEF GateInv

LEMMA MappingStep ==
  ASSUME GateInv, NEW f \in Fetchers, NEW value \in {"ok", "fail"}, MappingArrives(f, value)
  PROVE  GateInv'
  <1>1. /\ GateTableInv /\ HolderInv /\ CacheOK(cache) /\ now \in Nat
        /\ SpacedInv'
    BY ClockKeeps DEF GateInv, MappingArrives, SpacedInv
  <1>2. fetch[f].at = "mapping" /\ gate = f
    BY DEF MappingArrives, GateInv, HolderInv, Inside
  <1>3. CASE value = "ok"
    <2>1. cache' = Put(cache, MappingKey, "ok") /\ Proceed(f, "answer", "none") /\ UNCHANGED gate
      BY <1>3 DEF MappingArrives
    <2>2. GateTableInv' /\ HolderInv'
      BY <1>1, <1>2, <2>1, HoldKeeps
    <2>3. CacheOK(Put(cache, MappingKey, "ok"))
      BY <1>1, PutKeeps
    <2>4. CacheOK(cache)'
      BY <2>1, <2>3 DEF CacheOK
    <2> QED BY <1>1, <2>2, <2>4 DEF GateInv
  <1>4. CASE value # "ok"
    <2>1. cache' = MappingLost(f) /\ Reply(f, "fail")
      BY <1>4 DEF MappingArrives
    <2>2. GateTableInv' /\ HolderInv'
      BY <1>1, <1>2, <2>1, ReplyKeeps
    <2>3. CacheOK(Put(cache, MappingKey, "fail"))
      BY <1>1, PutKeeps
    <2>4. CacheOK(MappingLost(f))
      BY <1>1, <2>3, PutKeeps DEF MappingLost
    <2>5. CacheOK(cache)'
      BY <2>1, <2>4 DEF CacheOK
    <2> QED BY <1>1, <2>2, <2>5 DEF GateInv
  <1> QED BY <1>3, <1>4

LEMMA AnswerStep ==
  ASSUME GateInv, NEW f \in Fetchers, NEW value \in {"ok", "fail"}, AnswerArrives(f, value)
  PROVE  GateInv'
  <1> DEFINE profiled == IF value = "ok" /\ fetch[f].kind = "filings"
                         THEN Put(cache, <<"profile", fetch[f].ticker>>, "ok") ELSE cache
  <1>1. /\ GateTableInv /\ HolderInv /\ CacheOK(cache) /\ now \in Nat
        /\ SpacedInv'
    BY ClockKeeps DEF GateInv, AnswerArrives, SpacedInv
  <1>2. /\ fetch[f].at = "answer" /\ Reply(f, value)
        /\ cache' = Put(profiled, Key(f), value)
    BY DEF AnswerArrives
  <1>3. GateTableInv' /\ HolderInv'
    BY <1>1, <1>2, ReplyKeeps
  <1>4. CacheOK(Put(cache, <<"profile", fetch[f].ticker>>, "ok"))
    BY <1>1, PutKeeps
  <1>5. CacheOK(profiled)
    BY <1>1, <1>4
  <1> HIDE DEF profiled
  <1>6. CacheOK(Put(profiled, Key(f), value))
    BY <1>1, <1>5, PutKeeps
  <1>7. CacheOK(cache)'
    BY <1>2, <1>6 DEF CacheOK
  <1> QED BY <1>1, <1>3, <1>7 DEF GateInv

LEMMA CancelStep == ASSUME GateInv, NEW f \in Fetchers, Cancel(f) PROVE GateInv'
  <1>1. /\ GateTableInv /\ HolderInv /\ CacheOK(cache) /\ now \in Nat
        /\ SpacedInv'
    BY ClockKeeps DEF GateInv, Cancel, SpacedInv
  <1>2. fetch[f].at \in {"waiting", "mapping", "answer"} /\ Reply(f, "cancelled")
    BY DEF Cancel, Awaiting
  <1>3. GateTableInv' /\ HolderInv'
    BY <1>1, <1>2, ReplyKeeps
  <1>4. CacheOK(Put(cache, Key(f), "fail")) /\ CacheOK(Put(cache, MappingKey, "fail"))
    BY <1>1, PutKeeps
  <1>5. CacheOK(MappingLost(f))
    BY <1>1, <1>4, PutKeeps DEF MappingLost
  <1>6. cache' \in {cache, Put(cache, Key(f), "fail"), MappingLost(f)}
    BY <1>2 DEF Cancel
  <1>7. CacheOK(cache)'
    BY <1>1, <1>4, <1>5, <1>6 DEF CacheOK
  <1> QED BY <1>1, <1>3, <1>7 DEF GateInv

LEMMA TickStep == ASSUME GateInv, Tick PROVE GateInv'
  <1>1. now < Horizon /\ now' = now + 1 /\ UNCHANGED <<gate, cache, nextRequest, fetch, sent>>
    BY DEF Tick
  <1>2. SpacedInv'
    BY <1>1, GateAssumption DEF GateInv, SpacedInv
  <1>3. GateTableInv' /\ HolderInv'
    BY <1>1 DEF GateInv, GateTableInv, HolderInv
  <1> QED BY <1>1, <1>2, <1>3, CacheStays DEF GateInv

LEMMA NextGateInv == GateInv /\ [GateNext]_gateVars => GateInv'
  <1> SUFFICES ASSUME GateInv, [GateNext]_gateVars PROVE GateInv'
    OBVIOUS
  <1>1. CASE UNCHANGED gateVars
    BY <1>1 DEF GateInv, GateTableInv, HolderInv, SpacedInv, CacheOK, gateVars
  <1>2. CASE GateNext
    BY <1>2, AskStep, EnterStep, GateSendStep, MappingStep, AnswerStep, CancelStep, TickStep
    DEF GateNext
  <1> QED BY <1>1, <1>2

LEMMA AlwaysGateInv == GateSpec => []GateInv
  BY InitGateInv, NextGateInv, PTL DEF GateSpec

-----------------------------------------------------------------------------
(* The shape of the research state: a key has one cached answer.           *)
THEOREM GateTypeCorrect == GateSpec => []GateTypeOK
  <1>1. GateInv => GateTypeOK
    BY GateAssumption DEF GateInv, GateTypeOK, HolderInv, SpacedInv, CacheOK
  <1> QED BY AlwaysGateInv, <1>1, PTL

(* However requests fail, time out or disconnect, two provider requests    *)
(* are never closer than the spacing, and only the gate's holder has one   *)
(* under way (external_research.py, _json and _sec).                       *)
THEOREM RequestsAreSpaced == GateSpec => []ProviderSpaced
  <1>1. GateInv => ProviderSpaced
    BY DEF GateInv, ProviderSpaced, HolderInv, SpacedInv, Inside
  <1> QED BY AlwaysGateInv, <1>1, PTL

-----------------------------------------------------------------------------
AllDays == 1..CacheDays

(* A recorded failure; of one range of a ticker there is one.               *)
Miss == [ticker : Symbols_, days : SUBSET AllDays, live : {r.live : r \in Requests}, age : Nat]
OneRecord(records) ==
  \A m, n \in records : m.ticker = n.ticker /\ m.days = n.days /\ m.live = n.live => m = n

(* What a load carries until it ends.                                       *)
LoadOK ==
  /\ load = [stage |-> load.stage, request |-> load.request, left |-> load.left,
             manifest |-> load.manifest, misses |-> load.misses, answer |-> load.answer]
  /\ load.request \in Requests
  /\ load.manifest \in [Symbols_ -> SUBSET AllDays]
  /\ load.misses \subseteq Miss /\ OneRecord(load.misses)
  /\ \A m \in load.misses : m.live = load.request.live

(* An answer that came from the cache alone covers its listed range.        *)
CacheOnly(a) == ~a.asked /\ ~a.manual /\ a.reported = {}
NoHole(t, rows) == MissingRows(rows, ListedRange(t, RequestDays)) = {}
AnswersAreWhole ==
  load.request.whole =>
    \A t \in DOMAIN load.answer : CacheOnly(load.answer[t]) => NoHole(t, load.answer[t].rows)

CacheInv ==
  /\ CacheTypeOK /\ misses \subseteq Miss
  /\ load.stage # "none" => LoadOK /\ AnswersAreWhole

-----------------------------------------------------------------------------
(* Ranges                                                                   *)

LEMMA FirstIs ==
  ASSUME NEW S, S \subseteq Nat, S # {}
  PROVE  First_(S) \in S /\ \A e \in S : First_(S) <= e
  <1>1. \E d \in S : \A e \in S : d <= e
    BY LeastExists
  <1> QED BY <1>1 DEF First_

LEMMA LastIs ==
  ASSUME NEW n \in Nat, NEW S, S \subseteq 1..n, S # {}
  PROVE  Last_(S) \in S /\ \A e \in S : Last_(S) >= e
  <1>1. S \subseteq Nat /\ \A e \in S : e <= n
    OBVIOUS
  <1>2. \E d \in S : \A e \in S : e <= d
    BY <1>1, GreatestExists
  <1>3. \E d \in S : \A e \in S : d >= e
    BY <1>1, <1>2
  <1> QED BY <1>3 DEF Last_

(* The first and the last day of a set of days bound it.                    *)
LEMMA Bounded ==
  ASSUME NEW n \in Nat, NEW S, S \subseteq 1..n, S # {}
  PROVE  /\ First_(S) \in S /\ Last_(S) \in S /\ S \subseteq First_(S)..Last_(S)
         /\ First_(S)..Last_(S) \subseteq 1..n
  <1>1. S \subseteq Nat
    OBVIOUS
  <1>2. First_(S) \in S /\ \A e \in S : First_(S) <= e
    BY <1>1, FirstIs
  <1>3. Last_(S) \in S /\ \A e \in S : Last_(S) >= e
    BY LastIs
  <1> DEFINE f == First_(S)
             l == Last_(S)
  <1>4. f \in 1..n /\ l \in 1..n
    BY <1>2, <1>3
  <1> HIDE DEF f, l
  <1>5. f..l \subseteq 1..n
    BY <1>4
  <1>6. \A e \in S : f <= e /\ e <= l /\ e \in Nat
    BY <1>1, <1>2, <1>3, <1>4 DEF f, l
  <1>7. S \subseteq f..l
    BY <1>4, <1>6
  <1> QED BY <1>2, <1>3, <1>5, <1>7 DEF f, l

LEMMA SpanWithin ==
  ASSUME NEW n \in Nat, NEW S, S \subseteq 1..n
  PROVE  Span(S) \subseteq 1..n
  BY Bounded DEF Span

(* Every day of a set lies in one of its ranges.                            *)
LEMMA RangesCover ==
  ASSUME NEW n \in Nat, NEW days, days \subseteq 1..n
  PROVE  /\ \A r \in Ranges(days) : r \subseteq 1..n
         /\ \A d \in days : \E r \in Ranges(days) : d \in r
  <1> DEFINE Run(d) == {e \in days : (d..e) \cup (e..d) \subseteq days}
  <1>1. Ranges(days) = {First_(r)..Last_(r) : r \in {Run(d) : d \in days}}
    BY DEF Ranges
  <1>2. \A d \in days : d \in Run(d) /\ Run(d) \subseteq 1..n
    <2> SUFFICES ASSUME NEW d \in days PROVE d \in Run(d) /\ Run(d) \subseteq 1..n
      OBVIOUS
    <2>1. d \in Nat /\ d..d = {d}
      OBVIOUS
    <2> QED BY <2>1
  <1> HIDE DEF Run
  <1>3. \A d \in days : d \in First_(Run(d))..Last_(Run(d)) /\ First_(Run(d))..Last_(Run(d)) \subseteq 1..n
    <2> SUFFICES ASSUME NEW d \in days
                 PROVE  /\ d \in First_(Run(d))..Last_(Run(d))
                        /\ First_(Run(d))..Last_(Run(d)) \subseteq 1..n
      OBVIOUS
    <2>1. Run(d) # {} /\ Run(d) \subseteq 1..n /\ d \in Run(d)
      BY <1>2
    <2>2. Run(d) \subseteq First_(Run(d))..Last_(Run(d)) /\ First_(Run(d))..Last_(Run(d)) \subseteq 1..n
      BY <2>1, Bounded
    <2> QED BY <2>1, <2>2
  <1> QED BY <1>1, <1>3

(* What rows miss of a range depends on the rows inside it, and is part of  *)
(* it.                                                                      *)
Holes(found, range) ==
  LET hole(a, b) == IF b - a > Gap THEN a + 1..b - 1 ELSE {}
      before == IF First_(found) - First_(range) > Gap THEN First_(range)..First_(found) - 1 ELSE {}
      after == IF Last_(range) - Last_(found) > Gap THEN Last_(found) + 1..Last_(range) ELSE {}
      next(d) == First_({e \in found : e > d})
  IN IF range = {} \/ found = {} THEN range
     ELSE before \cup after \cup UNION {hole(d, next(d)) : d \in found \ {Last_(found)}}

LEMMA MissingAreHoles ==
  ASSUME NEW rows, NEW range
  PROVE  MissingRows(rows, range) = Holes(rows \cap range, range)
  BY DEF MissingRows, Holes

LEMMA MissingOfInside ==
  ASSUME NEW rows, NEW range, NEW days, range \subseteq days
  PROVE  MissingRows(rows \cap days, range) = MissingRows(rows, range)
  <1>1. (rows \cap days) \cap range = rows \cap range
    OBVIOUS
  <1> QED BY <1>1, MissingAreHoles

LEMMA MissingWithin ==
  ASSUME NEW n \in Nat, NEW range, range \subseteq 1..n,
         \A a, b \in range : a..b \subseteq range, NEW rows
  PROVE  MissingRows(rows, range) \subseteq range
  <1> DEFINE found == rows \cap range
             hole(a, b) == IF b - a > Gap THEN a + 1..b - 1 ELSE {}
             next(d) == First_({e \in found : e > d})
             before == IF First_(found) - First_(range) > Gap
                       THEN First_(range)..First_(found) - 1 ELSE {}
             after == IF Last_(range) - Last_(found) > Gap
                      THEN Last_(found) + 1..Last_(range) ELSE {}
  <1>1. CASE range = {} \/ found = {}
    BY <1>1 DEF MissingRows
  <1>2. CASE range # {} /\ found # {}
    <2>1. found \subseteq range /\ found \subseteq 1..n
      OBVIOUS
    <2>2. /\ First_(found) \in range /\ Last_(found) \in range
          /\ First_(range) \in range /\ Last_(range) \in range
      <3> HIDE DEF found
      <3> QED BY <1>2, <2>1, Bounded
    <2>3. \A a, b \in range : (a..b - 1) \subseteq range /\ (a + 1..b) \subseteq range
                              /\ hole(a, b) \subseteq range
      <3> HIDE DEF found
      <3> SUFFICES ASSUME NEW a \in range, NEW b \in range
                   PROVE  (a..b - 1) \subseteq range /\ (a + 1..b) \subseteq range
                          /\ hole(a, b) \subseteq range
        OBVIOUS
      <3>1. a \in Nat /\ b \in Nat /\ a..b \subseteq range
        OBVIOUS
      <3>2. a..b - 1 \subseteq a..b /\ a + 1..b \subseteq a..b /\ a + 1..b - 1 \subseteq a..b
        BY <3>1
      <3> QED BY <3>1, <3>2
    <2>4. before \subseteq range /\ after \subseteq range
      BY <2>2, <2>3
    <2>5. \A d \in found \ {Last_(found)} : hole(d, next(d)) \subseteq range
      <3> SUFFICES ASSUME NEW d \in found \ {Last_(found)} PROVE hole(d, next(d)) \subseteq range
        OBVIOUS
      <3> DEFINE later == {e \in found : e > d}
      <3>1. Last_(found) \in found /\ Last_(found) >= d
        <4> HIDE DEF found
        <4> QED BY <1>2, <2>1, LastIs
      <3>2. later \subseteq Nat /\ later # {}
        <4>1. d \in Nat /\ Last_(found) \in Nat /\ Last_(found) # d
          BY <2>1, <3>1
        <4>2. Last_(found) \in later
          BY <3>1, <4>1
        <4> QED BY <2>1, <4>2
      <3>3. next(d) \in later
        <4> HIDE DEF later
        <4>1. First_(later) \in later
          BY <3>2, FirstIs
        <4> QED BY <4>1 DEF later
      <3>4. next(d) \in range /\ d \in range
        BY <2>1, <3>3
      <3> QED BY <2>3, <3>4
    <2>6. MissingRows(rows, range)
            = before \cup after \cup UNION {hole(d, next(d)) : d \in found \ {Last_(found)}}
      BY <1>2 DEF MissingRows
    <2> HIDE DEF before, after, hole, next, found
    <2> QED BY <2>4, <2>5, <2>6
  <1> QED BY <1>1, <1>2

LEMMA TrimmedWithin ==
  ASSUME NEW n \in Nat, NEW claim, claim \subseteq 1..n, NEW rows, rows \subseteq 1..n
  PROVE  Trimmed(claim, rows) \subseteq 1..n
  <1>1. CASE claim = {} \/ rows = {}
    BY <1>1 DEF Trimmed
  <1>2. CASE claim # {} /\ rows # {}
    <2>1. /\ First_(claim) \in 1..n /\ Last_(claim) \in 1..n
          /\ First_(rows) \in 1..n /\ Last_(rows) \in 1..n
      BY <1>2, Bounded
    <2>2. \E a, b \in 1..n : Trimmed(claim, rows) = a..b
      BY <1>2, <2>1 DEF Trimmed
    <2> QED BY <2>2
  <1> QED BY <1>1, <1>2

-----------------------------------------------------------------------------
(* One ticker of a load                                                     *)

LEMMA RequestFacts ==
  ASSUME LoadOK, NEW t \in Symbols_
  PROVE  /\ CacheDays \in Nat /\ RequestDays \subseteq AllDays
         /\ \A days : ListedRange(t, days) \subseteq AllDays /\ ListedRange(t, days) \subseteq days
         /\ \A a, b \in ListedRange(t, RequestDays) : a..b \subseteq ListedRange(t, RequestDays)
         /\ load.request.live \in {r.live : r \in Requests}
  <1> DEFINE q == load.request
             f == Listed[t][1]
             l == Listed[t][2]
  <1>1. CacheDays \in Nat /\ q \in Requests
    BY CacheAssumption DEF LoadOK
  <1>2. q.from \in 1..CacheDays /\ q.to \in q.from..CacheDays
    BY <1>1, CacheAssumption
  <1>3. f \in 1..CacheDays /\ l \in f..CacheDays
    BY CacheAssumption
  <1>4. RequestDays = q.from..q.to /\ \A days : ListedRange(t, days) = days \cap (f..l)
    BY DEF RequestDays, ListedRange
  <1>5. q.live \in {r.live : r \in Requests}
    BY <1>1
  <1> HIDE DEF q, f, l
  <1>6. RequestDays \subseteq AllDays /\ f..l \subseteq AllDays
    BY <1>1, <1>2, <1>3, <1>4 DEF AllDays
  <1>7. \A a, b \in RequestDays \cap (f..l) : a..b \subseteq RequestDays \cap (f..l)
    BY <1>1, <1>2, <1>3, <1>4
  <1>8. \A days : ListedRange(t, days) \subseteq AllDays /\ ListedRange(t, days) \subseteq days
    BY <1>4, <1>6
  <1>9. ListedRange(t, RequestDays) = RequestDays \cap (f..l)
    BY <1>4
  <1>10. \A a, b \in ListedRange(t, RequestDays) : a..b \subseteq ListedRange(t, RequestDays)
    BY <1>7, <1>9
  <1> QED BY <1>1, <1>5, <1>6, <1>8, <1>10 DEF q

(* What is wanted, asked and skipped lies in listed ranges.                 *)
LEMMA WantedWithin ==
  ASSUME LoadOK, NEW t \in Symbols_, NEW cached
  PROVE  /\ \A r \in Wanted(t, cached) : r \subseteq AllDays /\ r # {} /\ r \subseteq Listed[t][1]..Listed[t][2]
         /\ \A r \in Asked(t, cached) \cup Skipped(t, cached) : r \subseteq AllDays
         /\ \A r \in Wanted(t, cached) : \A k \in Known(t, r) : k # {} /\ k \subseteq r
  <1>1. CacheDays \in Nat
    BY CacheAssumption
  <1>2. ASSUME NEW r \in Wanted(t, cached)
        PROVE  r \subseteq AllDays /\ r # {} /\ r \subseteq Listed[t][1]..Listed[t][2]
    <2>1. r # {} /\ \E x : r = ListedRange(t, x)
      BY DEF Wanted
    <2> QED BY <2>1, RequestFacts DEF ListedRange
  <1>3. \A r \in Wanted(t, cached) : \A k \in Known(t, r) : k # {} /\ k \subseteq r
    BY DEF Known
  <1>4. ASSUME NEW a \in Asked(t, cached) PROVE a \subseteq AllDays
    <2>1. PICK r \in Wanted(t, cached) : a \in Ranges(r \ UNION Known(t, r))
      BY DEF Asked
    <2>2. r \ UNION Known(t, r) \subseteq AllDays
      BY <1>2
    <2> QED BY <1>1, <2>1, <2>2, RangesCover DEF AllDays
  <1>5. ASSUME NEW k \in Skipped(t, cached) PROVE k \subseteq AllDays
    BY <1>2, <1>3 DEF Skipped
  <1> QED BY <1>2, <1>3, <1>4, <1>5

LEMMA ResultFields ==
  ASSUME NEW t, NEW cached, NEW primary, NEW manual
  PROVE  LET wanted == Asked(t, cached)  skipped == Skipped(t, cached)
             lost == {r \in wanted : Fetched(r, primary, manual) = {}}
             stale == {r \in skipped : manual \cap r = {}}
             fetched == UNION {Fetched(r, primary, manual) : r \in wanted}
             result == LoadResult(t, cached, primary, manual)
         IN /\ result.rows = cached \cup fetched \cup (manual \cap UNION skipped)
            /\ result.asked <=> wanted # {}
            /\ result.lost = lost
            /\ result.manual <=> \/ \E r \in skipped : manual \cap r # {}
                                 \/ \E r \in wanted : primary \cap r = {} /\ manual \cap r # {}
            /\ result.reported = {r \in lost \cup stale : Required(t, r)}
  BY DEF LoadResult

(* A load of whole histories that asked nobody, took no manual file and     *)
(* reported nothing found every row it needs in the cache.                  *)
LEMMA SilentLoadIsWhole ==
  ASSUME LoadOK, load.request.whole, NEW t \in Symbols_, NEW cached, NEW primary, NEW manual,
         cached \subseteq AllDays, ~LoadResult(t, cached, primary, manual).asked,
         ~LoadResult(t, cached, primary, manual).manual,
         LoadResult(t, cached, primary, manual).reported = {}
  PROVE  NoHole(t, LoadResult(t, cached, primary, manual).rows \cap RequestDays)
  <1>1. CacheDays \in Nat
    BY CacheAssumption
  <1>2. Asked(t, cached) = {}
    BY ResultFields
  <1>3. \A r \in Skipped(t, cached) : manual \cap r = {}
    BY ResultFields
  <1>4. \A r \in Skipped(t, cached) : ~Required(t, r)
    BY <1>3, ResultFields
  <1>5. Skipped(t, cached) = {}
    <2> SUFFICES ASSUME NEW k \in Skipped(t, cached) PROVE FALSE
      OBVIOUS
    <2>1. PICK r \in Wanted(t, cached) : k \in Known(t, r)
      BY DEF Skipped
    <2>2. k # {} /\ k \subseteq r /\ r \subseteq Listed[t][1]..Listed[t][2]
      BY <2>1, WantedWithin
    <2>3. ListedRange(t, k) # {}
      BY <2>2 DEF ListedRange
    <2> QED BY <1>4, <2>3 DEF Required
  <1>6. Wanted(t, cached) = {}
    <2> SUFFICES ASSUME NEW r \in Wanted(t, cached) PROVE FALSE
      OBVIOUS
    <2>1. UNION Known(t, r) = {}
      BY <1>5 DEF Skipped
    <2>2. r # {} /\ r \subseteq AllDays /\ r \ UNION Known(t, r) = r
      BY <2>1, WantedWithin
    <2>3. Ranges(r) = {}
      BY <1>2, <2>2 DEF Asked
    <2>4. PICK d \in r : TRUE
      BY <2>2
    <2>5. \E x \in Ranges(r) : d \in x
      BY <1>1, <2>2, RangesCover DEF AllDays
    <2> QED BY <2>3, <2>5
  <1> DEFINE I == ListedRange(t, RequestDays)
             missing == MissingRows(cached, I)
             covered == Relied(t, cached)
             outside == IF covered = {} THEN RequestDays ELSE RequestDays \ covered
             days == outside \cup missing
  <1>7. Integrity(t) = I
    BY DEF Integrity
  <1>8. \A r \in Ranges(days) : ListedRange(t, r) = {}
    BY <1>6, <1>7 DEF Wanted
  <1>9. missing \subseteq I /\ I \subseteq RequestDays /\ I \subseteq AllDays /\ RequestDays \subseteq AllDays
    <2>1. I \subseteq RequestDays /\ I \subseteq AllDays /\ RequestDays \subseteq AllDays
          /\ \A a, b \in I : a..b \subseteq I
      BY RequestFacts
    <2> HIDE DEF I
    <2> QED BY <1>1, <2>1, MissingWithin DEF AllDays
  <1>10. days \subseteq AllDays /\ missing \subseteq Listed[t][1]..Listed[t][2]
    <2>1. I \subseteq Listed[t][1]..Listed[t][2]
      BY DEF ListedRange
    <2> HIDE DEF missing, covered, I
    <2> QED BY <1>9, <2>1
  <1>11. missing = {}
    <2> SUFFICES ASSUME NEW d \in missing PROVE FALSE
      OBVIOUS
    <2>1. d \in days
      OBVIOUS
    <2>2. PICK r \in Ranges(days) : d \in r
      <3> HIDE DEF days
      <3> QED BY <1>1, <1>10, <2>1, RangesCover DEF AllDays
    <2>3. d \in ListedRange(t, r)
      BY <1>10, <2>2 DEF ListedRange
    <2> QED BY <1>8, <2>2, <2>3
  <1>12. LoadResult(t, cached, primary, manual).rows = cached
    <2>1. LoadResult(t, cached, primary, manual).rows
            = cached \cup UNION {Fetched(r, primary, manual) : r \in Asked(t, cached)}
                \cup (manual \cap UNION Skipped(t, cached))
      BY ResultFields
    <2>2. {Fetched(r, primary, manual) : r \in Asked(t, cached)} = {} /\ UNION Skipped(t, cached) = {}
      BY <1>2, <1>5
    <2> QED BY <2>1, <2>2
  <1>13. MissingRows(cached \cap RequestDays, I) = missing
    <2> HIDE DEF I
    <2> QED BY <1>9, MissingOfInside
  <1> HIDE DEF I, missing
  <1> QED BY <1>11, <1>12, <1>13 DEF NoHole, I

(* What a loaded ticker leaves in the cache fits its shape.                 *)
LEMMA ResultWithin ==
  ASSUME LoadOK, NEW t \in Symbols_, NEW cached, cached \subseteq AllDays,
         NEW primary, NEW manual, NEW result, result = LoadResult(t, cached, primary, manual)
  PROVE  /\ result.rows \subseteq AllDays /\ result.lost \subseteq SUBSET AllDays
         /\ Claim(t, cached, result) \subseteq AllDays
  <1>1. \A r \in Asked(t, cached) \cup Skipped(t, cached) : r \subseteq AllDays
    BY WantedWithin
  <1>2. \A r \in Asked(t, cached) : Fetched(r, primary, manual) \subseteq AllDays
    BY <1>1 DEF Fetched
  <1>3. result.rows \subseteq AllDays
    <2> DEFINE fetched == UNION {Fetched(r, primary, manual) : r \in Asked(t, cached)}
               kept == UNION Skipped(t, cached)
    <2>1. fetched \subseteq AllDays /\ kept \subseteq AllDays
      BY <1>1, <1>2
    <2>2. LoadResult(t, cached, primary, manual).rows = cached \cup fetched \cup (manual \cap kept)
      BY ResultFields
    <2> HIDE DEF fetched, kept
    <2> QED BY <2>1, <2>2
  <1>4. result.lost \subseteq SUBSET AllDays
    <2>1. LoadResult(t, cached, primary, manual).lost
            = {r \in Asked(t, cached) : Fetched(r, primary, manual) = {}}
      BY ResultFields
    <2> QED BY <1>1, <2>1
  <1>5. CacheDays \in Nat /\ RequestDays \subseteq 1..CacheDays /\ load.manifest[t] \subseteq 1..CacheDays
        /\ result.rows \subseteq 1..CacheDays /\ cached \subseteq 1..CacheDays
    BY <1>3, RequestFacts DEF LoadOK, AllDays
  <1>6. Trimmed(load.manifest[t], cached) \subseteq 1..CacheDays
    BY <1>5, TrimmedWithin
  <1>7. Relied(t, cached) \subseteq 1..CacheDays
    BY <1>6 DEF Relied
  <1>8. Span(RequestDays \cup Relied(t, cached)) \subseteq 1..CacheDays
    <2>1. RequestDays \cup Relied(t, cached) \subseteq 1..CacheDays
      BY <1>5, <1>7
    <2> QED BY <1>5, <2>1, SpanWithin
  <1>9. \A days : days \subseteq 1..CacheDays => Trimmed(days, result.rows) \subseteq 1..CacheDays
    BY <1>5, TrimmedWithin
  <1>10. Claim(t, cached, result) \subseteq 1..CacheDays
    BY <1>5, <1>6, <1>7, <1>8, <1>9 DEF Claim
  <1> QED BY <1>3, <1>4, <1>10 DEF AllDays

(* Remembering the failed ranges of a ticker keeps one record of each.      *)
LEMMA RememberKeeps ==
  ASSUME LoadOK, NEW t \in Symbols_, NEW lost, lost \subseteq SUBSET AllDays
  PROVE  /\ Remember(load.misses, t, lost) \subseteq Miss
         /\ OneRecord(Remember(load.misses, t, lost))
         /\ \A m \in Remember(load.misses, t, lost) : m.live = load.request.live
  <1> DEFINE new(r) == [ticker |-> t, days |-> r, live |-> load.request.live, age |-> 0]
             kept == {m \in load.misses : ~(m.ticker = t /\ m.days \in lost)}
             added == {new(r) : r \in lost}
  <1>1. Remember(load.misses, t, lost) = kept \cup added
    BY DEF Remember
  <1>2. \A m \in added : m \in Miss /\ m.ticker = t /\ m.days \in lost /\ m.live = load.request.live
    BY RequestFacts DEF Miss
  <1>3. \A m, n \in added : m.days = n.days => m = n
    OBVIOUS
  <1>4. \A m \in kept : m \in Miss /\ m \in load.misses /\ ~(m.ticker = t /\ m.days \in lost)
                        /\ m.live = load.request.live
    BY DEF LoadOK
  <1>5. \A m, n \in kept : m.ticker = n.ticker /\ m.days = n.days /\ m.live = n.live => m = n
    BY DEF LoadOK, OneRecord
  <1> HIDE DEF kept, added
  <1>6. OneRecord(kept \cup added)
    BY <1>2, <1>3, <1>4, <1>5 DEF OneRecord
  <1> QED BY <1>1, <1>2, <1>4, <1>6

-----------------------------------------------------------------------------
(* Every step keeps the invariant.                                          *)

LEMMA BeginInv ==
  ASSUME CacheInv, NEW r \in Requests, NEW tickers \in SUBSET Symbols_, BeginLoad(r, tickers)
  PROVE  CacheInv'
  <1> DEFINE kept == {m \in misses : m.live = r.live /\ (r.live => m.age <= RetryAge)}
             none == [t \in {} |-> NoLoad]
  <1>1. /\ load' = [stage |-> "load", request |-> r, left |-> tickers, manifest |-> manifest,
                    misses |-> kept, answer |-> none]
        /\ UNCHANGED <<priceRows, manifest, misses>>
    BY DEF BeginLoad
  <1>2. kept \subseteq Miss /\ OneRecord(kept) /\ \A m \in kept : m.live = r.live
    BY DEF CacheInv, CacheTypeOK, OneRecord
  <1>3. DOMAIN none = {} /\ manifest \in [Symbols_ -> SUBSET AllDays]
    BY DEF CacheInv, CacheTypeOK, AllDays
  <1> HIDE DEF kept, none
  <1>4. /\ load'.stage = "load" /\ load'.request = r /\ load'.misses = kept /\ load'.answer = none
        /\ load'.manifest = manifest /\ load'.left = tickers
    BY <1>1
  <1>5. LoadOK'
    BY <1>1, <1>2, <1>3, <1>4 DEF LoadOK, OneRecord
  <1>6. AnswersAreWhole'
    BY <1>3, <1>4 DEF AnswersAreWhole
  <1> QED BY <1>1, <1>4, <1>5, <1>6 DEF CacheInv, CacheTypeOK

(* A ticker that is loaded.                                                 *)
LoadedAs(t, result, claim) ==
  load' = [stage |-> load.stage, request |-> load.request, left |-> load.left \ {t},
           manifest |-> [load.manifest EXCEPT ![t] = claim],
           misses |-> Remember(load.misses, t, result.lost),
           answer |-> [u \in DOMAIN load.answer \cup {t} |->
             IF u # t THEN load.answer[u]
             ELSE [rows |-> result.rows \cap RequestDays, asked |-> result.asked,
                   manual |-> result.manual, reported |-> result.reported]]]

LEMMA LoadedInv ==
  ASSUME CacheInv, LoadOK, NEW t \in Symbols_, LoadTicker(t)
  PROVE  \E cached \in SUBSET AllDays, primary \in Replies, manual \in Files :
           LET result == LoadResult(t, cached, primary, manual)
           IN /\ LoadedAs(t, result, Claim(t, cached, result))
              /\ priceRows' = IF result.rows = {} THEN priceRows
                              ELSE [priceRows EXCEPT ![t] = result.rows]
  <1>1. PICK primary \in Replies, manual \in Files, cached \in {priceRows[t], {}} :
          LET result == LoadResult(t, cached, primary, manual)
          IN /\ priceRows' = IF result.rows = {} THEN priceRows ELSE [priceRows EXCEPT ![t] = result.rows]
             /\ load' = [load EXCEPT !.left = @ \ {t},
                           !.manifest[t] = Claim(t, cached, result),
                           !.misses = Remember(@, t, result.lost),
                           !.answer = [u \in DOMAIN @ \cup {t} |->
                             IF u # t THEN @[u]
                             ELSE [rows |-> result.rows \cap RequestDays, asked |-> result.asked,
                                   manual |-> result.manual, reported |-> result.reported]]]
    BY DEF LoadTicker
  <1> DEFINE result == LoadResult(t, cached, primary, manual)
             claim == Claim(t, cached, result)
             fresh == [rows |-> result.rows \cap RequestDays, asked |-> result.asked,
                       manual |-> result.manual, reported |-> result.reported]
             answers == [u \in DOMAIN load.answer \cup {t} |-> IF u # t THEN load.answer[u] ELSE fresh]
             records == Remember(load.misses, t, result.lost)
  <1>2. cached \in SUBSET AllDays
    BY DEF CacheInv, CacheTypeOK, AllDays
  <1>3. priceRows' = IF result.rows = {} THEN priceRows ELSE [priceRows EXCEPT ![t] = result.rows]
    BY <1>1
  <1>4. load' = [load EXCEPT !.left = load.left \ {t}, !.manifest[t] = claim,
                             !.misses = records, !.answer = answers]
    BY <1>1
  <1> HIDE DEF claim, answers, records, result
  <1>5. load' = [stage |-> load.stage, request |-> load.request, left |-> load.left \ {t},
                 manifest |-> [load.manifest EXCEPT ![t] = claim], misses |-> records, answer |-> answers]
    <2> DEFINE e1 == [load EXCEPT !.left = load.left \ {t}]
               e2 == [e1 EXCEPT !.manifest[t] = claim]
               e3 == [e2 EXCEPT !.misses = records]
               e4 == [e3 EXCEPT !.answer = answers]
    <2>1. load' = e4
      BY <1>4
    <2>2. load = [stage |-> load.stage, request |-> load.request, left |-> load.left,
                  manifest |-> load.manifest, misses |-> load.misses, answer |-> load.answer]
      BY DEF LoadOK
    <2>3. e1 = [stage |-> load.stage, request |-> load.request, left |-> load.left \ {t},
                manifest |-> load.manifest, misses |-> load.misses, answer |-> load.answer]
      BY <2>2
    <2> HIDE DEF e1
    <2>4. e2 = [stage |-> load.stage, request |-> load.request, left |-> load.left \ {t},
                manifest |-> [load.manifest EXCEPT ![t] = claim],
                misses |-> load.misses, answer |-> load.answer]
      BY <2>3
    <2> HIDE DEF e2
    <2>5. e3 = [stage |-> load.stage, request |-> load.request, left |-> load.left \ {t},
                manifest |-> [load.manifest EXCEPT ![t] = claim],
                misses |-> records, answer |-> load.answer]
      BY <2>4
    <2> HIDE DEF e3
    <2>6. e4 = [stage |-> load.stage, request |-> load.request, left |-> load.left \ {t},
                manifest |-> [load.manifest EXCEPT ![t] = claim],
                misses |-> records, answer |-> answers]
      BY <2>5
    <2> QED BY <2>1, <2>6
  <1>6. LoadedAs(t, result, claim)
    BY <1>5 DEF LoadedAs, answers, records
  <1> QED BY <1>2, <1>3, <1>6 DEF claim, result

LEMMA TickerInv ==
  ASSUME CacheInv, NEW t \in Symbols_, LoadTicker(t)
  PROVE  CacheInv'
  <1>1. LoadOK /\ AnswersAreWhole /\ load.stage = "load" /\ UNCHANGED <<manifest, misses>>
    BY DEF CacheInv, LoadTicker
  <1>2. PICK cached \in SUBSET AllDays, primary \in Replies, manual \in Files :
          LET result == LoadResult(t, cached, primary, manual)
          IN /\ LoadedAs(t, result, Claim(t, cached, result))
             /\ priceRows' = IF result.rows = {} THEN priceRows
                             ELSE [priceRows EXCEPT ![t] = result.rows]
    BY <1>1, LoadedInv
  <1> DEFINE result == LoadResult(t, cached, primary, manual)
             claim == Claim(t, cached, result)
  <1>3. LoadedAs(t, result, claim)
        /\ priceRows' = IF result.rows = {} THEN priceRows ELSE [priceRows EXCEPT ![t] = result.rows]
    BY <1>2
  <1>4. result.rows \subseteq AllDays /\ result.lost \subseteq SUBSET AllDays /\ claim \subseteq AllDays
    BY <1>1, ResultWithin
  <1>5. load.request.whole /\ ~result.asked /\ ~result.manual /\ result.reported = {}
          => NoHole(t, result.rows \cap RequestDays)
    BY <1>1, SilentLoadIsWhole
  <1> HIDE DEF result, claim
  <1>6. /\ load'.stage = "load" /\ load'.request = load.request
        /\ load'.manifest = [load.manifest EXCEPT ![t] = claim]
        /\ load'.misses = Remember(load.misses, t, result.lost)
        /\ DOMAIN load'.answer = DOMAIN load.answer \cup {t}
        /\ \A u \in DOMAIN load.answer \ {t} : load'.answer[u] = load.answer[u]
        /\ load'.answer[t] = [rows |-> result.rows \cap RequestDays, asked |-> result.asked,
                              manual |-> result.manual, reported |-> result.reported]
    BY <1>1, <1>3 DEF LoadedAs
  <1>7. LoadOK'
    <2>1. load' = [stage |-> load'.stage, request |-> load'.request, left |-> load'.left,
                   manifest |-> load'.manifest, misses |-> load'.misses, answer |-> load'.answer]
      BY <1>3 DEF LoadedAs
    <2>2. load'.manifest \in [Symbols_ -> SUBSET AllDays]
      BY <1>1, <1>4, <1>6 DEF LoadOK
    <2>3. load'.misses \subseteq Miss /\ OneRecord(load'.misses)
          /\ \A m \in load'.misses : m.live = load.request.live
      BY <1>1, <1>4, <1>6, RememberKeeps
    <2> QED BY <1>1, <1>6, <2>1, <2>2, <2>3 DEF LoadOK, OneRecord
  <1>8. RequestDays' = RequestDays
    BY <1>6 DEF RequestDays
  <1>9. AnswersAreWhole'
    <2> SUFFICES ASSUME load.request.whole, NEW u \in DOMAIN load'.answer, CacheOnly(load'.answer[u])
                 PROVE  NoHole(u, load'.answer[u].rows)
      BY <1>6, <1>8 DEF AnswersAreWhole, NoHole
    <2>1. CASE u # t
      BY <1>1, <1>6, <2>1 DEF AnswersAreWhole
    <2>2. CASE u = t
      <3>1. ~result.asked /\ ~result.manual /\ result.reported = {}
        BY <1>6, <2>2 DEF CacheOnly
      <3>2. NoHole(t, result.rows \cap RequestDays)
        BY <1>5, <3>1
      <3>3. load'.answer[u].rows = result.rows \cap RequestDays
        BY <1>6, <2>2
      <3> QED BY <2>2, <3>2, <3>3
    <2> QED BY <2>1, <2>2
  <1>10. CacheTypeOK'
    <2>1. priceRows' \in [Symbols_ -> SUBSET AllDays]
      BY <1>3, <1>4 DEF CacheInv, CacheTypeOK, AllDays
    <2> QED BY <1>1, <1>6, <2>1 DEF CacheInv, CacheTypeOK, AllDays
  <1> QED BY <1>1, <1>7, <1>9, <1>10 DEF CacheInv

LEMMA ManifestInv ==
  ASSUME CacheInv, WriteManifest
  PROVE  CacheInv'
  <1>1. LoadOK /\ AnswersAreWhole /\ load.stage = "load" /\ UNCHANGED <<priceRows, misses>>
        /\ manifest' = load.manifest
    BY DEF CacheInv, WriteManifest
  <1> DEFINE a(t) == LET needed == ListedRange(t, load.request.needed)
                     IN IF needed # {} /\ load.answer[t].reported = {}
                           /\ load.answer[t].rows \cap needed = {} /\ ~load.request.whole
                        THEN [load.answer[t] EXCEPT !.reported = {needed}] ELSE load.answer[t]
             answers == [t \in DOMAIN load.answer |-> a(t)]
  <1>2. load' = [load EXCEPT !.stage = "write", !.answer = answers]
    BY DEF WriteManifest
  <1>3. /\ DOMAIN answers = DOMAIN load.answer
        /\ load.request.whole => \A t \in DOMAIN load.answer : answers[t] = load.answer[t]
    OBVIOUS
  <1> HIDE DEF answers
  <1>4. load' = [stage |-> "write", request |-> load.request, left |-> load.left,
                 manifest |-> load.manifest, misses |-> load.misses, answer |-> answers]
    <2> DEFINE e1 == [load EXCEPT !.stage = "write"]
               e2 == [e1 EXCEPT !.answer = answers]
    <2>1. load = [stage |-> load.stage, request |-> load.request, left |-> load.left,
                  manifest |-> load.manifest, misses |-> load.misses, answer |-> load.answer]
      BY <1>1 DEF LoadOK
    <2>2. e1 = [stage |-> "write", request |-> load.request, left |-> load.left,
                manifest |-> load.manifest, misses |-> load.misses, answer |-> load.answer]
      BY <2>1
    <2>3. load' = e2
      BY <1>2
    <2> HIDE DEF e1
    <2>4. e2 = [stage |-> "write", request |-> load.request, left |-> load.left,
                manifest |-> load.manifest, misses |-> load.misses, answer |-> answers]
      BY <2>2
    <2> QED BY <2>3, <2>4
  <1>5. /\ load'.stage = "write" /\ load'.request = load.request /\ load'.manifest = load.manifest
        /\ load'.misses = load.misses /\ load'.answer = answers
    BY <1>4
  <1>6. LoadOK'
    BY <1>1, <1>4, <1>5 DEF LoadOK, OneRecord
  <1>7. RequestDays' = RequestDays
    BY <1>5 DEF RequestDays
  <1>8. AnswersAreWhole'
    <2> SUFFICES ASSUME load.request.whole, NEW u \in DOMAIN load'.answer, CacheOnly(load'.answer[u])
                 PROVE  NoHole(u, load'.answer[u].rows)
      BY <1>5, <1>7 DEF AnswersAreWhole, NoHole
    <2>1. \A t \in DOMAIN load.answer : CacheOnly(load.answer[t]) => NoHole(t, load.answer[t].rows)
      BY <1>1 DEF AnswersAreWhole
    <2>2. DOMAIN load'.answer = DOMAIN load.answer
          /\ \A t \in DOMAIN load.answer : load'.answer[t] = load.answer[t]
      BY <1>3, <1>5
    <2> QED BY <2>1, <2>2
  <1>9. manifest' \in [Symbols_ -> SUBSET AllDays]
    BY <1>1 DEF LoadOK
  <1> QED BY <1>1, <1>5, <1>6, <1>8, <1>9 DEF CacheInv, CacheTypeOK, AllDays

LEMMA MissesInv ==
  ASSUME CacheInv, WriteMisses
  PROVE  CacheInv'
  <1>1. /\ LoadOK /\ AnswersAreWhole /\ load.stage = "write" /\ UNCHANGED <<priceRows, manifest>>
        /\ misses' = load.misses \cup {m \in misses : m.live # load.request.live}
        /\ load' = [load EXCEPT !.stage = "done"]
    BY DEF CacheInv, WriteMisses
  <1>2. load' = [stage |-> "done", request |-> load.request, left |-> load.left,
                 manifest |-> load.manifest, misses |-> load.misses, answer |-> load.answer]
    <2>1. load = [stage |-> load.stage, request |-> load.request, left |-> load.left,
                  manifest |-> load.manifest, misses |-> load.misses, answer |-> load.answer]
      BY <1>1 DEF LoadOK
    <2> QED BY <1>1, <2>1
  <1>3. /\ load'.stage = "done" /\ load'.request = load.request /\ load'.manifest = load.manifest
        /\ load'.misses = load.misses /\ load'.answer = load.answer
    BY <1>2
  <1>4. misses' \subseteq Miss /\ OneRecord(misses')
    BY <1>1 DEF CacheInv, CacheTypeOK, LoadOK, OneRecord
  <1>5. LoadOK'
    BY <1>1, <1>2, <1>3 DEF LoadOK, OneRecord
  <1>6. RequestDays' = RequestDays
    BY <1>3 DEF RequestDays
  <1>7. AnswersAreWhole'
    BY <1>1, <1>3, <1>6 DEF AnswersAreWhole, NoHole, CacheOnly
  <1> QED BY <1>1, <1>3, <1>4, <1>5, <1>7 DEF CacheInv, CacheTypeOK, OneRecord

LEMMA RestInv ==
  ASSUME CacheInv, LoadDies \/ Clear \/ Pass \/ UNCHANGED cacheVars
  PROVE  CacheInv'
  <1>1. CASE LoadDies
    <2>1. load'.stage = "none" /\ UNCHANGED <<priceRows, manifest, misses>>
      BY <1>1 DEF LoadDies, NoLoad
    <2> QED BY <2>1 DEF CacheInv, CacheTypeOK
  <1>2. ASSUME UNCHANGED load
        PROVE  UNCHANGED load.stage /\ (load.stage # "none" => LoadOK /\ AnswersAreWhole)'
    BY <1>2 DEF CacheInv, LoadOK, AnswersAreWhole, NoHole, CacheOnly, RequestDays, OneRecord
  <1>3. CASE Clear
    BY <1>2, <1>3 DEF Clear, CacheInv, CacheTypeOK
  <1>4. CASE Pass
    <2> DEFINE older(m) == IF m.live /\ m.age <= RetryAge THEN [m EXCEPT !.age = @ + 1] ELSE m
    <2>1. misses' = {older(m) : m \in misses} /\ UNCHANGED <<priceRows, manifest, load>>
      BY <1>4 DEF Pass
    <2>2. \A m \in misses : /\ older(m) \in Miss /\ older(m).ticker = m.ticker
                            /\ older(m).days = m.days /\ older(m).live = m.live
      <3> SUFFICES ASSUME NEW m \in Miss
                   PROVE  /\ older(m) \in Miss /\ older(m).ticker = m.ticker
                          /\ older(m).days = m.days /\ older(m).live = m.live
        BY DEF CacheInv
      <3>1. [m EXCEPT !.age = @ + 1]
              = [ticker |-> m.ticker, days |-> m.days, live |-> m.live, age |-> m.age + 1]
        BY DEF Miss
      <3> QED BY <3>1 DEF Miss
    <2> HIDE DEF older
    <2>3. misses' \subseteq Miss /\ OneRecord(misses')
      BY <2>1, <2>2 DEF CacheInv, CacheTypeOK, OneRecord
    <2> QED BY <1>2, <2>1, <2>3 DEF CacheInv, CacheTypeOK, OneRecord
  <1>5. CASE UNCHANGED cacheVars
    BY <1>2, <1>5 DEF cacheVars, CacheInv, CacheTypeOK
  <1> QED BY <1>1, <1>3, <1>4, <1>5

LEMMA InitCacheInv == CacheInit => CacheInv
  <1> SUFFICES ASSUME CacheInit PROVE CacheInv
    OBVIOUS
  <1>1. load.stage = "none" /\ misses = {}
    BY DEF CacheInit, NoLoad
  <1> QED BY <1>1 DEF CacheInit, CacheInv, CacheTypeOK

LEMMA NextCacheInv == CacheInv /\ [CacheNext]_cacheVars => CacheInv'
  BY BeginInv, TickerInv, ManifestInv, MissesInv, RestInv DEF CacheNext

(* Prices, manifest, misses and the answers of the load in progress: the    *)
(* invariant is inductive.                                                  *)
THEOREM CacheInvariant == CacheSpec => []CacheInv
  BY InitCacheInv, NextCacheInv, PTL DEF CacheSpec

(* Price files and manifest hold days of the calendar, a failed range of a  *)
(* ticker is recorded once for each kind of load.                           *)
THEOREM CacheTypeCorrect == CacheSpec => []CacheTypeOK
  <1>1. CacheInv => CacheTypeOK
    BY DEF CacheInv
  <1> QED BY <1>1, CacheInvariant, PTL

(* A load of whole histories that asked nobody, took no manual file and     *)
(* reported no failure returns rows without a hole, after any sequence of   *)
(* loads, provider answers, crashes and clearings.                          *)
THEOREM CacheNeverHidesGaps == CacheSpec => []NoSilentGap
  <1>1. CacheInv => NoSilentGap
    BY DEF CacheInv, NoSilentGap, AnswersAreWhole, CacheOnly, NoHole
  <1> QED BY <1>1, CacheInvariant, PTL
-----------------------------------------------------------------------------
(* All parts.  They share no variable, so the invariant of each is kept by  *)
(* its own steps and by those of the others.                                *)

PartsInv ==
  /\ LoadsInv /\ DelInv /\ WatchInv /\ GateInv /\ CacheInv /\ BenchInv
  /\ part = "simulation" => MoneyInv
  /\ part = "plan" => PlanInv
  /\ part = "training" => TrainInv
  /\ part \in {"loads", "deletion", "watcher", "gate",
               "simulation", "plan", "cache", "training", "benchmark"}

LEMMA InitPartsInv == ServicesInit => PartsInv
  <1> SUFFICES ASSUME ServicesInit PROVE PartsInv
    OBVIOUS
  <1>1. LoadsInv /\ DelInv /\ WatchInv /\ GateInv
    BY InitLoadsInv, InitDelInv, InitWatchInv, InitGateInv DEF ServicesInit
  <1>2. CacheInv /\ BenchInv
    BY InitCacheInv, BenchInit_ DEF ServicesInit, ResearchInit
  <1>3. /\ part = "simulation" => MoneyInv
        /\ part = "plan" => PlanInv
        /\ part = "training" => TrainInv
    BY MoneyInit, PlanInvInit, TrainInit_ DEF ServicesInit, ResearchInit
  <1> QED BY <1>1, <1>2, <1>3 DEF PartsInv, ServicesInit

(* A step of the whole is a step of one part and a stutter of the others.   *)
LEMMA PartsStep ==
  ASSUME [ServicesNext /\ UNCHANGED part]_<<part, servicesVars, researchVars>>
  PROVE  /\ UNCHANGED part
         /\ [LoadsNext]_loadVars /\ [DelNext]_delVars
         /\ [WatchNext]_watchVars /\ [GateNext]_gateVars
         /\ [CacheNext]_cacheVars /\ [BenchNext]_benchVars
         /\ part = "simulation" => [SimNext]_simVars
         /\ part = "plan" => [PlanNext]_planVars
         /\ part = "training" => [TrainNext]_trainVars
  <1>1. CASE UNCHANGED <<part, servicesVars, researchVars>>
    BY <1>1 DEF servicesVars, researchVars
  <1>2. CASE part = "loads" /\ LoadsNext /\ UNCHANGED <<part, delVars, watchVars, gateVars, researchVars>>
    BY <1>2 DEF researchVars
  <1>3. CASE part = "deletion" /\ DelNext /\ UNCHANGED <<part, loadVars, watchVars, gateVars, researchVars>>
    BY <1>3 DEF researchVars
  <1>4. CASE part = "watcher" /\ WatchNext /\ UNCHANGED <<part, loadVars, delVars, gateVars, researchVars>>
    BY <1>4 DEF researchVars
  <1>5. CASE part = "gate" /\ GateNext /\ UNCHANGED <<part, loadVars, delVars, watchVars, researchVars>>
    BY <1>5 DEF researchVars
  <1>6. CASE ResearchNext /\ UNCHANGED <<part, servicesVars>>
    BY <1>6 DEF ResearchNext, servicesVars
  <1> QED BY <1>1, <1>2, <1>3, <1>4, <1>5, <1>6 DEF ServicesNext

LEMMA NextPartsInv ==
  PartsInv /\ [ServicesNext /\ UNCHANGED part]_<<part, servicesVars, researchVars>> => PartsInv'
  <1> SUFFICES ASSUME PartsInv, [ServicesNext /\ UNCHANGED part]_<<part, servicesVars, researchVars>>
               PROVE  PartsInv'
    OBVIOUS
  <1>1. /\ UNCHANGED part
        /\ [LoadsNext]_loadVars /\ [DelNext]_delVars
        /\ [WatchNext]_watchVars /\ [GateNext]_gateVars
        /\ [CacheNext]_cacheVars /\ [BenchNext]_benchVars
        /\ part = "simulation" => [SimNext]_simVars
        /\ part = "plan" => [PlanNext]_planVars
        /\ part = "training" => [TrainNext]_trainVars
    BY PartsStep
  <1>2. LoadsInv' /\ DelInv' /\ WatchInv' /\ GateInv'
    BY <1>1, NextLoadsInv, NextDelInv, NextWatchInv, NextGateInv DEF PartsInv
  <1>3. CacheInv' /\ BenchInv'
    BY <1>1, NextCacheInv, BenchStep DEF PartsInv
  <1>4. part' = "simulation" => MoneyInv'
    BY <1>1, MoneyStep DEF PartsInv
  <1>5. (part' = "plan" => PlanInv') /\ (part' = "training" => TrainInv')
    BY <1>1, PlanInvStep, TrainStep DEF PartsInv
  <1> QED BY <1>1, <1>2, <1>3, <1>4, <1>5 DEF PartsInv

(* Whatever part runs, its variables keep their shape.                      *)
LEMMA PartsAreTyped ==
  ASSUME FeeRate <= 100, PartsInv
  PROVE  ServicesTypeOK
  <1>1. LoadsTypeOK /\ DelTypeOK /\ WatchTypeOK /\ CacheTypeOK
    BY DEF PartsInv, LoadsInv, DelInv, WatchInv, CacheInv
  <1>2. GateTypeOK
    BY GateAssumption DEF PartsInv, GateInv, GateTypeOK, HolderInv, SpacedInv, CacheOK
  <1>3. BenchTypeOK
    BY InvTypesTables DEF PartsInv
  <1>4. part = "simulation" => SimTypeOK
    BY InvConservesMoney DEF PartsInv, Affordable
  <1>5. (part = "plan" => PlanTypeOK) /\ (part = "training" => TrainTypeOK)
    BY InvPlanFits, InvTypesRows DEF PartsInv
  <1> QED BY <1>1, <1>2, <1>3, <1>4, <1>5 DEF PartsInv, ServicesTypeOK

(* The services, the watcher and the research side by side, for every value *)
(* of their constants: every variable of the part that runs keeps its       *)
(* shape, and each part keeps what its own specification promises.          *)
THEOREM PartsKeepTheirPromises ==
  ASSUME FeeRate <= 100
  PROVE  ServicesSpec =>
           [](/\ ServicesTypeOK
              /\ SlotCarriedByWork /\ DeletedOnceAsReviewed /\ PlansAnnouncedOnce
              /\ ProviderSpaced /\ NoSilentGap /\ PromotionIsEarned
              /\ part = "simulation" => NoLookAhead /\ MoneyConserved
              /\ part = "plan" => PlanFits
              /\ part = "training" => NoFutureLabels)
  <1> DEFINE promises ==
        /\ ServicesTypeOK
        /\ SlotCarriedByWork /\ DeletedOnceAsReviewed /\ PlansAnnouncedOnce
        /\ ProviderSpaced /\ NoSilentGap /\ PromotionIsEarned
        /\ part = "simulation" => NoLookAhead /\ MoneyConserved
        /\ part = "plan" => PlanFits
        /\ part = "training" => NoFutureLabels
  <1>1. ASSUME PartsInv PROVE promises
    <2>1. ServicesTypeOK
      BY <1>1, PartsAreTyped
    <2>2. SlotCarriedByWork
      BY <1>1, OneCarrier DEF PartsInv
    <2>3. DeletedOnceAsReviewed
      BY <1>1 DEF PartsInv, DelInv, DeletedOnceAsReviewed, OwnInv, SentInv, UserInv, Active, Confirming
    <2>4. PlansAnnouncedOnce
      BY <1>1, WatchKeeps DEF PartsInv
    <2>5. ProviderSpaced
      BY <1>1 DEF PartsInv, GateInv, ProviderSpaced, HolderInv, SpacedInv, Inside
    <2>6. NoSilentGap
      BY <1>1 DEF PartsInv, CacheInv, NoSilentGap, AnswersAreWhole, CacheOnly, NoHole
    <2>7. PromotionIsEarned
      BY <1>1 DEF PartsInv, BenchInv, PromotionIsEarned
    <2>8. part = "simulation" => NoLookAhead /\ MoneyConserved
      <3>1. MoneyInv => SimInv
        BY DEF MoneyInv
      <3> QED BY <1>1, <3>1, InvSelectsTheSame, InvConservesMoney DEF PartsInv, Affordable
    <2>9. (part = "plan" => PlanFits) /\ (part = "training" => NoFutureLabels)
      BY <1>1, InvPlanFits, InvKnowsLabels DEF PartsInv
    <2> QED BY <2>1, <2>2, <2>3, <2>4, <2>5, <2>6, <2>7, <2>8, <2>9
  <1>2. ServicesSpec => []PartsInv
    BY InitPartsInv, NextPartsInv, PTL DEF ServicesSpec
  <1> QED BY <1>1, <1>2, PTL
=============================================================================
