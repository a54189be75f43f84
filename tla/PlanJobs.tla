------------------------------ MODULE PlanJobs ------------------------------
(***************************************************************************)
(* Live planning jobs of one API process (src/api/plan_jobs.py) and the    *)
(* handlers around them (src/api/public_app.py): a start request, the      *)
(* market scan in a thread that cannot be stopped, the version-checked     *)
(* save in the database (CloudAccount models it), status polls, and a      *)
(* restart of the process.                                                 *)
(*                                                                         *)
(* The event loop runs one handler until it awaits, so a step is what runs *)
(* between two awaits.  Clocks are left out: a time limit may pass at any  *)
(* moment in which it can.                                                 *)
(***************************************************************************)
EXTENDS Integers, Sequences, FiniteSets

CONSTANTS
  Owners,        \* signed-in users, one portfolio each
  Requests,      \* request ids the website draws
  Pollers,       \* status requests that may overlap
  MaxRetained,   \* MAX_RETAINED_JOBS
  MaxJobs,       \* bound: jobs ever started
  None           \* no value

ASSUME BoundAssumption ==
  MaxRetained \in Nat \ {0} /\ MaxJobs \in Nat
ASSUME NoneAssumption ==                     \* jobs are numbered
  None \notin Nat \union {"limit", "changed", "other"}

VARIABLES
  job,       \* every PlanJob object so far: [owner, request, status, error]
  kept,      \* PlanJobs.jobs: the numbers of the jobs it still knows
  old,       \* finished jobs past JOB_RETENTION_SECONDS
  active,    \* PlanJobs.active: the job in the scan slot, or None
  phase,     \* where _run is with each job
  timedOut,  \* history: jobs whose scan exceeded its limit
  writes,    \* save requests the database has not handled
  saved,     \* jobs whose plan the database has committed
  answers,   \* what the database answered and the job has yet to read: [job, says]
  polls      \* status handlers: [job, seen], seen once the account was read

runner == <<job, active, phase, timedOut>>
store == <<writes, saved, answers>>
vars == <<runner, kept, old, store, polls>>

-----------------------------------------------------------------------------
Jobs == DOMAIN job
Finished(j) == job[j].status # "RUNNING"

(* Threads that scan the market now. *)
Threads == {j \in Jobs : phase[j] \in {"scanning", "draining"}}

Succeed(j) == job' = [job EXCEPT ![j].status = "SUCCEEDED"]
Fail(j, why) == job' = [job EXCEPT ![j].status = "FAILED", ![j].error = why]
SetPhase(j, p) == phase' = [phase EXCEPT ![j] = p]

(* The finally clause of _run. *)
Leave(j) ==
  /\ SetPhase(j, "done")
  /\ active' = IF active = j THEN None ELSE active

-----------------------------------------------------------------------------
(* POST /v1/plan-jobs: the version was read before PlanJobs.start runs.     *)
Retained == kept \ old
Matching(u, r) == {j \in Retained : job[j].owner = u /\ job[j].request = r}

(* The oldest job makes room. *)
Evicted(js) ==
  IF Cardinality(js) < MaxRetained THEN {}
  ELSE {j \in js : \A k \in js : j <= k}

NewJobUnpruned(u, r) ==     \* mutant: expired jobs are skipped but not dropped
  /\ Len(job) < MaxJobs
  /\ job' = Append(job, [owner |-> u, request |-> r, status |-> "RUNNING",
                         error |-> None])
  /\ phase' = Append(phase, "scanning")
  /\ active' = Len(job) + 1
  /\ kept' = (kept \ Evicted(Retained)) \union {Len(job) + 1}

NewJob(u, r) ==
  /\ Len(job) < MaxJobs
  /\ job' = Append(job, [owner |-> u, request |-> r, status |-> "RUNNING",
                         error |-> None])
  /\ phase' = Append(phase, "scanning")
  /\ active' = Len(job) + 1
  /\ kept' = (Retained \ Evicted(Retained)) \union {Len(job) + 1}

(* A known request id gets its job (or 409), a busy slot is joined (or 429). *)
StartForgetful(u, r) ==     \* mutant: the request id is not looked up
  /\ old' = {}
  /\ IF active # None
     THEN kept' = Retained /\ UNCHANGED <<job, phase, active>>
     ELSE NewJob(u, r)
  /\ UNCHANGED <<timedOut, store, polls>>

StartBesideDraining(u, r) ==     \* mutant: only a RUNNING job holds the slot
  /\ old' = {}
  /\ IF Matching(u, r) # {} \/ (active # None /\ ~Finished(active))
     THEN kept' = Retained /\ UNCHANGED <<job, phase, active>>
     ELSE NewJob(u, r)
  /\ UNCHANGED <<timedOut, store, polls>>

Start(u, r) ==
  /\ old' = {}
  /\ IF Matching(u, r) # {} \/ active # None
     THEN kept' = Retained /\ UNCHANGED <<job, phase, active>>
     ELSE NewJob(u, r)
  /\ UNCHANGED <<timedOut, store, polls>>

Age(j) ==
  /\ j \in kept /\ Finished(j)
  /\ old' = old \union {j}
  /\ UNCHANGED <<runner, kept, store, polls>>

-----------------------------------------------------------------------------
(* execute and _run *)

ScanSucceeds(j) ==
  /\ phase[j] = "scanning"
  /\ SetPhase(j, "saving")
  /\ writes' = writes \union {j}
  /\ UNCHANGED <<job, active, timedOut, kept, old, saved, answers, polls>>

ScanFails(j) ==
  /\ phase[j] = "scanning"
  /\ Fail(j, "other")
  /\ Leave(j)
  /\ UNCHANGED <<timedOut, kept, old, store, polls>>

(* The limit passes: the job has failed, its slot waits for the thread. *)
ScanTimesOut(j) ==
  /\ phase[j] = "scanning"
  /\ Fail(j, "limit")
  /\ SetPhase(j, "draining")
  /\ timedOut' = timedOut \union {j}
  /\ UNCHANGED <<active, kept, old, store, polls>>

DrainIntoSave(j) ==     \* mutant: a late result goes on to the save
  /\ phase[j] = "draining"
  /\ SetPhase(j, "saving")
  /\ writes' = writes \union {j}
  /\ UNCHANGED <<job, active, timedOut, kept, old, saved, answers, polls>>

DrainKeepingSlot(j) ==     \* mutant: the finally clause frees only a RUNNING job's slot
  /\ phase[j] = "draining"
  /\ SetPhase(j, "done")
  /\ UNCHANGED <<job, active, timedOut, kept, old, store, polls>>

Drain(j) ==
  /\ phase[j] = "draining"
  /\ Leave(j)
  /\ UNCHANGED <<job, timedOut, kept, old, store, polls>>

(* The database handles the request, even if nobody waits for the answer    *)
(* any more: it commits the plan and answers with its id, or refuses it for *)
(* the portfolio's version (CloudAccount says when) or with another error.  *)
Answers == {"plan id", "changed", "error"}

Answer(j, says) ==
  answers' = IF phase[j] = "saving" THEN answers \union {[job |-> j, says |-> says]} ELSE answers

CommitSave(j) ==
  /\ j \in writes
  /\ writes' = writes \ {j}
  /\ saved' = saved \union {j}
  /\ Answer(j, "plan id")
  /\ UNCHANGED <<runner, kept, old, polls>>

RefuseSave(j) ==
  /\ j \in writes
  /\ writes' = writes \ {j}
  /\ \E says \in Answers \ {"plan id"} : Answer(j, says)
  /\ UNCHANGED <<runner, kept, old, saved, polls>>

Heard(j) == {a.says : a \in {b \in answers : b.job = j}}
Unread(j) == {a \in answers : a.job # j}

(* A plan id was read: the account is loaded again before the job is done.  *)
SaveAnsweredAnyhow(j) ==     \* mutant: an error's body is read as a plan id
  /\ phase[j] = "saving" /\ Heard(j) # {}
  /\ SetPhase(j, "reloading")
  /\ answers' = Unread(j)
  /\ UNCHANGED <<job, active, timedOut, kept, old, writes, saved, polls>>

SaveAnswered(j) ==
  /\ phase[j] = "saving" /\ "plan id" \in Heard(j)
  /\ SetPhase(j, "reloading")
  /\ answers' = Unread(j)
  /\ UNCHANGED <<job, active, timedOut, kept, old, writes, saved, polls>>

(* "Portfolio changed. Refresh before rebuilding the plan."                 *)
SaveRefused(j) ==
  /\ phase[j] = "saving" /\ "changed" \in Heard(j)
  /\ Fail(j, "changed")
  /\ Leave(j)
  /\ answers' = Unread(j)
  /\ UNCHANGED <<timedOut, kept, old, writes, saved, polls>>

(* Another error, a body that is no id, a lost connection, or no answer     *)
(* within ten seconds: whether the plan was saved stays unknown.            *)
SaveUnconfirmed(j) ==
  /\ phase[j] = "saving"
  /\ Fail(j, "other")
  /\ Leave(j)
  /\ answers' = Unread(j)
  /\ UNCHANGED <<timedOut, kept, old, writes, saved, polls>>

SaveConfirmed(j) ==
  /\ phase[j] = "reloading"
  /\ Succeed(j)
  /\ Leave(j)
  /\ UNCHANGED <<timedOut, kept, old, store, polls>>

(* The plan is saved, its account could not be loaded. *)
ReloadFails(j) ==
  /\ phase[j] = "reloading"
  /\ Fail(j, "other")
  /\ Leave(j)
  /\ UNCHANGED <<timedOut, kept, old, store, polls>>

Run(j) ==
  \/ ScanSucceeds(j) \/ ScanFails(j) \/ ScanTimesOut(j) \/ Drain(j)
  \/ SaveAnswered(j) \/ SaveRefused(j) \/ SaveUnconfirmed(j)
  \/ SaveConfirmed(j) \/ ReloadFails(j)

-----------------------------------------------------------------------------
(* GET /v1/plan-jobs/{id}: look the job up, await the account snapshot,     *)
(* then answer with the job's status of that later moment, or with an error.*)
PollJob(p) ==
  /\ polls[p] = None
  /\ \E j \in kept : polls' = [polls EXCEPT ![p] = [job |-> j, seen |-> None]]
  /\ UNCHANGED <<runner, kept, old, store>>

ReadSnapshot(p) ==
  /\ polls[p] # None /\ polls[p].seen = None
  /\ polls' = [polls EXCEPT ![p].seen = polls[p].job \in saved]
  /\ UNCHANGED <<runner, kept, old, store>>

AnswerPoll(p) ==
  /\ polls[p] # None /\ polls[p].seen # None
  /\ polls' = [polls EXCEPT ![p] = None]
  /\ UNCHANGED <<runner, kept, old, store>>

-----------------------------------------------------------------------------
(* The process stops and starts again: its memory is gone, what it sent to  *)
(* the database is not.                                                     *)
Restart ==
  /\ kept # {}
  /\ kept' = {} /\ old' = {} /\ active' = None
  /\ phase' = [j \in Jobs |-> "done"]
  /\ polls' = [p \in Pollers |-> None]
  /\ answers' = {}
  /\ UNCHANGED <<job, timedOut, writes, saved>>

Init ==
  /\ job = <<>> /\ phase = <<>>
  /\ kept = {} /\ old = {} /\ active = None
  /\ timedOut = {} /\ writes = {} /\ saved = {} /\ answers = {}
  /\ polls = [p \in Pollers |-> None]

Next ==
  \/ \E u \in Owners, q \in Requests : Start(u, q)
  \/ \E j \in Jobs : Age(j) \/ Run(j) \/ CommitSave(j) \/ RefuseSave(j)
  \/ \E p \in Pollers : PollJob(p) \/ ReadSnapshot(p) \/ AnswerPoll(p)
  \/ Restart

(* The loop resumes a task whose await has ended; a scan thread ends (its   *)
(* downloads have time limits) and an HTTP call ends within ten seconds.    *)
Spec == Init /\ [][Next]_vars
FairSpec == Spec /\ \A j \in 1 .. MaxJobs : WF_vars(j \in Jobs /\ Run(j))

-----------------------------------------------------------------------------
(* Properties *)

Phases == {"scanning", "draining", "saving", "reloading", "done"}
PlanJob == [owner : Owners, request : Requests, status : {"RUNNING", "SUCCEEDED", "FAILED"},
            error : {None, "limit", "changed", "other"}]
Poll == [job : Jobs, seen : {None} \union BOOLEAN]

TypeOK ==
  /\ job \in Seq(PlanJob)
  /\ phase \in Seq(Phases) /\ Len(phase) = Len(job)
  /\ kept \subseteq Jobs /\ old \subseteq kept
  /\ Cardinality(kept) <= MaxRetained
  /\ active \in Jobs \union {None}
  /\ timedOut \subseteq Jobs /\ writes \subseteq Jobs /\ saved \subseteq Jobs
  /\ answers \subseteq [job : Jobs, says : Answers]
  /\ polls \in [Pollers -> Poll \union {None}]

(* No two jobs scan at once: a job past its time limit keeps the slot until *)
(* its thread has drained, whoever asks meanwhile, so the free instance     *)
(* never runs two price downloads for jobs ("retaining the single scan      *)
(* slot until it exits").                                                   *)
OneJobScans ==
  /\ Cardinality(Threads) <= 1
  /\ \A j \in Jobs : phase[j] # "done" => active = j

(* The result of a scan that exceeded its limit never reaches storage: the  *)
(* user was told that no new plan was saved.                                *)
NoLateSave == timedOut \intersect (writes \union saved) = {}

(* What the user is told about a plan is true although the request to save  *)
(* it and its answer travel apart from the job: SUCCEEDED is said only of a *)
(* plan that is committed, and a job stopped by the time limit or by a      *)
(* portfolio that changed has no plan in the database and none on its way.  *)
(* Every other failure may go either way ("No result was confirmed").       *)
OutcomeIsTruthful ==
  \A j \in Jobs :
    /\ job[j].status = "SUCCEEDED" => j \in saved
    /\ job[j].error \in {"limit", "changed"} => j \notin writes \union saved

(* A repeated start finds its job: no request id of an owner has two jobs   *)
(* that are still retained, and eviction never drops the one that runs.     *)
RetryFindsItsJob ==
  /\ \A j, k \in kept :
       job[j].owner = job[k].owner /\ job[j].request = job[k].request => j = k
  /\ \A j \in Jobs : phase[j] \in {"scanning", "saving", "reloading"} => j \in kept

(* The slot is not leaked: whatever fails, times out or is refused, the     *)
(* next user gets it.                                                       *)
SlotIsFreed == \A j \in 1 .. MaxJobs : active = j ~> active # j

(* "Only the owner-authenticated status read reloads the final account      *)
(* snapshot": a SUCCEEDED answer carries a snapshot with the job's plan.    *)
SucceededAnswerShowsPlan ==
  [][\A p \in Pollers :
       (/\ polls[p] # None /\ polls'[p] = None /\ kept' = kept
        /\ job[polls[p].job].status = "SUCCEEDED") => polls[p].seen]_vars
=============================================================================
