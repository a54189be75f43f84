--------------------------- MODULE PlanJobsProofs ---------------------------
(* Proofs about plan jobs: what a process does with any number of jobs,     *)
(* users, request ids and overlapping status requests, at any table size.   *)
EXTENDS PlanJobs, FiniteSetTheorems, SequenceTheorems, TLAPS

Statuses == {"RUNNING", "SUCCEEDED", "FAILED"}
Errors == {None, "limit", "changed", "other"}
Pending == {"scanning", "saving", "reloading"}

(* The slot belongs to the one job that is not done. *)
SlotInv == \A j \in Jobs : phase[j] # "done" => active = j

(* A job that still runs is RUNNING and in the table; one that has aged has *)
(* finished.                                                                *)
RunInv ==
  /\ \A j \in old : Finished(j)
  /\ \A j \in Jobs :
       phase[j] \in Pending => j \in kept /\ ~Finished(j) /\ job[j].error = None

(* A scan has sent nothing to the database, and a late one never will.      *)
SaveInv ==
  /\ \A j \in Jobs : phase[j] = "scanning" => j \notin writes \union saved
  /\ \A j \in timedOut : phase[j] \in {"draining", "done"}
  /\ \A j \in Jobs : job[j].error = "limit" => j \in timedOut

(* An answer waits only for a job that still listens, and says what became  *)
(* of the request; a request is handled once.                               *)
AnswerInv ==
  /\ writes \intersect saved = {}
  /\ \A a \in answers :
       /\ phase[a.job] = "saving"
       /\ IF a.says = "plan id" THEN a.job \in saved ELSE a.job \notin writes \union saved
  /\ \A j \in Jobs : phase[j] = "reloading" => j \in saved

IInv ==
  /\ TypeOK /\ SlotInv /\ RunInv /\ SaveInv /\ AnswerInv
  /\ NoLateSave /\ OutcomeIsTruthful /\ RetryFindsItsJob

-----------------------------------------------------------------------------
(* Sequences of jobs and their phases *)

LEMMA JobNumbers ==
  ASSUME TypeOK
  PROVE  /\ Len(job) \in Nat /\ Jobs = 1 .. Len(job)
         /\ job \in Seq(PlanJob) /\ phase \in Seq(Phases) /\ Len(phase) = Len(job)
         /\ \A j \in Jobs : job[j] \in PlanJob /\ phase[j] \in Phases
         /\ IsFiniteSet(Jobs) /\ None \notin Jobs
  <1>1. job \in Seq(PlanJob) /\ phase \in Seq(Phases) /\ Len(phase) = Len(job)
    BY DEF TypeOK
  <1>2. Len(job) \in Nat /\ Jobs = 1 .. Len(job)
    BY <1>1, LenProperties DEF Jobs
  <1>3. \A j \in Jobs : job[j] \in PlanJob /\ phase[j] \in Phases
    BY <1>1, <1>2, ElementOfSeq
  <1>4. IsFiniteSet(Jobs)
    BY <1>2, FS_Interval
  <1>5. None \notin Jobs
    BY <1>2, NoneAssumption
  <1> QED BY <1>1, <1>2, <1>3, <1>4, <1>5

(* A job's record takes a status and an error. *)
Becomes(j, s, e) == job' = [job EXCEPT ![j] = [job[j] EXCEPT !.status = s, !.error = e]]

LEMMA StatusStep ==
  ASSUME TypeOK, NEW j \in Jobs, NEW s \in Statuses, NEW e \in Errors, Becomes(j, s, e)
  PROVE  /\ job' \in Seq(PlanJob) /\ Len(job') = Len(job) /\ Jobs' = Jobs
         /\ \A k \in Jobs :
              /\ job'[k].owner = job[k].owner /\ job'[k].request = job[k].request
              /\ job'[k].status = IF k = j THEN s ELSE job[k].status
              /\ job'[k].error = IF k = j THEN e ELSE job[k].error
  <1> DEFINE J == [job[j] EXCEPT !.status = s, !.error = e]
  <1>0. job[j] \in PlanJob
    BY JobNumbers
  <1>1. /\ J \in PlanJob /\ J.owner = job[j].owner /\ J.request = job[j].request
        /\ J.status = s /\ J.error = e
    BY <1>0 DEF PlanJob, Statuses, Errors
  <1>2. job' = [job EXCEPT ![j] = J]
    BY DEF Becomes
  <1> HIDE DEF J
  <1>3. job' \in Seq(PlanJob) /\ Len(job') = Len(job)
        /\ \A k \in 1 .. Len(job) : job'[k] = IF k = j THEN J ELSE job[k]
    BY <1>1, <1>2, JobNumbers, ExceptSeq
  <1>4. Jobs' = Jobs
    BY <1>3, JobNumbers, LenProperties DEF Jobs
  <1> QED BY <1>1, <1>3, <1>4, JobNumbers

LEMMA Ends ==
  ASSUME TypeOK, NEW j \in Jobs
  PROVE  /\ \A e : Fail(j, e) => Becomes(j, "FAILED", e)
         /\ Succeed(j) => Becomes(j, "SUCCEEDED", job[j].error)
         /\ job' = job => Becomes(j, job[j].status, job[j].error)
         /\ job[j].status \in Statuses /\ job[j].error \in Errors
  <1>1. job[j] \in PlanJob /\ job = [k \in Jobs |-> job[k]]
    <2>1. job \in [1 .. Len(job) -> PlanJob]
      BY JobNumbers, SeqDef
    <2> QED BY <2>1, JobNumbers
  <1>2. \A e : Fail(j, e) => Becomes(j, "FAILED", e)
    BY <1>1 DEF Fail, Becomes, PlanJob
  <1>3. Succeed(j) => Becomes(j, "SUCCEEDED", job[j].error)
    <2>1. [job[j] EXCEPT !.status = "SUCCEEDED", !.error = job[j].error]
            = [job[j] EXCEPT !.status = "SUCCEEDED"]
      BY <1>1 DEF PlanJob
    <2> QED BY <2>1 DEF Succeed, Becomes
  <1>4. job' = job => Becomes(j, job[j].status, job[j].error)
    <2>1. [job[j] EXCEPT !.status = job[j].status, !.error = job[j].error] = job[j]
      BY <1>1 DEF PlanJob
    <2>2. [job EXCEPT ![j] = job[j]] = job
      BY <1>1
    <2> QED BY <2>1, <2>2 DEF Becomes
  <1>5. job[j].status \in Statuses /\ job[j].error \in Errors
    BY <1>1 DEF PlanJob, Statuses, Errors
  <1> QED BY <1>2, <1>3, <1>4, <1>5

LEMMA PhaseStep ==
  ASSUME TypeOK, NEW j \in Jobs, NEW p \in Phases, SetPhase(j, p)
  PROVE  /\ phase' \in Seq(Phases) /\ Len(phase') = Len(job)
         /\ \A k \in Jobs : phase'[k] = IF k = j THEN p ELSE phase[k]
  BY JobNumbers, ExceptSeq DEF SetPhase

-----------------------------------------------------------------------------
LEMMA InitIInv == Init => IInv
  <1> SUFFICES ASSUME Init PROVE IInv
    OBVIOUS
  <1>1. Jobs = {} /\ Len(job) = 0 /\ Len(phase) = 0
    BY DEF Init, Jobs
  <1>2. Cardinality(kept) <= MaxRetained
    BY FS_EmptySet, BoundAssumption DEF Init
  <1>3. TypeOK
    BY <1>1, <1>2, EmptySeq DEF Init, TypeOK
  <1>4. SlotInv /\ RunInv /\ SaveInv /\ AnswerInv
    BY <1>1 DEF Init, SlotInv, RunInv, SaveInv, AnswerInv
  <1>5. NoLateSave /\ OutcomeIsTruthful /\ RetryFindsItsJob
    BY <1>1 DEF Init, NoLateSave, OutcomeIsTruthful, RetryFindsItsJob
  <1> QED BY <1>3, <1>4, <1>5 DEF IInv

-----------------------------------------------------------------------------
(* Starting a job *)

(* A nonempty set of numbers up to n has a least one: were there none, the  *)
(* numbers below the set would be closed under successor, and adding one    *)
(* would map them into fewer.                                               *)
LEMMA LeastNumber ==
  ASSUME NEW n \in Nat, NEW S, S \subseteq 1 .. n, S # {}
  PROVE  \E x \in S : \A y \in S : x <= y
  <1> SUFFICES ASSUME \A x \in S : \E y \in S : ~(x <= y)
               PROVE  FALSE
    OBVIOUS
  <1> DEFINE below == {x \in 0 .. n : \A y \in S : x < y}
             up == [x \in below |-> x + 1]
  <1>1. 0 \in below
    OBVIOUS
  <1>2. IsFiniteSet(below) /\ IsFiniteSet(below \ {0})
        /\ Cardinality(below) \in Nat /\ Cardinality(below \ {0}) < Cardinality(below)
    <2>1. below \in SUBSET (0 .. n)
      OBVIOUS
    <2> HIDE DEF below
    <2>2. IsFiniteSet(0 .. n)
      BY FS_Interval
    <2>3. IsFiniteSet(below)
      BY <2>1, <2>2, FS_Subset
    <2>4. Cardinality(below) \in Nat
      BY <2>3, FS_CardinalityType
    <2>5. IsFiniteSet(below \ {0}) /\ Cardinality(below \ {0}) = Cardinality(below) - 1
      BY <1>1, <2>3, FS_RemoveElement
    <2> QED BY <2>3, <2>4, <2>5
  <1>3. \A x \in below : x + 1 \in below \ {0}
    <2> SUFFICES ASSUME NEW x \in below PROVE x + 1 \in below \ {0}
      OBVIOUS
    <2>1. x \in Nat /\ (\A y \in S : y \in Nat /\ y <= n /\ x < y)
      OBVIOUS
    <2>2. x + 1 <= n
      <3>1. PICK y \in S : y \in Nat /\ y <= n /\ x < y
        BY <2>1
      <3> QED BY <2>1, <3>1
    <2>3. x + 1 \notin S
      <3> SUFFICES ASSUME x + 1 \in S PROVE FALSE
        OBVIOUS
      <3>1. PICK y \in S : ~(x + 1 <= y)
        OBVIOUS
      <3> QED BY <2>1, <3>1
    <2>4. \A y \in S : x + 1 < y
      BY <2>1, <2>3
    <2> QED BY <2>1, <2>2, <2>4
  <1>4. up \in [below -> below \ {0}]
    BY <1>3
  <1>5. PICK x, y \in below : x # y /\ up[x] = up[y]
    <2> HIDE DEF below, up
    <2> QED BY <1>2, <1>4, FS_PigeonHole
  <1> QED BY <1>5

(* Making room leaves fewer than MaxRetained jobs in the table. *)
LEMMA RoomIsMade ==
  ASSUME NEW js, NEW n \in Nat, js \subseteq 1 .. n, Cardinality(js) <= MaxRetained
  PROVE  /\ IsFiniteSet(js \ Evicted(js))
         /\ Cardinality(js \ Evicted(js)) < MaxRetained
  <1>1. IsFiniteSet(js) /\ Cardinality(js) \in Nat
    <2>1. IsFiniteSet(1 .. n) /\ js \in SUBSET (1 .. n)
      BY FS_Interval
    <2>2. IsFiniteSet(js)
      BY <2>1, FS_Subset
    <2> QED BY <2>2, FS_CardinalityType
  <1>2. CASE Cardinality(js) < MaxRetained
    <2>1. js \ Evicted(js) = js
      BY <1>2 DEF Evicted
    <2> QED BY <1>1, <1>2, <2>1
  <1>3. CASE ~(Cardinality(js) < MaxRetained)
    <2>1. js # {}
      BY <1>3, FS_EmptySet, BoundAssumption
    <2>2. PICK x \in js : \A y \in js : x <= y
      BY <2>1, LeastNumber
    <2>4. Evicted(js) = {x}
      <3>1. \A y \in js : y \in Nat
        OBVIOUS
      <3>2. \A y \in js : (\A k \in js : y <= k) => y = x
        BY <2>2, <3>1
      <3> QED BY <1>3, <2>2, <3>2 DEF Evicted
    <2>5. IsFiniteSet(js \ {x}) /\ Cardinality(js \ {x}) = Cardinality(js) - 1
      BY <1>1, FS_RemoveElement
    <2> QED BY <1>1, <2>4, <2>5, BoundAssumption
  <1> QED BY <1>2, <1>3

(* The table without its aged jobs is no larger, and holds every running one. *)
LEMMA RetainedTable ==
  ASSUME IInv
  PROVE  /\ Retained \subseteq kept /\ Retained \subseteq 1 .. Len(job)
         /\ IsFiniteSet(Retained) /\ Cardinality(Retained) <= MaxRetained
         /\ \A j \in Jobs : phase[j] \in Pending => j \in Retained
  <1>1. kept \in SUBSET Jobs /\ Cardinality(kept) <= MaxRetained
    BY DEF IInv, TypeOK
  <1>2. IsFiniteSet(kept) /\ Retained \in SUBSET kept
    BY <1>1, JobNumbers, FS_Subset DEF IInv, Retained
  <1>3. IsFiniteSet(Retained) /\ Cardinality(Retained) <= Cardinality(kept)
    BY <1>2, FS_Subset
  <1>4. Cardinality(Retained) \in Nat /\ Cardinality(kept) \in Nat
    BY <1>2, <1>3, FS_CardinalityType
  <1>5. Cardinality(Retained) <= MaxRetained
    BY <1>1, <1>3, <1>4, BoundAssumption
  <1>6. \A j \in Jobs : phase[j] \in Pending => j \in Retained
    BY DEF IInv, RunInv, Retained
  <1> QED BY <1>1, <1>2, <1>3, <1>5, <1>6, JobNumbers DEF IInv

LEMMA JoinInv ==
  ASSUME IInv, old' = {}, kept' = Retained,
         UNCHANGED <<job, phase, active, timedOut, writes, saved, answers, polls>>
  PROVE  IInv'
  <1>1. Jobs' = Jobs /\ (\A j \in Jobs : Finished(j)' = Finished(j))
    BY DEF Jobs, Finished
  <1>2. TypeOK'
    BY <1>1, RetainedTable DEF IInv, TypeOK, Poll, Jobs
  <1>3. RunInv' /\ RetryFindsItsJob'
    BY <1>1, RetainedTable DEF IInv, RunInv, RetryFindsItsJob, Pending
  <1>4. SlotInv' /\ SaveInv' /\ AnswerInv' /\ NoLateSave' /\ OutcomeIsTruthful'
    BY <1>1 DEF IInv, SlotInv, SaveInv, AnswerInv, NoLateSave, OutcomeIsTruthful
  <1> QED BY <1>2, <1>3, <1>4 DEF IInv

(* A new job: the slot was free, so every earlier job is done. *)
LEMMA NewJobInv ==
  ASSUME IInv, NEW u \in Owners, NEW r \in Requests,
         Matching(u, r) = {}, active = None, NewJob(u, r), old' = {},
         UNCHANGED <<timedOut, writes, saved, answers, polls>>
  PROVE  IInv'
  <1> DEFINE n == Len(job) + 1
             new == [owner |-> u, request |-> r, status |-> "RUNNING", error |-> None]
             room == Retained \ Evicted(Retained)
  <1>1. /\ Len(job) \in Nat /\ Jobs = 1 .. Len(job) /\ n \notin Jobs
        /\ Len(phase) = Len(job) /\ None \notin Jobs
    BY JobNumbers DEF IInv
  <1>2. job' \in Seq(PlanJob) /\ Len(job') = n /\ job'[n] = new
        /\ \A j \in Jobs : job'[j] = job[j]
    <2>1. new \in PlanJob /\ job \in Seq(PlanJob) /\ job' = Append(job, new)
      BY JobNumbers DEF IInv, PlanJob, Statuses, NewJob
    <2> QED BY <1>1, <2>1, AppendProperties
  <1>3. phase' \in Seq(Phases) /\ Len(phase') = n /\ phase'[n] = "scanning"
        /\ \A j \in Jobs : phase'[j] = phase[j]
    <2>1. "scanning" \in Phases /\ phase \in Seq(Phases) /\ phase' = Append(phase, "scanning")
      BY JobNumbers DEF IInv, Phases, NewJob
    <2> QED BY <1>1, <2>1, AppendProperties
  <1>4. Jobs' = Jobs \union {n}
    <2>1. Jobs' = 1 .. n
      BY <1>2, LenProperties DEF Jobs
    <2> QED BY <1>1, <2>1
  <1>5. active' = n /\ kept' = room \union {n}
    BY DEF NewJob
  <1>6. \A j \in Jobs : phase[j] = "done"
    BY <1>1 DEF IInv, SlotInv
  <1>7. Cardinality(kept') <= MaxRetained
    <2>1. IsFiniteSet(room) /\ Cardinality(room) < MaxRetained
      BY <1>1, RetainedTable, RoomIsMade
    <2>2. Cardinality(room) \in Nat
      BY <2>1, FS_CardinalityType
    <2>3. Cardinality(kept') \in {Cardinality(room), Cardinality(room) + 1}
      <3> HIDE DEF n, room
      <3> QED BY <1>5, <2>1, FS_AddElement
    <2> QED BY <2>1, <2>2, <2>3, BoundAssumption
  <1>8. room \subseteq Retained /\ Retained \subseteq kept /\ kept \subseteq Jobs
    BY RetainedTable DEF IInv, TypeOK
  <1> HIDE DEF n, room
  <1>9. TypeOK'
    <2>1. answers' \subseteq [job : Jobs', says : Answers]
      BY <1>4 DEF IInv, TypeOK
    <2>2. polls' \in [Pollers -> Poll' \union {None}]
      BY <1>4 DEF IInv, TypeOK, Poll
    <2>3. timedOut' \subseteq Jobs' /\ writes' \subseteq Jobs' /\ saved' \subseteq Jobs'
          /\ active' \in Jobs' \union {None} /\ kept' \subseteq Jobs' /\ old' \subseteq kept'
      BY <1>4, <1>5, <1>8 DEF IInv, TypeOK
    <2> QED BY <1>2, <1>3, <1>7, <2>1, <2>2, <2>3 DEF TypeOK
  <1>10. SlotInv' /\ RunInv'
    BY <1>1, <1>2, <1>3, <1>4, <1>5, <1>6 DEF SlotInv, RunInv, Pending, Finished
  <1>11. SaveInv' /\ AnswerInv' /\ NoLateSave' /\ OutcomeIsTruthful'
    <2>1. timedOut \subseteq Jobs /\ writes \subseteq Jobs /\ saved \subseteq Jobs
      BY DEF IInv, TypeOK
    <2>2. SaveInv'
      BY <1>1, <1>2, <1>3, <1>4, <1>6, <2>1, NoneAssumption DEF IInv, SaveInv
    <2>3. NoLateSave'
      BY DEF IInv, NoLateSave
    <2>4. OutcomeIsTruthful'
      BY <1>1, <1>2, <1>4, <2>1 DEF IInv, OutcomeIsTruthful
    <2>5. AnswerInv'
      <3>1. \A a \in answers : a.job \in Jobs
        BY DEF IInv, TypeOK
      <3> QED BY <1>3, <1>4, <1>6, <3>1 DEF IInv, AnswerInv
    <2> QED BY <2>2, <2>3, <2>4, <2>5
  <1>12. RetryFindsItsJob'
    <2>1. \A j \in room : ~(job[j].owner = u /\ job[j].request = r)
      BY <1>8 DEF Matching
    <2>2. \A j, k \in room :
            job[j].owner = job[k].owner /\ job[j].request = job[k].request => j = k
      BY <1>8 DEF IInv, RetryFindsItsJob
    <2>3. \A j, k \in kept' :
            job'[j].owner = job'[k].owner /\ job'[j].request = job'[k].request => j = k
      BY <1>2, <1>5, <1>8, <2>1, <2>2
    <2> QED BY <1>3, <1>4, <1>5, <1>6, <2>3 DEF RetryFindsItsJob
  <1> QED BY <1>9, <1>10, <1>11, <1>12 DEF IInv

LEMMA StartInv ==
  ASSUME IInv, NEW u \in Owners, NEW r \in Requests, Start(u, r)
  PROVE  IInv'
  <1>1. CASE Matching(u, r) # {} \/ active # None
    BY <1>1, JoinInv DEF Start, store
  <1>2. CASE ~(Matching(u, r) # {} \/ active # None)
    BY <1>2, NewJobInv DEF Start, store
  <1> QED BY <1>1, <1>2

-----------------------------------------------------------------------------
(* Running a job *)

LEMMA TypeStep ==
  ASSUME TypeOK, job' \in Seq(PlanJob), Len(job') = Len(job), Jobs' = Jobs,
         phase' \in Seq(Phases), Len(phase') = Len(job),
         active' \in Jobs \union {None},
         timedOut' \subseteq Jobs, writes' \subseteq Jobs, saved' \subseteq Jobs,
         answers' \subseteq [job : Jobs, says : Answers],
         UNCHANGED <<kept, old, polls>>
  PROVE  TypeOK'
  <1>2. polls' \in [Pollers -> Poll' \union {None}]
    BY DEF TypeOK, Poll
  <1> QED BY <1>2 DEF TypeOK

LEMMA SameJobs ==
  ASSUME TypeOK, job' = job
  PROVE  job' \in Seq(PlanJob) /\ Len(job') = Len(job) /\ Jobs' = Jobs
  BY JobNumbers DEF Jobs

(* A job that is not done holds the slot, so when it leaves all are done.   *)
LEMMA LeaveStep ==
  ASSUME IInv, NEW j \in Jobs, phase[j] # "done", Leave(j)
  PROVE  /\ phase' \in Seq(Phases) /\ Len(phase') = Len(job)
         /\ \A k \in Jobs : phase'[k] = "done"
         /\ active' = None
  <1>1. active = j /\ (\A k \in Jobs : k # j => phase[k] = "done")
    BY DEF IInv, SlotInv
  <1>2. "done" \in Phases /\ SetPhase(j, "done")
    BY DEF Phases, Leave
  <1> QED BY <1>1, <1>2, PhaseStep DEF IInv, Leave

(* A job ends with a status and an error that are true of its plan.         *)
LEMMA EndInv ==
  ASSUME IInv, NEW j \in Jobs, phase[j] # "done", NEW s \in Statuses, NEW e \in Errors,
         Becomes(j, s, e), s = "RUNNING" => job[j].status = "RUNNING",
         s = "SUCCEEDED" => j \in saved,
         e = "limit" => j \in timedOut,
         e \in {"limit", "changed"} => j \notin writes \union saved,
         Leave(j), answers' \subseteq answers, \A a \in answers' : a.job # j,
         UNCHANGED <<timedOut, kept, old, writes, saved, polls>>
  PROVE  IInv'
  <1>1. job' \in Seq(PlanJob) /\ Len(job') = Len(job) /\ Jobs' = Jobs
    BY StatusStep DEF IInv
  <1>2. \A k \in Jobs :
          /\ job'[k].owner = job[k].owner /\ job'[k].request = job[k].request
          /\ job'[k].status = IF k = j THEN s ELSE job[k].status
          /\ job'[k].error = IF k = j THEN e ELSE job[k].error
    BY StatusStep DEF IInv
  <1>3. /\ phase' \in Seq(Phases) /\ Len(phase') = Len(job)
        /\ \A k \in Jobs : phase'[k] = "done"
        /\ active' = None
    BY LeaveStep
  <1>4. kept \subseteq Jobs /\ old \subseteq kept /\ answers' \subseteq [job : Jobs, says : Answers]
        /\ timedOut \subseteq Jobs /\ writes \subseteq Jobs /\ saved \subseteq Jobs
    BY DEF IInv, TypeOK
  <1>5. TypeOK'
    BY <1>1, <1>3, <1>4, TypeStep DEF IInv
  <1>6. SlotInv' /\ SaveInv'
    BY <1>1, <1>2, <1>3, <1>4 DEF IInv, SlotInv, SaveInv
  <1>7. RunInv'
    BY <1>1, <1>2, <1>3, <1>4 DEF IInv, RunInv, Pending, Finished
  <1>8. NoLateSave'
    BY DEF IInv, NoLateSave
  <1>9. OutcomeIsTruthful'
    BY <1>1, <1>2 DEF IInv, OutcomeIsTruthful
  <1>10. RetryFindsItsJob'
    BY <1>1, <1>2, <1>3, <1>4 DEF IInv, RetryFindsItsJob
  <1>11. AnswerInv'
    <2>1. answers' = {}
      <3>1. \A a \in answers : a.job \in Jobs /\ phase[a.job] = "saving"
        BY DEF IInv, TypeOK, AnswerInv
      <3>2. \A k \in Jobs : phase[k] # "done" => k = j
        BY DEF IInv, SlotInv
      <3> QED BY <3>1, <3>2
    <2> QED BY <1>1, <1>3, <2>1 DEF IInv, AnswerInv
  <1> QED BY <1>5, <1>6, <1>7, <1>8, <1>9, <1>10, <1>11 DEF IInv

(* The answers for a job that has not asked, or will not listen any more.   *)
LEMMA NoAnswers ==
  ASSUME IInv, NEW j \in Jobs
  PROVE  /\ phase[j] # "saving" => \A a \in answers : a.job # j
         /\ Unread(j) \subseteq answers /\ (\A a \in Unread(j) : a.job # j)
         /\ "plan id" \in Heard(j) => j \in saved
         /\ "changed" \in Heard(j) => j \notin writes \union saved
  <1>1. \A a \in answers : phase[a.job] = "saving"
    BY DEF IInv, AnswerInv
  <1>2. Unread(j) \subseteq answers /\ (\A a \in Unread(j) : a.job # j)
    BY DEF Unread
  <1>3. ASSUME NEW w \in Heard(j)
        PROVE  IF w = "plan id" THEN j \in saved ELSE j \notin writes \union saved
    <2>1. PICK a \in answers : a.job = j /\ a.says = w
      BY DEF Heard
    <2> QED BY <2>1 DEF IInv, AnswerInv
  <1> QED BY <1>1, <1>2, <1>3

LEMMA ScanSucceedsInv ==
  ASSUME IInv, NEW j \in Jobs, ScanSucceeds(j)
  PROVE  IInv'
  <1>1. job' \in Seq(PlanJob) /\ Len(job') = Len(job) /\ Jobs' = Jobs
    BY SameJobs DEF IInv, ScanSucceeds
  <1>2. /\ phase' \in Seq(Phases) /\ Len(phase') = Len(job)
        /\ \A k \in Jobs : phase'[k] = IF k = j THEN "saving" ELSE phase[k]
    <2>1. "saving" \in Phases /\ SetPhase(j, "saving")
      BY DEF Phases, ScanSucceeds
    <2> QED BY <2>1, PhaseStep DEF IInv
  <1>3. active \in Jobs \union {None}
        /\ timedOut \subseteq Jobs /\ writes \subseteq Jobs /\ saved \subseteq Jobs
        /\ kept \subseteq Jobs /\ old \subseteq kept /\ answers \subseteq [job : Jobs, says : Answers]
    BY DEF IInv, TypeOK
  <1>4. TypeOK'
    BY <1>1, <1>2, <1>3, TypeStep DEF IInv, ScanSucceeds
  <1>5. SlotInv' /\ RunInv'
    BY <1>1, <1>2, <1>3 DEF IInv, SlotInv, RunInv, Pending, Finished, ScanSucceeds
  <1>6. j \notin timedOut
    BY DEF IInv, SaveInv, ScanSucceeds
  <1>7. SaveInv' /\ NoLateSave'
    BY <1>1, <1>2, <1>3, <1>6 DEF IInv, SaveInv, NoLateSave, ScanSucceeds
  <1>8. OutcomeIsTruthful' /\ RetryFindsItsJob'
    <2>1. job[j].error = None
      BY DEF IInv, RunInv, Pending, ScanSucceeds
    <2>2. OutcomeIsTruthful'
      BY <1>1, <2>1, NoneAssumption DEF IInv, OutcomeIsTruthful, ScanSucceeds
    <2> QED BY <1>1, <1>2, <1>3, <2>2 DEF IInv, RetryFindsItsJob, ScanSucceeds
  <1>9. AnswerInv'
    <2>1. \A a \in answers : a.job \in Jobs /\ a.job # j
      BY <1>3, NoAnswers DEF ScanSucceeds
    <2>2. j \notin saved
      BY DEF IInv, SaveInv, ScanSucceeds
    <2> QED BY <1>1, <1>2, <2>1, <2>2 DEF IInv, AnswerInv, ScanSucceeds
  <1> QED BY <1>4, <1>5, <1>7, <1>8, <1>9 DEF IInv

LEMMA ScanTimesOutInv ==
  ASSUME IInv, NEW j \in Jobs, ScanTimesOut(j)
  PROVE  IInv'
  <1> USE DEF store
  <1>0. Becomes(j, "FAILED", "limit") /\ "FAILED" \in Statuses /\ "limit" \in Errors
    BY Ends DEF IInv, Statuses, Errors, ScanTimesOut
  <1>1. job' \in Seq(PlanJob) /\ Len(job') = Len(job) /\ Jobs' = Jobs
    BY <1>0, StatusStep DEF IInv
  <1>2. \A k \in Jobs :
          /\ job'[k].owner = job[k].owner /\ job'[k].request = job[k].request
          /\ job'[k].status = IF k = j THEN "FAILED" ELSE job[k].status
          /\ job'[k].error = IF k = j THEN "limit" ELSE job[k].error
    BY <1>0, StatusStep DEF IInv
  <1>3. /\ phase' \in Seq(Phases) /\ Len(phase') = Len(job)
        /\ \A k \in Jobs : phase'[k] = IF k = j THEN "draining" ELSE phase[k]
    <2>1. "draining" \in Phases /\ SetPhase(j, "draining")
      BY DEF Phases, ScanTimesOut
    <2> QED BY <2>1, PhaseStep DEF IInv
  <1>4. active \in Jobs \union {None}
        /\ timedOut \subseteq Jobs /\ writes \subseteq Jobs /\ saved \subseteq Jobs
        /\ kept \subseteq Jobs /\ old \subseteq kept /\ answers \subseteq [job : Jobs, says : Answers]
    BY DEF IInv, TypeOK
  <1>5. TypeOK'
    BY <1>1, <1>3, <1>4, TypeStep DEF IInv, ScanTimesOut
  <1>6. SlotInv' /\ RunInv'
    BY <1>1, <1>2, <1>3, <1>4 DEF IInv, SlotInv, RunInv, Pending, Finished, ScanTimesOut
  <1>7. j \notin writes /\ j \notin saved
    BY DEF IInv, SaveInv, ScanTimesOut
  <1>8. SaveInv' /\ NoLateSave'
    BY <1>1, <1>2, <1>3, <1>4, <1>7 DEF IInv, SaveInv, NoLateSave, ScanTimesOut
  <1>9. OutcomeIsTruthful' /\ RetryFindsItsJob'
    BY <1>1, <1>2, <1>3, <1>4, <1>7 DEF IInv, OutcomeIsTruthful, RetryFindsItsJob, ScanTimesOut
  <1>10. AnswerInv'
    <2>1. \A a \in answers : a.job \in Jobs /\ a.job # j
      BY <1>4, NoAnswers DEF ScanTimesOut
    <2> QED BY <1>1, <1>3, <2>1 DEF IInv, AnswerInv, ScanTimesOut
  <1> QED BY <1>5, <1>6, <1>8, <1>9, <1>10 DEF IInv

LEMMA SaveAnsweredInv ==
  ASSUME IInv, NEW j \in Jobs, SaveAnswered(j)
  PROVE  IInv'
  <1>1. job' \in Seq(PlanJob) /\ Len(job') = Len(job) /\ Jobs' = Jobs
    BY SameJobs DEF IInv, SaveAnswered
  <1>2. /\ phase' \in Seq(Phases) /\ Len(phase') = Len(job)
        /\ \A k \in Jobs : phase'[k] = IF k = j THEN "reloading" ELSE phase[k]
    <2>1. "reloading" \in Phases /\ SetPhase(j, "reloading")
      BY DEF Phases, SaveAnswered
    <2> QED BY <2>1, PhaseStep DEF IInv
  <1>3. active \in Jobs \union {None}
        /\ timedOut \subseteq Jobs /\ writes \subseteq Jobs /\ saved \subseteq Jobs
        /\ kept \subseteq Jobs /\ old \subseteq kept /\ answers \subseteq [job : Jobs, says : Answers]
    BY DEF IInv, TypeOK
  <1>4. j \in saved /\ answers' \subseteq answers /\ \A a \in answers' : a.job # j
    BY NoAnswers DEF SaveAnswered
  <1>5. TypeOK'
    BY <1>1, <1>2, <1>3, <1>4, TypeStep DEF IInv, SaveAnswered
  <1>6. SlotInv' /\ RunInv'
    BY <1>1, <1>2, <1>3 DEF IInv, SlotInv, RunInv, Pending, Finished, SaveAnswered
  <1>7. SaveInv' /\ NoLateSave' /\ OutcomeIsTruthful' /\ RetryFindsItsJob'
    <2>1. j \notin timedOut
      BY DEF IInv, SaveInv, SaveAnswered
    <2> QED BY <1>1, <1>2, <1>3, <2>1
         DEF IInv, SaveInv, NoLateSave, OutcomeIsTruthful, RetryFindsItsJob, SaveAnswered
  <1>8. AnswerInv'
    BY <1>1, <1>2, <1>3, <1>4 DEF IInv, AnswerInv, SaveAnswered
  <1> QED BY <1>5, <1>6, <1>7, <1>8 DEF IInv


LEMMA RunStepInv ==
  ASSUME IInv, NEW j \in Jobs, Run(j)
  PROVE  IInv'
  <1> USE DEF store
  <1>0. /\ \A e : Fail(j, e) => Becomes(j, "FAILED", e)
        /\ Succeed(j) => Becomes(j, "SUCCEEDED", job[j].error)
        /\ job' = job => Becomes(j, job[j].status, job[j].error)
        /\ job[j].status \in Statuses /\ job[j].error \in Errors
        /\ "FAILED" \in Statuses /\ "SUCCEEDED" \in Statuses
        /\ "other" \in Errors /\ "changed" \in Errors
    BY Ends DEF IInv, Statuses, Errors
  <1>1. CASE ScanSucceeds(j)
    BY <1>1, ScanSucceedsInv
  <1>2. CASE ScanFails(j)
    <2>1. /\ phase[j] # "done" /\ Becomes(j, "FAILED", "other") /\ Leave(j)
          /\ \A a \in answers : a.job # j
      BY <1>0, <1>2, NoAnswers DEF ScanFails
    <2> QED BY <1>0, <1>2, <2>1, EndInv DEF ScanFails
  <1>3. CASE ScanTimesOut(j)
    BY <1>3, ScanTimesOutInv
  <1>4. CASE Drain(j)
    <2>1. /\ phase[j] # "done" /\ Becomes(j, job[j].status, job[j].error) /\ Leave(j)
          /\ \A a \in answers : a.job # j
      BY <1>0, <1>4, NoAnswers DEF Drain
    <2>2. /\ job[j].status = "SUCCEEDED" => j \in saved
          /\ job[j].error = "limit" => j \in timedOut
          /\ job[j].error \in {"limit", "changed"} => j \notin writes \union saved
      BY DEF IInv, OutcomeIsTruthful, SaveInv
    <2> QED BY <1>0, <1>4, <2>1, <2>2, EndInv DEF Drain
  <1>5. CASE SaveAnswered(j)
    BY <1>5, SaveAnsweredInv
  <1>6. CASE SaveRefused(j)
    <2>1. /\ phase[j] # "done" /\ Becomes(j, "FAILED", "changed") /\ Leave(j)
          /\ j \notin writes \union saved
          /\ answers' \subseteq answers /\ \A a \in answers' : a.job # j
      BY <1>0, <1>6, NoAnswers DEF SaveRefused
    <2> QED BY <1>0, <1>6, <2>1, EndInv DEF SaveRefused
  <1>7. CASE SaveUnconfirmed(j)
    <2>1. /\ phase[j] # "done" /\ Becomes(j, "FAILED", "other") /\ Leave(j)
          /\ answers' \subseteq answers /\ \A a \in answers' : a.job # j
      BY <1>0, <1>7, NoAnswers DEF SaveUnconfirmed
    <2> QED BY <1>0, <1>7, <2>1, EndInv DEF SaveUnconfirmed
  <1>8. CASE SaveConfirmed(j)
    <2>1. /\ phase[j] # "done" /\ Becomes(j, "SUCCEEDED", job[j].error) /\ Leave(j)
          /\ \A a \in answers : a.job # j
      BY <1>0, <1>8, NoAnswers DEF SaveConfirmed
    <2>2. job[j].error = None /\ j \in saved
      BY <1>8 DEF IInv, RunInv, AnswerInv, Pending, SaveConfirmed
    <2>3. UNCHANGED <<timedOut, kept, old, writes, saved, answers, polls>>
      BY <1>8 DEF SaveConfirmed
    <2> QED BY <1>0, <2>1, <2>2, <2>3, EndInv, NoneAssumption
  <1>9. CASE ReloadFails(j)
    <2>1. /\ phase[j] # "done" /\ Becomes(j, "FAILED", "other") /\ Leave(j)
          /\ \A a \in answers : a.job # j
      BY <1>0, <1>9, NoAnswers DEF ReloadFails
    <2> QED BY <1>0, <1>9, <2>1, EndInv DEF ReloadFails
  <1> QED BY <1>1, <1>2, <1>3, <1>4, <1>5, <1>6, <1>7, <1>8, <1>9 DEF Run

-----------------------------------------------------------------------------
(* The rest: age, the database, status requests, a restart.                 *)

(* A step that leaves the jobs and the database alone keeps the invariant.  *)
LEMMA QuietInv ==
  ASSUME IInv, UNCHANGED <<runner, kept, store>>,
         old \subseteq old', old' \subseteq kept, \A j \in old' : Finished(j),
         polls' \in [Pollers -> Poll \union {None}]
  PROVE  IInv'
  <1>1. UNCHANGED <<job, phase, active, timedOut, kept, writes, saved, answers>> /\ Jobs' = Jobs
    BY DEF runner, store, Jobs
  <1>2. TypeOK'
    BY <1>1 DEF IInv, TypeOK, Poll
  <1>3. SlotInv' /\ RunInv' /\ SaveInv' /\ AnswerInv'
    BY <1>1 DEF IInv, SlotInv, RunInv, SaveInv, AnswerInv, Finished
  <1>4. NoLateSave' /\ OutcomeIsTruthful' /\ RetryFindsItsJob'
    BY <1>1 DEF IInv, NoLateSave, OutcomeIsTruthful, RetryFindsItsJob
  <1> QED BY <1>2, <1>3, <1>4 DEF IInv

(* The database handles a request once; the answer fits what it did, and    *)
(* waits only for a job that listens.                                       *)
LEMMA StoreInv ==
  ASSUME IInv, NEW j \in Jobs, CommitSave(j) \/ RefuseSave(j)
  PROVE  IInv'
  <1>1. UNCHANGED <<job, phase, active, timedOut, kept, old, polls>> /\ Jobs' = Jobs
    BY DEF CommitSave, RefuseSave, runner, Jobs
  <1>2. /\ j \in writes /\ j \notin saved /\ writes' = writes \ {j}
        /\ j \notin timedOut /\ phase[j] # "scanning"
        /\ job[j].error \notin {"limit", "changed"}
    BY DEF IInv, AnswerInv, NoLateSave, SaveInv, OutcomeIsTruthful, CommitSave, RefuseSave
  <1>3. PICK says \in Answers : /\ Answer(j, says)
                               /\ saved' = IF says = "plan id" THEN saved \union {j} ELSE saved
    BY DEF CommitSave, RefuseSave, Answers
  <1>4. \A a \in answers : a.job \in Jobs /\ a.job # j
    <2>1. \A a \in answers : IF a.says = "plan id" THEN a.job \in saved
                            ELSE a.job \notin writes \union saved
      BY DEF IInv, AnswerInv
    <2>2. \A a \in answers : a.job \in Jobs
      BY DEF IInv, TypeOK
    <2> QED BY <1>2, <2>1, <2>2
  <1>5. \A a \in answers' :
          a \notin answers => a = [job |-> j, says |-> says] /\ phase[j] = "saving"
    <2> SUFFICES ASSUME NEW a \in answers', a \notin answers
                 PROVE  a = [job |-> j, says |-> says] /\ phase[j] = "saving"
      OBVIOUS
    <2>1. answers' = IF phase[j] = "saving" THEN answers \union {[job |-> j, says |-> says]}
                     ELSE answers
      BY <1>3 DEF Answer
    <2>2. phase[j] = "saving"
      BY <2>1
    <2>3. a \in answers \union {[job |-> j, says |-> says]}
      BY <2>1, <2>2, Zenon
    <2> QED BY <2>2, <2>3
  <1>6. TypeOK'
    <2>1. answers' \subseteq [job : Jobs, says : Answers]
      <3>1. answers \subseteq [job : Jobs, says : Answers]
        BY DEF IInv, TypeOK
      <3>2. [job |-> j, says |-> says] \in [job : Jobs, says : Answers]
        BY <1>3
      <3> QED BY <1>5, <3>1, <3>2
    <2>2. writes' \subseteq Jobs /\ saved' \subseteq Jobs
      BY <1>2, <1>3 DEF IInv, TypeOK
    <2> QED BY <1>1, <2>1, <2>2 DEF IInv, TypeOK, Poll
  <1>7. SlotInv' /\ RunInv' /\ RetryFindsItsJob'
    BY <1>1 DEF IInv, SlotInv, RunInv, RetryFindsItsJob, Finished
  <1>8. SaveInv' /\ NoLateSave' /\ OutcomeIsTruthful'
    BY <1>1, <1>2, <1>3 DEF IInv, SaveInv, NoLateSave, OutcomeIsTruthful
  <1>9. AnswerInv'
    <2>1. writes' \intersect saved' = {}
      <3>1. writes \intersect saved = {}
        BY DEF IInv, AnswerInv
      <3>2. saved' \subseteq saved \union {j}
        BY <1>3
      <3> QED BY <1>2, <3>1, <3>2
    <2>2. \A k \in Jobs : phase'[k] = "reloading" => k \in saved'
      BY <1>1, <1>3 DEF IInv, AnswerInv
    <2>3. ASSUME NEW a \in answers'
          PROVE  /\ phase'[a.job] = "saving"
                 /\ IF a.says = "plan id" THEN a.job \in saved' ELSE a.job \notin writes' \union saved'
      <3>1. CASE a \in answers
        <4>1. a.job # j /\ phase'[a.job] = "saving"
          BY <1>1, <1>4, <3>1 DEF IInv, AnswerInv
        <4>2. IF a.says = "plan id" THEN a.job \in saved ELSE a.job \notin writes \union saved
          BY <3>1 DEF IInv, AnswerInv
        <4>3. /\ saved \subseteq saved' /\ saved' \subseteq saved \union {j}
              /\ writes' \subseteq writes
          BY <1>2, <1>3
        <4> QED BY <4>1, <4>2, <4>3
      <3>2. CASE a = [job |-> j, says |-> says] /\ phase[j] = "saving"
        BY <1>1, <1>2, <1>3, <3>2
      <3> QED BY <1>5, <3>1, <3>2
    <2> QED BY <1>1, <2>1, <2>2, <2>3 DEF AnswerInv
  <1> QED BY <1>6, <1>7, <1>8, <1>9 DEF IInv

LEMMA RestartInv ==
  ASSUME IInv, Restart
  PROVE  IInv'
  <1>1. job' \in Seq(PlanJob) /\ Len(job') = Len(job) /\ Jobs' = Jobs /\ job' = job
    BY SameJobs DEF IInv, Restart
  <1>2. /\ phase' \in Seq(Phases) /\ Len(phase') = Len(job)
        /\ \A j \in Jobs : phase'[j] = "done"
    <2>1. phase' = [j \in 1 .. Len(job) |-> "done"] /\ Len(job) \in Nat
      BY JobNumbers DEF IInv, Restart
    <2> QED BY <2>1, JobNumbers DEF IInv, Phases
  <1>3. Cardinality({}) <= MaxRetained
    BY FS_EmptySet, BoundAssumption
  <1>4. TypeOK'
    BY <1>1, <1>2, <1>3 DEF IInv, TypeOK, Restart, store
  <1>5. SlotInv' /\ RunInv' /\ SaveInv'
    BY <1>1, <1>2 DEF IInv, TypeOK, SlotInv, RunInv, SaveInv, Pending, Restart, store
  <1>6. NoLateSave' /\ OutcomeIsTruthful' /\ RetryFindsItsJob'
    BY <1>1, <1>2 DEF IInv, NoLateSave, OutcomeIsTruthful, RetryFindsItsJob, Restart, store
  <1>7. AnswerInv'
    BY <1>1, <1>2 DEF IInv, AnswerInv, Restart
  <1> QED BY <1>4, <1>5, <1>6, <1>7 DEF IInv

LEMMA PollStepInv ==
  ASSUME IInv, NEW p \in Pollers, PollJob(p) \/ ReadSnapshot(p) \/ AnswerPoll(p)
  PROVE  IInv'
  <1>1. polls \in [Pollers -> Poll \union {None}] /\ kept \subseteq Jobs /\ old \subseteq kept
    BY DEF IInv, TypeOK
  <1>2. polls' \in [Pollers -> Poll \union {None}]
    <2>1. CASE PollJob(p)
      <3>1. PICK j \in kept : polls' = [polls EXCEPT ![p] = [job |-> j, seen |-> None]]
        BY <2>1 DEF PollJob
      <3>2. [job |-> j, seen |-> None] \in Poll
        BY <1>1 DEF Poll
      <3> QED BY <1>1, <3>1, <3>2
    <2>2. CASE ReadSnapshot(p)
      <3>1. polls[p] \in Poll
        BY <1>1, <2>2 DEF ReadSnapshot
      <3>2. ASSUME NEW b \in BOOLEAN PROVE [polls[p] EXCEPT !.seen = b] \in Poll
        BY <3>1 DEF Poll
      <3>3. polls' = [polls EXCEPT ![p] = [polls[p] EXCEPT !.seen = polls[p].job \in saved]]
        BY <2>2 DEF ReadSnapshot
      <3>4. (polls[p].job \in saved) \in BOOLEAN
        OBVIOUS
      <3>5. [polls[p] EXCEPT !.seen = polls[p].job \in saved] \in Poll
        BY <3>2, <3>4, Zenon
      <3> QED BY <1>1, <3>3, <3>5
    <2>3. CASE AnswerPoll(p)
      BY <1>1, <2>3 DEF AnswerPoll
    <2> QED BY <2>1, <2>2, <2>3
  <1>3. UNCHANGED <<runner, kept, old, store>>
    BY DEF PollJob, ReadSnapshot, AnswerPoll
  <1> QED BY <1>1, <1>2, <1>3, QuietInv DEF IInv, RunInv

LEMMA NextIInv ==
  ASSUME IInv, [Next]_vars
  PROVE  IInv'
  <1>1. CASE \E u \in Owners, q \in Requests : Start(u, q)
    BY <1>1, StartInv
  <1>2. ASSUME NEW j \in Jobs, Age(j) PROVE IInv'
    BY <1>2, QuietInv DEF IInv, TypeOK, RunInv, Age
  <1>3. ASSUME NEW j \in Jobs, Run(j) PROVE IInv'
    BY <1>3, RunStepInv
  <1>4. ASSUME NEW j \in Jobs, CommitSave(j) \/ RefuseSave(j) PROVE IInv'
    BY <1>4, StoreInv
  <1>5. ASSUME NEW p \in Pollers, PollJob(p) \/ ReadSnapshot(p) \/ AnswerPoll(p) PROVE IInv'
    BY <1>5, PollStepInv
  <1>6. CASE Restart
    BY <1>6, RestartInv
  <1>7. CASE UNCHANGED vars
    BY <1>7, QuietInv DEF vars, IInv, TypeOK, RunInv
  <1> QED BY <1>1, <1>2, <1>3, <1>4, <1>5, <1>6, <1>7 DEF Next

-----------------------------------------------------------------------------
(* The state of the jobs, of the slot and of the database always fit        *)
(* together: IInv is inductive.                                             *)
THEOREM JobsInvariant == Spec => []IInv
  <1>1. Init => IInv
    BY InitIInv
  <1>2. IInv /\ [Next]_vars => IInv'
    BY NextIInv
  <1> QED BY <1>1, <1>2, PTL DEF Spec

(* Every reachable state is well typed: the table never holds more than     *)
(* MaxRetained jobs.                                                        *)
THEOREM JobsTypeCorrect == Spec => []TypeOK
  <1>1. IInv => TypeOK
    BY DEF IInv
  <1> QED BY <1>1, JobsInvariant, PTL

(* No two jobs scan at once, draining threads included.                     *)
THEOREM ScansAlone == Spec => []OneJobScans
  <1>1. IInv => OneJobScans
    <2> SUFFICES ASSUME IInv PROVE OneJobScans
      OBVIOUS
    <2>1. Threads \subseteq {active}
      BY DEF IInv, SlotInv, Threads
    <2>2. IsFiniteSet({active}) /\ Cardinality({active}) = 1 /\ Threads \in SUBSET {active}
      BY <2>1, FS_Singleton
    <2>3. IsFiniteSet(Threads) /\ Cardinality(Threads) <= Cardinality({active})
      BY <2>2, FS_Subset
    <2> QED BY <2>2, <2>3 DEF IInv, SlotInv, OneJobScans
  <1> QED BY <1>1, JobsInvariant, PTL

(* A scan past its limit has sent, and will send, nothing to the database.  *)
THEOREM LateScansAreDiscarded == Spec => []NoLateSave
  <1>1. IInv => NoLateSave
    BY DEF IInv
  <1> QED BY <1>1, JobsInvariant, PTL

(* SUCCEEDED is said only of a plan in the database, and a job said to have *)
(* saved nothing has saved nothing, whenever the answers come.              *)
THEOREM OutcomesAreTruthful == Spec => []OutcomeIsTruthful
  <1>1. IInv => OutcomeIsTruthful
    BY DEF IInv
  <1> QED BY <1>1, JobsInvariant, PTL

(* A request id never has two retained jobs, and a running job is retained. *)
THEOREM RetriesFindTheirJob == Spec => []RetryFindsItsJob
  <1>1. IInv => RetryFindsItsJob
    BY DEF IInv
  <1> QED BY <1>1, JobsInvariant, PTL
=============================================================================
