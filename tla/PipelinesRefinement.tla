------------------------ MODULE PipelinesRefinement ------------------------
(***************************************************************************)
(* The job engine implements StagedJobs: the handlers, the queue and their *)
(* locks (Pipelines) do nothing to a job that the promise does not allow.  *)
(***************************************************************************)
EXTENDS PipelinesProofs

\* The ids of jobs are within the bound of the model.
IDsBounded == nextID <= MaxID + 1

RInv == IInv /\ IDsBounded

\* Phase without its first case.
View(j) == IF j \in Queued THEN "offered"
           ELSE IF exec[j] \in Done THEN "done"
           ELSE IF jobs[j].status = "created" THEN "created" ELSE "taken"

\* What the views are of a state in which the invariant holds.
Viewed ==
  /\ DOMAIN jobs \subseteq 1..MaxID
  /\ JobPhase \in [1..MaxID -> Staged!Phases]
  /\ JobNeeds \in [1..MaxID -> SUBSET (1..MaxID)]
  /\ \A j \in DOMAIN jobs : JobPhase[j] = View(j)
  /\ \A j \in DOMAIN jobs : JobNeeds[j] = {i \in DOMAIN jobs : Before(i, j)}
  /\ \A j \in (1..MaxID) \ DOMAIN jobs : JobPhase[j] = "absent" /\ JobNeeds[j] = {}

LEMMA ViewedNow == RInv => Viewed
<1> SUFFICES ASSUME RInv PROVE Viewed
  OBVIOUS
<1>1. DOMAIN jobs \subseteq 1..MaxID
  BY MaxIDAssumption DEF RInv, IInv, TypeOK, IDsBounded
<1>2. \A j \in DOMAIN jobs : Phase(j) = View(j)
  <2> SUFFICES ASSUME NEW j \in DOMAIN jobs PROVE Phase(j) = View(j)
    OBVIOUS
  <2>1. j \in Queued => exec[j] = "none" /\ jobs[j].status = "pending"
    BY DEF RInv, IInv, OneHolder, JobFacts
  <2>2. jobs[j].status = "created" => exec[j] = "none"
    BY DEF RInv, IInv, JobFacts
  <2>3. CASE j \in Queued
    BY <2>1, <2>3 DEF Phase, View, Done
  <2>4. CASE j \notin Queued /\ exec[j] \in Done
    BY <2>2, <2>4 DEF Phase, View, Done
  <2>5. CASE j \notin Queued /\ exec[j] \notin Done /\ jobs[j].status = "created"
    BY <2>5 DEF Phase, View
  <2>6. CASE j \notin Queued /\ exec[j] \notin Done /\ jobs[j].status # "created"
    BY <2>6 DEF Phase, View
  <2> QED
    BY <2>3, <2>4, <2>5, <2>6
<1>3. \A j : View(j) \in Staged!Phases
  BY DEF View, Staged!Phases
<1>4. "absent" \in Staged!Phases
  BY DEF Staged!Phases
<1>5. \A j \in DOMAIN jobs : {i \in DOMAIN jobs : Before(i, j)} \subseteq 1..MaxID
  BY <1>1
<1>6. /\ JobPhase \in [1..MaxID -> Staged!Phases]
      /\ \A j \in DOMAIN jobs : JobPhase[j] = View(j)
      /\ \A j \in (1..MaxID) \ DOMAIN jobs : JobPhase[j] = "absent"
  BY <1>1, <1>2, <1>3, <1>4 DEF JobPhase
<1>7. /\ JobNeeds \in [1..MaxID -> SUBSET (1..MaxID)]
      /\ \A j \in DOMAIN jobs : JobNeeds[j] = {i \in DOMAIN jobs : Before(i, j)}
      /\ \A j \in (1..MaxID) \ DOMAIN jobs : JobNeeds[j] = {}
  BY <1>1, <1>5 DEF JobNeeds
<1> QED
  BY <1>1, <1>6, <1>7 DEF Viewed

LEMMA ViewedNext == RInv' => Viewed'
BY ViewedNow, PTL

LEMMA InOrderNow == IInv => StageOrder
<1> SUFFICES ASSUME IInv, NEW j \in DOMAIN jobs, NEW k \in DOMAIN jobs,
                    jobs[k].status # "created", Before(j, k)
             PROVE  exec[j] \in Done
  BY DEF StageOrder
<1> DEFINE p == jobs[k].pipeline
<1>1. PICK i \in 1..Len(pipelines[p].stages) :
        /\ Has(p, jobs[j].stage, i)
        /\ \A m \in 1..Len(pipelines[p].stages) : Has(p, jobs[k].stage, m) => i < m
  BY DEF Before
<1>2. jobs[j].pipeline = p
  BY DEF Before
<1>3. PICK m \in 1..Len(pipelines[p].stages) :
        pipelines[p].stages[m] = jobs[k].stage /\ m <= pipelines[p].stageIdx
  BY DEF IInv, StageFacts
<1>4. i < m
  BY <1>1, <1>3 DEF Has
<1>5. pipelines[p].stageIdx \in Nat
  BY DEF IInv, TypeOK
<1>6. i < pipelines[p].stageIdx
  BY <1>3, <1>4, <1>5
<1> QED
  BY <1>1, <1>2, <1>6 DEF IInv, StageFacts, Has

LEMMA InOrderNext == IInv' => StageOrder'
BY InOrderNow, PTL

-----------------------------------------------------------------------------
(* Steps that leave the jobs there are, and what they need, alone *)

\* No job comes, goes or changes its place.
SameJobs ==
  /\ DOMAIN jobs' = DOMAIN jobs
  /\ \A j \in DOMAIN jobs : jobs'[j].pipeline = jobs[j].pipeline /\ jobs'[j].stage = jobs[j].stage
  /\ \A p \in DOMAIN pipelines : pipelines'[p].stages = pipelines[p].stages

LEMMA NeedsKept ==
  ASSUME RInv, RInv', SameJobs
  PROVE  /\ JobNeeds' = JobNeeds
         /\ \A i, j \in DOMAIN jobs : Before(i, j)' <=> Before(i, j)
<1>0. Viewed /\ Viewed'
  BY ViewedNow, ViewedNext
<1>1. \A j \in DOMAIN jobs : jobs[j].pipeline \in DOMAIN pipelines
  BY DEF RInv, IInv, TypeOK
<1>2. \A i, j \in DOMAIN jobs : Before(i, j)' <=> Before(i, j)
  BY <1>1 DEF SameJobs, Before, Has
<1>3. \A j \in 1..MaxID : JobNeeds'[j] = JobNeeds[j]
  <2> SUFFICES ASSUME NEW j \in 1..MaxID PROVE JobNeeds'[j] = JobNeeds[j]
    OBVIOUS
  <2>1. CASE j \in DOMAIN jobs
    <3>1. JobNeeds[j] = {i \in DOMAIN jobs : Before(i, j)}
      BY <1>0, <2>1 DEF Viewed
    <3>2. JobNeeds'[j] = {i \in DOMAIN jobs' : Before(i, j)'}
      BY <1>0, <2>1 DEF Viewed, SameJobs
    <3>3. DOMAIN jobs' = DOMAIN jobs
      BY DEF SameJobs
    <3> HIDE DEF Before
    <3> QED
      BY <2>1, <3>1, <3>2, <3>3, <1>2
  <2>2. CASE j \notin DOMAIN jobs
    BY <1>0, <2>2 DEF Viewed, SameJobs
  <2> QED
    BY <2>1, <2>2
<1>4. JobNeeds = [j \in 1..MaxID |-> JobNeeds[j]] /\ JobNeeds' = [j \in 1..MaxID |-> JobNeeds'[j]]
  BY <1>0 DEF Viewed
<1>5. JobNeeds' = JobNeeds
  BY <1>3, <1>4
<1> QED
  BY <1>2, <1>5

\* Nothing that StagedJobs sees happens.
LEMMA Stutters ==
  ASSUME RInv, RInv', SameJobs, \A j \in DOMAIN jobs : View(j)' = View(j)
  PROVE  UNCHANGED <<JobPhase, JobNeeds>>
<1>0. Viewed /\ Viewed'
  BY ViewedNow, ViewedNext
<1>1. \A j \in 1..MaxID : JobPhase'[j] = JobPhase[j]
  BY <1>0 DEF Viewed, SameJobs
<1>2. JobPhase = [j \in 1..MaxID |-> JobPhase[j]] /\ JobPhase' = [j \in 1..MaxID |-> JobPhase'[j]]
  BY <1>0 DEF Viewed
<1>3. JobPhase' = JobPhase
  BY <1>1, <1>2
<1> QED
  BY <1>3, NeedsKept

\* One job goes on to another phase.
LEMMA OneMoves ==
  ASSUME RInv, RInv', SameJobs, NEW j \in DOMAIN jobs,
         \A i \in DOMAIN jobs \ {j} : View(i)' = View(i),
         \/ View(j) = "offered" /\ View(j)' = "taken"
         \/ View(j) = "taken" /\ View(j)' = "done"
  PROVE  Staged!Next
<1>0. Viewed /\ Viewed'
  BY ViewedNow, ViewedNext
<1>1. UNCHANGED JobNeeds
  BY NeedsKept
<1>2. j \in 1..MaxID /\ JobPhase[j] = View(j) /\ JobPhase'[j] = View(j)'
  BY <1>0 DEF Viewed, SameJobs
<1>3. \A i \in (1..MaxID) \ {j} : JobPhase'[i] = JobPhase[i]
  BY <1>0 DEF Viewed, SameJobs
<1>4. JobPhase' = [JobPhase EXCEPT ![j] = View(j)']
  BY <1>0, <1>2, <1>3 DEF Viewed
<1> HIDE DEF View
<1> QED
  BY <1>1, <1>2, <1>4 DEF Staged!Next, Staged!Take, Staged!Finish

-----------------------------------------------------------------------------
(* The steps that move no job, or only one *)

\* The runners, and a claim on its way to the runner.
LEMMA HandlerStutters ==
  ASSUME RInv, RInv', NEW c \in Calls,
         \/ UNCHANGED <<pipelines, jobs, queue, exec>>
         \/ ClaimMark(c)
         \/ ClaimRollUp(c)
         \/ ClaimRespond(c)
         \/ UpdateStatus(c)
  PROVE  UNCHANGED <<JobPhase, JobNeeds>>
<1> DEFINE j == calls[c].job
<1>1. CASE UNCHANGED <<pipelines, jobs, queue, exec>>
  <2>1. SameJobs
    BY <1>1 DEF SameJobs
  <2>2. \A i \in DOMAIN jobs : View(i)' = View(i)
    BY <1>1 DEF View, Queued
  <2> QED
    BY <2>1, <2>2, Stutters
<1>2. CASE ClaimMark(c)
  <2>1. /\ j \in DOMAIN jobs /\ j \notin Queued /\ exec[j] = "none"
        /\ jobs[j].status = "pending"
    BY <1>2 DEF ClaimMark, RInv, IInv, TypeOK, OneHolder, CallFacts, Claiming
  <2>2. /\ UNCHANGED <<pipelines, queue, exec>>
        /\ jobs' = [jobs EXCEPT ![j].status = "running"]
    BY <1>2 DEF ClaimMark
  <2>3. jobs[j] \in JobRec(DOMAIN pipelines)
    BY <2>1 DEF RInv, IInv, TypeOK, JobRec
  <2>4. /\ DOMAIN jobs' = DOMAIN jobs
        /\ \A i \in DOMAIN jobs \ {j} : jobs'[i] = jobs[i]
        /\ jobs'[j].status = "running"
        /\ jobs'[j].pipeline = jobs[j].pipeline /\ jobs'[j].stage = jobs[j].stage
    BY <2>1, <2>2, <2>3 DEF JobRec
  <2> HIDE DEF j
  <2>5. SameJobs
    BY <2>2, <2>4 DEF SameJobs
  <2>6. \A i \in DOMAIN jobs : View(i)' = View(i)
    BY <2>1, <2>2, <2>4 DEF View, Queued, Done
  <2> QED
    BY <2>5, <2>6, Stutters
<1>3. CASE ClaimRollUp(c)
  <2>1. UNCHANGED <<jobs, queue, exec>>
    BY <1>3 DEF ClaimRollUp
  <2>2. \A p \in DOMAIN pipelines :
          pipelines'[p] \in {pipelines[p], [pipelines[p] EXCEPT !.status = "running"]}
    BY <1>3 DEF ClaimRollUp
  <2>3. \A p \in DOMAIN pipelines : pipelines'[p].stages = pipelines[p].stages
    <3> TAKE p \in DOMAIN pipelines
    <3>1. pipelines[p] \in [project: Projects, stages: Seq(STRING), stageIdx: Nat \ {0},
                            status: {"running", "success", "failed"}]
      BY DEF RInv, IInv, TypeOK
    <3> QED
      BY <2>2, <3>1
  <2>4. SameJobs
    BY <2>1, <2>3 DEF SameJobs
  <2>5. \A i \in DOMAIN jobs : View(i)' = View(i)
    BY <2>1 DEF View, Queued
  <2> QED
    BY <2>4, <2>5, Stutters
<1>4. CASE ClaimRespond(c)
  <2>1. /\ j \in DOMAIN jobs /\ j \notin Queued /\ exec[j] = "none"
        /\ jobs[j].status = "running"
    BY <1>4 DEF ClaimRespond, RInv, IInv, TypeOK, OneHolder, CallFacts, Claiming
  <2>2. /\ UNCHANGED <<pipelines, jobs, queue>>
        /\ exec' = [exec EXCEPT ![j] = "executing"] \/ exec' = exec
    BY <1>4 DEF ClaimRespond
  <2>3. exec \in [DOMAIN jobs -> {"none", "executing"} \cup Done]
    BY DEF RInv, IInv, TypeOK
  <2>4. /\ \A i \in DOMAIN jobs \ {j} : exec'[i] = exec[i]
        /\ exec'[j] \in {"none", "executing"}
    BY <2>1, <2>2, <2>3
  <2> HIDE DEF j
  <2>5. SameJobs
    BY <2>2 DEF SameJobs
  <2>6. \A i \in DOMAIN jobs : View(i)' = View(i)
    BY <2>1, <2>2, <2>4 DEF View, Queued, Done
  <2> QED
    BY <2>5, <2>6, Stutters
<1>5. CASE UpdateStatus(c)
  <2>1. /\ j \in DOMAIN jobs /\ exec[j] # "none" /\ calls[c].state \in {"running"} \cup Done
        /\ j \notin Queued /\ jobs[j].status # "created"
    BY <1>5 DEF UpdateStatus, RInv, IInv, TypeOK, OneHolder, CallFacts, JobFacts, Reporting
  <2>2. /\ UNCHANGED <<pipelines, queue, exec>>
        /\ jobs' = [jobs EXCEPT ![j].status = calls[c].state]
    BY <1>5 DEF UpdateStatus
  <2>3. jobs[j] \in JobRec(DOMAIN pipelines)
    BY <2>1 DEF RInv, IInv, TypeOK, JobRec
  <2>4. /\ DOMAIN jobs' = DOMAIN jobs
        /\ \A i \in DOMAIN jobs \ {j} : jobs'[i] = jobs[i]
        /\ jobs'[j].status = calls[c].state
        /\ jobs'[j].pipeline = jobs[j].pipeline /\ jobs'[j].stage = jobs[j].stage
    BY <2>1, <2>2, <2>3 DEF JobRec
  <2> HIDE DEF j
  <2>5. SameJobs
    BY <2>2, <2>4 DEF SameJobs
  <2>6. \A i \in DOMAIN jobs : View(i)' = View(i)
    BY <2>1, <2>2, <2>4 DEF View, Queued, Done
  <2> QED
    BY <2>5, <2>6, Stutters
<1> QED
  BY <1>1, <1>2, <1>3, <1>4, <1>5

\* A poll takes the job at the head of the queue.
LEMMA ClaimTakes ==
  ASSUME RInv, RInv', NEW c \in Calls, NEW r \in Runners, ClaimDequeue(c, r)
  PROVE  Staged!Next
<1>0. PICK h : h = Head(queue)
  OBVIOUS
<1>1. /\ queue # << >> /\ queue' = Tail(queue)
      /\ UNCHANGED <<pipelines, jobs, exec>>
  BY DEF ClaimDequeue
<1>2. queue \in Seq(DOMAIN jobs) /\ IsInjective(queue)
  BY DEF RInv, IInv, TypeOK, OneHolder
<1>3. /\ h \in DOMAIN jobs /\ h \in Queued
      /\ Queued' = Queued \ {h}
  <2>1. /\ queue' \in Seq(DOMAIN jobs) /\ Len(queue') = Len(queue) - 1
        /\ \A i \in 1..Len(queue') : queue'[i] = queue[i + 1]
        /\ Len(queue) \in Nat \ {0} /\ h = queue[1] /\ queue[1] \in DOMAIN jobs
    BY <1>0, <1>1, <1>2
  <2>2. Queued = {queue[i] : i \in 1..Len(queue)} /\ Queued' = {queue'[i] : i \in 1..Len(queue')}
    BY <1>2, <2>1 DEF Queued, Range
  <2>3. \A i \in 2..Len(queue) : queue[i] # queue[1]
    BY <1>2, <2>1 DEF IsInjective
  <2>4. \A x : x \in Queued' => x \in Queued /\ x # h
    BY <2>1, <2>2, <2>3
  <2>5. \A x : x \in Queued /\ x # h => x \in Queued'
    <3> SUFFICES ASSUME NEW i \in 1..Len(queue), queue[i] # h PROVE queue[i] \in Queued'
      BY <2>2
    <3>1. i - 1 \in 1..Len(queue') /\ queue[i] = queue'[i - 1]
      BY <2>1
    <3> QED
      BY <2>2, <3>1
  <2>6. h \in DOMAIN jobs
    BY <2>1
  <2>7. h \in Queued
    BY <2>1, <2>2
  <2>8. Queued' = Queued \ {h}
    BY <2>4, <2>5
  <2> QED
    BY <2>6, <2>7, <2>8
<1>4. exec[h] = "none" /\ jobs[h].status = "pending"
  BY <1>3 DEF RInv, IInv, OneHolder, JobFacts
<1>5. SameJobs
  BY <1>1 DEF SameJobs
<1>6. \A i \in DOMAIN jobs \ {h} : View(i)' = View(i)
  BY <1>1, <1>3 DEF View
<1>7. View(h) = "offered" /\ View(h)' = "taken"
  BY <1>1, <1>3, <1>4 DEF View, Done
<1> QED
  BY <1>3, <1>5, <1>6, <1>7, OneMoves

\* A runner reports: its first verdict finishes the job, anything else is old news.
LEMMA UpdateFinishes ==
  ASSUME RInv, RInv', NEW c \in Calls, NEW j \in DOMAIN jobs,
         NEW s \in {"running"} \cup Done, UpdateCall(c, j, s)
  PROVE  Staged!Next \/ UNCHANGED <<JobPhase, JobNeeds>>
<1>1. /\ exec[j] = "executing" \/ (exec[j] \in Done /\ s = exec[j])
      /\ exec' = [exec EXCEPT ![j] = IF s = "running" THEN exec[j] ELSE s]
      /\ UNCHANGED <<pipelines, jobs, queue>>
  BY VerdictsAssumption DEF UpdateCall
<1>2. exec \in [DOMAIN jobs -> {"none", "executing"} \cup Done]
  BY DEF RInv, IInv, TypeOK
<1>3. j \notin Queued /\ jobs[j].status # "created"
  BY <1>1 DEF RInv, IInv, OneHolder, JobFacts, Done
<1>4. SameJobs
  BY <1>1 DEF SameJobs
<1>5. \A i \in DOMAIN jobs \ {j} : View(i)' = View(i)
  BY <1>1, <1>2 DEF View, Queued
<1>6. CASE s = "running" \/ exec[j] \in Done
  <2>1. exec'[j] = exec[j]
    BY <1>1, <1>2, <1>6 DEF Done
  <2>2. \A i \in DOMAIN jobs : View(i)' = View(i)
    BY <1>1, <1>5, <2>1 DEF View, Queued
  <2> QED
    BY <1>4, <2>2, Stutters
<1>7. CASE s # "running" /\ exec[j] \notin Done
  <2>1. exec'[j] \in Done
    BY <1>1, <1>2, <1>7
  <2>2. View(j) = "taken" /\ View(j)' = "done"
    BY <1>1, <1>3, <1>7, <2>1 DEF View, Queued
  <2> QED
    BY <1>4, <1>5, <2>2, OneMoves
<1> QED
  BY <1>6, <1>7

-----------------------------------------------------------------------------
(* The steps that offer jobs *)

\* What onJobTerminal leaves: the jobs of batch, none perhaps, are offered.
Releases(batch) ==
  /\ SameJobs
  /\ UNCHANGED exec
  /\ batch \subseteq DOMAIN jobs
  /\ Queued' = Queued \cup batch
  /\ \A j \in batch : jobs[j].status = "created" /\ jobs'[j].status = "pending"
  /\ \A j \in DOMAIN jobs \ batch : jobs'[j] = jobs[j]

LEMMA BatchIsOffered ==
  ASSUME RInv, RInv', NEW batch, Releases(batch)
  PROVE  Staged!Next \/ UNCHANGED <<JobPhase, JobNeeds>>
<1> USE DEF Releases
<1>0. Viewed /\ Viewed'
  BY ViewedNow, ViewedNext
<1>1. \A j \in DOMAIN jobs : j \in Queued => exec[j] = "none" /\ jobs[j].status = "pending"
  BY DEF RInv, IInv, OneHolder, JobFacts
<1>2. \A j \in batch : exec[j] = "none"
  BY DEF RInv, IInv, JobFacts
<1>3. \A j \in batch : View(j) = "created" /\ View(j)' = "offered"
  BY <1>1, <1>2 DEF View, Done
<1>4. \A j \in DOMAIN jobs \ batch : View(j)' = View(j)
  BY DEF View
<1>5. CASE batch = {}
  BY <1>4, <1>5, Stutters
<1>6. CASE batch # {}
  <2>1. UNCHANGED JobNeeds
    BY NeedsKept
  <2>2. \A j \in batch : JobPhase[j] = "created" /\ JobPhase'[j] = "offered"
    BY <1>0, <1>3 DEF Viewed, SameJobs
  <2>3. \A j \in (1..MaxID) \ batch : JobPhase'[j] = JobPhase[j]
    <3> SUFFICES ASSUME NEW j \in (1..MaxID) \ batch PROVE JobPhase'[j] = JobPhase[j]
      OBVIOUS
    <3>1. CASE j \in DOMAIN jobs
      BY <1>0, <1>4, <3>1 DEF Viewed, SameJobs
    <3>2. CASE j \notin DOMAIN jobs
      BY <1>0, <3>2 DEF Viewed, SameJobs
    <3> QED
      BY <3>1, <3>2
  <2>4. batch \subseteq 1..MaxID
    BY <1>0 DEF Viewed
  <2>5. Staged!Leaving("created") = batch
    BY <2>2, <2>3, <2>4 DEF Staged!Leaving
  <2>6. \A j \in batch : \A k \in JobNeeds[j] : JobPhase[k] = "done"
    <3> SUFFICES ASSUME NEW j \in batch, NEW k \in JobNeeds[j] PROVE JobPhase[k] = "done"
      OBVIOUS
    <3>1. k \in DOMAIN jobs /\ Before(k, j)
      BY <1>0 DEF Viewed
    <3>2. Before(k, j)'
      BY <3>1, NeedsKept
    <3>3. exec[k] \in Done
      BY <3>1, <3>2, InOrderNext DEF SameJobs, RInv, StageOrder
    <3>4. View(k) = "done"
      BY <1>1, <3>1, <3>3 DEF View, Done
    <3> QED
      BY <1>0, <3>1, <3>4 DEF Viewed
  <2>7. JobPhase' \in [1..MaxID -> Staged!Phases]
    BY <1>0 DEF Viewed
  <2>8. Staged!Offer
    BY <1>6, <2>1, <2>2, <2>3, <2>5, <2>6, <2>7 DEF Staged!Offer
  <2> QED
    BY <2>8 DEF Staged!Next
<1> QED
  BY <1>5, <1>6

\* onJobTerminal: the next stage is offered, or nothing is.
LEMMA TerminalReleases ==
  ASSUME IInv, NEW c \in Calls, UpdateTerminal(c)
  PROVE  \E batch : Releases(batch)
<1>0. PICK j, p, pl : j = calls[c].job /\ p = jobs[j].pipeline /\ pl = pipelines[p]
  OBVIOUS
<1>1. /\ calls[c].pc = "terminal" /\ OnJobTerminal(j, calls[c].state)
      /\ UNCHANGED <<nextID, exec>>
  BY <1>0 DEF UpdateTerminal
<1>2. /\ j \in DOMAIN jobs /\ p \in DOMAIN pipelines
      /\ pl \in [project: Projects, stages: Seq(STRING), stageIdx: Nat \ {0},
                 status: {"running", "success", "failed"}]
      /\ pl.stages # << >> /\ pl.stageIdx <= Len(pl.stages) + 1 /\ Len(pl.stages) \in Nat
  BY <1>0, <1>1 DEF IInv, TypeOK
<1>3. CASE UNCHANGED <<pipelines, jobs, queue>>
  <2>1. Releases({})
    BY <1>1, <1>3 DEF Releases, SameJobs, Queued
  <2> QED
    BY <2>1
<1>4. CASE pipelines' = [pipelines EXCEPT ![p].status = "failed"] /\ UNCHANGED <<jobs, queue>>
  <2>1. \A q \in DOMAIN pipelines : pipelines'[q].stages = pipelines[q].stages
    BY <1>0, <1>2, <1>4
  <2>2. SameJobs
    BY <1>4, <2>1 DEF SameJobs
  <2>3. Releases({})
    BY <1>1, <1>4, <2>2 DEF Releases, Queued
  <2> QED
    BY <2>3
<1>5. CASE EnqueueStage(p, Advanced(pl), jobs)
  <2> DEFINE N == nextID - 1
  <2>0. PICK ad : ad = Advanced(pl)
    OBVIOUS
  <2>1. PipelineRec(ad) /\ ad.stages = pl.stages
    BY <1>2, <2>0, AdvancedRec
  <2>2. /\ N \in Nat /\ DOMAIN jobs \subseteq 1..N /\ queue \in Seq(DOMAIN jobs)
        /\ \A i \in DOMAIN jobs : jobs[i] \in JobRec(DOMAIN pipelines)
    BY DEF IInv, TypeOK, JobRec
  <2>3. EnqueueStage(p, ad, jobs)
    BY <1>5, <2>0
  <2> HIDE DEF N
  <2>4. PICK i \in ad.stageIdx..(Len(ad.stages) + 1), batch \in SUBSET DOMAIN jobs :
           /\ i <= Len(ad.stages) => batch = Created(p, ad.stages[i], jobs)
           /\ i = Len(ad.stages) + 1 => batch = {}
           /\ jobs' = [k \in DOMAIN jobs |->
                         IF k \in batch THEN [jobs[k] EXCEPT !.status = "pending"] ELSE jobs[k]]
           /\ pipelines' = Put(pipelines, p,
                [ad EXCEPT !.stageIdx = i, !.status = RolledUp(@, i <= Len(ad.stages))])
           /\ Queued' = Queued \cup batch
    <3>1. \E i \in ad.stageIdx..(Len(ad.stages) + 1), batch \in SUBSET DOMAIN jobs :
           /\ i <= Len(ad.stages) => batch = Created(p, ad.stages[i], jobs)
           /\ i = Len(ad.stages) + 1 => batch = {}
           /\ \A k \in ad.stageIdx..(i - 1) : Created(p, ad.stages[k], jobs) = {}
           /\ jobs' = [k \in DOMAIN jobs |->
                         IF k \in batch THEN [jobs[k] EXCEPT !.status = "pending"] ELSE jobs[k]]
           /\ pipelines' = Put(pipelines, p,
                [ad EXCEPT !.stageIdx = i, !.status = RolledUp(@, i <= Len(ad.stages))])
           /\ queue' \in Seq(DOMAIN jobs)
           /\ Range(queue') = Queued \cup batch
           /\ IsInjective(queue) /\ Queued \cap batch = {} => IsInjective(queue')
      BY <2>1, <2>2, <2>3, EnqueueEffect, ZenonT(60)
    <3> QED
      BY <3>1, ZenonT(60) DEF Queued
  <2>5. \A k \in batch : jobs[k].status = "created"
    <3>1. i <= Len(ad.stages) \/ i = Len(ad.stages) + 1
      BY <2>1 DEF PipelineRec
    <3> QED
      BY <3>1, <2>4 DEF Created
  <2>6. /\ DOMAIN jobs' = DOMAIN jobs
        /\ \A k \in DOMAIN jobs \ batch : jobs'[k] = jobs[k]
        /\ \A k \in batch : jobs'[k] = [jobs[k] EXCEPT !.status = "pending"]
    BY <2>4
  <2>7. \A k \in batch : /\ jobs'[k].status = "pending"
                         /\ jobs'[k].pipeline = jobs[k].pipeline /\ jobs'[k].stage = jobs[k].stage
    BY <2>2, <2>6 DEF JobRec
  <2>8. \A q \in DOMAIN pipelines : pipelines'[q].stages = pipelines[q].stages
    BY <1>0, <1>2, <2>1, <2>4 DEF Put, PipelineRec
  <2>9. SameJobs
    BY <2>6, <2>7, <2>8 DEF SameJobs
  <2>10. Releases(batch)
    BY <1>1, <2>4, <2>5, <2>6, <2>7, <2>9 DEF Releases
  <2> QED
    BY <2>10
<1> QED
  BY <1>0, <1>1, <1>3, <1>4, <1>5 DEF OnJobTerminal

-----------------------------------------------------------------------------
(* A pipeline appears *)

\* What createPipelineLocked leaves: the jobs of ids are new, those of batch
\* are offered, and every other job and pipeline is as it was.
Appears(p, ids, batch) ==
  /\ ids # {} /\ ids \subseteq 1..MaxID /\ ids \cap DOMAIN jobs = {}
  /\ p \notin DOMAIN pipelines
  /\ batch \subseteq ids
  /\ DOMAIN jobs' = DOMAIN jobs \cup ids
  /\ \A j \in DOMAIN jobs : jobs'[j] = jobs[j] /\ exec'[j] = exec[j]
  /\ \A j \in ids : jobs'[j].pipeline = p /\ exec'[j] = "none"
  /\ \A j \in batch : jobs'[j].status = "pending"
  /\ \A j \in ids \ batch : jobs'[j].status = "created"
  /\ \A q \in DOMAIN pipelines : pipelines'[q].stages = pipelines[q].stages
  /\ Queued' = Queued \cup batch

LEMMA CreateEffect ==
  ASSUME IInv, NEW prj \in Projects, NEW cfg \in Configs, CreatePipeline(prj, cfg)
  PROVE  \E p, ids, batch, pl, js :
           /\ Appears(p, ids, batch)
           /\ PipelineRec(pl)
           /\ \A j \in DOMAIN js : js[j] \in JobRec(DOMAIN pipelines \cup {p})
           /\ EnqueueStage(p, pl, js)
<1>0. PICK p, n, ids, pl, js :
        /\ p = nextID /\ n = Len(cfg.jobs) /\ ids = (p + 1)..(p + n)
        /\ pl = [project |-> prj, stages |-> cfg.stages, stageIdx |-> 1, status |-> "pending"]
        /\ js = [j \in DOMAIN jobs \cup ids |->
                   IF j \in ids
                   THEN [pipeline |-> p, stage |-> cfg.jobs[j - p], status |-> "created"]
                   ELSE jobs[j]]
  OBVIOUS
<1>1. /\ p + n <= MaxID
      /\ EnqueueStage(p, pl, js)
      /\ exec' = [j \in DOMAIN js |-> IF j \in ids THEN "none" ELSE exec[j]]
  BY <1>0, Zenon DEF CreatePipeline
<1>2. /\ cfg.stages \in Seq(STRING) /\ cfg.stages # << >>
      /\ cfg.jobs \in Seq(STRING) /\ n \in Nat \ {0}
      /\ \A k \in 1..n : cfg.jobs[k] \in STRING
  BY <1>0, ConfigsAssumption
<1>3. /\ p \in Nat \ {0} /\ DOMAIN pipelines \subseteq 1..(p - 1)
      /\ DOMAIN jobs \subseteq 1..(p - 1) /\ queue \in Seq(DOMAIN jobs)
  BY <1>0 DEF IInv, TypeOK
<1>4. /\ ids # {} /\ ids \subseteq 1..MaxID /\ ids \cap DOMAIN jobs = {}
      /\ p \notin DOMAIN pipelines
  <2>1. p + 1 \in ids
    BY <1>0, <1>2, <1>3
  <2>2. ids \subseteq 1..MaxID
    BY <1>0, <1>1, <1>2, <1>3, MaxIDAssumption
  <2>3. ids \cap DOMAIN jobs = {}
    BY <1>0, <1>2, <1>3
  <2>4. p \notin DOMAIN pipelines
    BY <1>3
  <2> QED
    BY <2>1, <2>2, <2>3, <2>4
<1>5. DOMAIN js = DOMAIN jobs \cup ids /\ DOMAIN js \subseteq 1..(p + n)
  BY <1>0, <1>2, <1>3
<1>6. \A j \in DOMAIN jobs : js[j] = jobs[j] /\ jobs[j] \in JobRec(DOMAIN pipelines)
  BY <1>0, <1>4 DEF IInv, TypeOK, JobRec
<1>7. \A j \in ids : /\ js[j] = [pipeline |-> p, stage |-> cfg.jobs[j - p], status |-> "created"]
                     /\ cfg.jobs[j - p] \in STRING
  <2> TAKE j \in ids
  <2>1. j - p \in 1..n
    BY <1>0, <1>2, <1>3
  <2> QED
    BY <1>0, <2>1, <1>2
<1>8. \A j \in DOMAIN js : js[j] \in JobRec(DOMAIN pipelines \cup {p})
  <2>1. \A j \in DOMAIN jobs : js[j] \in JobRec(DOMAIN pipelines \cup {p})
    BY <1>6 DEF JobRec
  <2>2. \A j \in ids : js[j] \in JobRec(DOMAIN pipelines \cup {p})
    <3> TAKE j \in ids
    <3>1. PICK st \in STRING : js[j] = [pipeline |-> p, stage |-> st, status |-> "created"]
      BY <1>7
    <3>2. p \in DOMAIN pipelines \cup {p}
      OBVIOUS
    <3> QED
      BY ONLY <3>1, <3>2 DEF JobRec
  <2> QED
    BY <1>5, <2>1, <2>2
<1>9. PipelineRec(pl) /\ queue \in Seq(DOMAIN js) /\ p + n \in Nat
  BY <1>0, <1>2, <1>3, <1>5 DEF PipelineRec
<1>10. PICK i \in pl.stageIdx..(Len(pl.stages) + 1), batch \in SUBSET DOMAIN js :
         /\ i <= Len(pl.stages) => batch = Created(p, pl.stages[i], js)
         /\ i = Len(pl.stages) + 1 => batch = {}
         /\ jobs' = [j \in DOMAIN js |->
                       IF j \in batch THEN [js[j] EXCEPT !.status = "pending"] ELSE js[j]]
         /\ pipelines' = Put(pipelines, p,
              [pl EXCEPT !.stageIdx = i, !.status = RolledUp(@, i <= Len(pl.stages))])
         /\ Queued' = Queued \cup batch
  <2>1. PICK i \in pl.stageIdx..(Len(pl.stages) + 1), batch \in SUBSET DOMAIN js :
           /\ i <= Len(pl.stages) => batch = Created(p, pl.stages[i], js)
           /\ i = Len(pl.stages) + 1 => batch = {}
           /\ \A k \in pl.stageIdx..(i - 1) : Created(p, pl.stages[k], js) = {}
           /\ jobs' = [j \in DOMAIN js |->
                         IF j \in batch THEN [js[j] EXCEPT !.status = "pending"] ELSE js[j]]
           /\ pipelines' = Put(pipelines, p,
                [pl EXCEPT !.stageIdx = i, !.status = RolledUp(@, i <= Len(pl.stages))])
           /\ queue' \in Seq(DOMAIN js)
           /\ Range(queue') = Queued \cup batch
           /\ IsInjective(queue) /\ Queued \cap batch = {} => IsInjective(queue')
    BY <1>1, <1>5, <1>8, <1>9, EnqueueEffect, ZenonT(60)
  <2>2. Queued' = Queued \cup batch
    BY <2>1 DEF Queued
  <2> QED
    BY <2>1, <2>2, ZenonT(60)
<1>11. batch \subseteq ids
  <2>1. \A j \in DOMAIN jobs : js[j].pipeline # p
    BY <1>4, <1>6 DEF JobRec
  <2>2. i <= Len(pl.stages) \/ i = Len(pl.stages) + 1
    BY <1>9 DEF PipelineRec
  <2> QED
    BY <1>5, <1>10, <2>1, <2>2 DEF Created
<1>12. /\ DOMAIN jobs' = DOMAIN jobs \cup ids
       /\ \A j \in DOMAIN jobs : jobs'[j] = jobs[j]
  BY <1>4, <1>5, <1>6, <1>10, <1>11
<1>13. /\ \A j \in ids : jobs'[j].pipeline = p
       /\ \A j \in batch : jobs'[j].status = "pending"
       /\ \A j \in ids \ batch : jobs'[j].status = "created"
  BY <1>5, <1>7, <1>10, <1>11
<1>14. /\ \A j \in DOMAIN jobs : exec'[j] = exec[j]
       /\ \A j \in ids : exec'[j] = "none"
  BY <1>1, <1>4, <1>5
<1>15. \A q \in DOMAIN pipelines : pipelines'[q].stages = pipelines[q].stages
  BY <1>4, <1>10 DEF Put
<1>16. Appears(p, ids, batch)
  BY <1>4, <1>10, <1>11, <1>12, <1>13, <1>14, <1>15 DEF Appears
<1> QED
  BY <1>1, <1>8, <1>9, <1>16, Zenon

LEMMA CreateAppears ==
  ASSUME IInv, NEW prj \in Projects, NEW cfg \in Configs, CreatePipeline(prj, cfg)
  PROVE  \E p, ids, batch : Appears(p, ids, batch)
BY CreateEffect, Zenon

LEMMA CreateIsCreate ==
  ASSUME RInv, RInv', NEW p, NEW ids, NEW batch, Appears(p, ids, batch)
  PROVE  Staged!Create
<1>0. Viewed /\ Viewed'
  BY ViewedNow, ViewedNext
<1>1. \A j \in DOMAIN jobs : jobs[j].pipeline \in DOMAIN pipelines
  BY DEF RInv, IInv, TypeOK
<1>2. Queued \subseteq DOMAIN jobs
  BY DEF RInv, IInv, TypeOK, Queued, Range
<1>3. \A j \in DOMAIN jobs : JobPhase'[j] = JobPhase[j]
  <2>1. \A j \in DOMAIN jobs : View(j)' = View(j)
    BY DEF Appears, View
  <2> QED
    BY <1>0, <2>1 DEF Viewed, Appears
<1>4. \A j \in DOMAIN jobs : JobNeeds'[j] = JobNeeds[j]
  <2> SUFFICES ASSUME NEW j \in DOMAIN jobs PROVE JobNeeds'[j] = JobNeeds[j]
    OBVIOUS
  <2>1. \A i \in DOMAIN jobs : Before(i, j)' <=> Before(i, j)
    <3> TAKE i \in DOMAIN jobs
    <3>1. /\ jobs'[i] = jobs[i] /\ jobs'[j] = jobs[j]
          /\ pipelines'[jobs[j].pipeline].stages = pipelines[jobs[j].pipeline].stages
      BY <1>1 DEF Appears
    <3> QED
      BY <3>1 DEF Before, Has
  <2>2. \A i \in ids : ~Before(i, j)'
    BY <1>1 DEF Appears, Before
  <2>3. DOMAIN jobs' = DOMAIN jobs \cup ids
    BY DEF Appears
  <2>4. JobNeeds[j] = {i \in DOMAIN jobs : Before(i, j)}
    BY <1>0 DEF Viewed
  <2>5. JobNeeds'[j] = {i \in DOMAIN jobs' : Before(i, j)'}
    BY <1>0, <2>3 DEF Viewed
  <2> HIDE DEF Before
  <2> QED
    BY <2>1, <2>2, <2>3, <2>4, <2>5
<1>5. \A j \in (1..MaxID) \ ids : JobPhase'[j] = JobPhase[j] /\ JobNeeds'[j] = JobNeeds[j]
  <2> SUFFICES ASSUME NEW j \in (1..MaxID) \ ids
               PROVE  JobPhase'[j] = JobPhase[j] /\ JobNeeds'[j] = JobNeeds[j]
    OBVIOUS
  <2>1. CASE j \in DOMAIN jobs
    BY <1>3, <1>4, <2>1
  <2>2. CASE j \notin DOMAIN jobs
    BY <1>0, <2>2 DEF Viewed, Appears
  <2> QED
    BY <2>1, <2>2
<1>6. \A j \in ids : JobNeeds'[j] \subseteq ids
  <2>1. \A j \in ids : \A i \in DOMAIN jobs : ~Before(i, j)'
    <3> TAKE j \in ids
    <3> TAKE i \in DOMAIN jobs
    <3>1. jobs'[i].pipeline # p /\ jobs'[j].pipeline = p
      BY <1>1 DEF Appears
    <3> QED
      BY <3>1 DEF Before
  <2> QED
    BY <1>0, <2>1 DEF Viewed, Appears
<1>7. \A j \in batch : JobPhase'[j] = "offered" /\ JobNeeds'[j] = {}
  <2> SUFFICES ASSUME NEW j \in batch PROVE JobPhase'[j] = "offered" /\ JobNeeds'[j] = {}
    OBVIOUS
  <2>1. j \in DOMAIN jobs' /\ j \in ids /\ jobs'[j].status = "pending" /\ j \in Queued'
    BY DEF Appears
  <2>2. View(j)' = "offered"
    BY <2>1 DEF View
  <2>3. \A k \in JobNeeds'[j] : FALSE
    <3> SUFFICES ASSUME NEW k \in JobNeeds'[j] PROVE FALSE
      OBVIOUS
    <3>1. k \in DOMAIN jobs' /\ Before(k, j)'
      BY <1>0, <2>1 DEF Viewed
    <3>2. exec'[k] \in Done
      BY <2>1, <3>1, InOrderNext DEF RInv, StageOrder
    <3>3. exec'[k] = "none"
      BY <1>6, <2>1 DEF Appears
    <3> QED
      BY <3>2, <3>3 DEF Done
  <2> QED
    BY <1>0, <2>1, <2>2, <2>3 DEF Viewed
<1>8. \A j \in ids \ batch : JobPhase'[j] = "created"
  <2> SUFFICES ASSUME NEW j \in ids \ batch PROVE JobPhase'[j] = "created"
    OBVIOUS
  <2>1. j \in DOMAIN jobs' /\ j \notin Queued' /\ exec'[j] = "none" /\ jobs'[j].status = "created"
    BY <1>2 DEF Appears
  <2>2. View(j)' = "created"
    BY <2>1 DEF View, Done
  <2> QED
    BY <1>0, <2>1, <2>2 DEF Viewed
<1>9. Staged!Leaving("absent") = ids
  <2>1. \A j \in ids : JobPhase[j] = "absent" /\ JobPhase'[j] # "absent"
    BY <1>0, <1>7, <1>8 DEF Viewed, Appears
  <2>2. ids \subseteq 1..MaxID
    BY DEF Appears
  <2> QED
    BY <1>5, <2>1, <2>2 DEF Staged!Leaving
<1>10. /\ JobPhase' \in [1..MaxID -> Staged!Phases]
       /\ JobNeeds' \in [1..MaxID -> SUBSET (1..MaxID)]
       /\ ids # {}
  BY <1>0 DEF Viewed, Appears
<1> QED
  BY <1>5, <1>6, <1>7, <1>8, <1>9, <1>10 DEF Staged!Create

-----------------------------------------------------------------------------
LEMMA StepRefines ==
  ASSUME RInv, RInv', [Next]_vars
  PROVE  Staged!Next \/ UNCHANGED <<JobPhase, JobNeeds>>
<1>1. ASSUME NEW r \in Runners, Register(r) \/ Unregister(r)
      PROVE  UNCHANGED <<JobPhase, JobNeeds>>
  <2>1. UNCHANGED <<pipelines, jobs, queue, exec>>
    BY <1>1 DEF Register, Unregister
  <2>2. SameJobs
    BY <2>1 DEF SameJobs
  <2>3. \A i \in DOMAIN jobs : View(i)' = View(i)
    BY <2>1 DEF View, Queued
  <2> QED
    BY <2>2, <2>3, Stutters
<1>2. ASSUME NEW prj \in Projects, NEW cfg \in Configs, CreatePipeline(prj, cfg)
      PROVE  Staged!Next
  BY <1>2, CreateAppears, CreateIsCreate DEF RInv, Staged!Next
<1>3. ASSUME NEW c \in Calls, NEW r \in Runners, ClaimDequeue(c, r)
      PROVE  Staged!Next
  BY <1>3, ClaimTakes
<1>4. ASSUME NEW c \in Calls,
             ClaimMark(c) \/ ClaimRollUp(c) \/ ClaimRespond(c) \/ UpdateStatus(c)
      PROVE  UNCHANGED <<JobPhase, JobNeeds>>
  BY <1>4, HandlerStutters
<1>5. ASSUME NEW c \in Calls, NEW j \in DOMAIN jobs, NEW s \in {"running"} \cup Done,
             UpdateCall(c, j, s)
      PROVE  Staged!Next \/ UNCHANGED <<JobPhase, JobNeeds>>
  BY <1>5, UpdateFinishes
<1>6. ASSUME NEW c \in Calls, UpdateTerminal(c)
      PROVE  Staged!Next \/ UNCHANGED <<JobPhase, JobNeeds>>
  BY <1>6, TerminalReleases, BatchIsOffered DEF RInv
<1>7. CASE UNCHANGED vars
  <2>1. SameJobs
    BY <1>7 DEF SameJobs, vars
  <2>2. \A i \in DOMAIN jobs : View(i)' = View(i)
    BY <1>7 DEF View, Queued, vars
  <2> QED
    BY <2>1, <2>2, Stutters
<1> QED
  BY <1>1, <1>2, <1>3, <1>4, <1>5, <1>6, <1>7 DEF Next

LEMMA IDsStayBounded == Spec => []IDsBounded
<1>1. Init => IDsBounded
  BY MaxIDAssumption DEF Init, IDsBounded
<1>2. TypeOK /\ IDsBounded /\ [Next]_vars => IDsBounded'
  <2> SUFFICES ASSUME TypeOK, IDsBounded, [Next]_vars PROVE IDsBounded'
    OBVIOUS
  <2>1. nextID \in Nat
    BY DEF TypeOK
  <2>2. ASSUME NEW r \in Runners, Register(r) PROVE IDsBounded'
    BY <2>1, <2>2, MaxIDAssumption DEF Register, IDsBounded
  <2>3. ASSUME NEW prj \in Projects, NEW cfg \in Configs, CreatePipeline(prj, cfg)
        PROVE  IDsBounded'
    <3>1. Len(cfg.jobs) \in Nat
      BY ConfigsAssumption
    <3>2. nextID + Len(cfg.jobs) <= MaxID /\ nextID' = nextID + Len(cfg.jobs) + 1
      BY <2>3 DEF CreatePipeline
    <3> QED
      BY <2>1, <3>1, <3>2, MaxIDAssumption DEF IDsBounded
  <2>4. nextID' = nextID => IDsBounded'
    BY DEF IDsBounded
  <2> QED
    BY <2>2, <2>3, <2>4 DEF Next, vars, Unregister, ClaimDequeue, ClaimMark, ClaimRollUp,
       ClaimRespond, UpdateCall, UpdateStatus, UpdateTerminal
<1> QED
  BY <1>1, <1>2, TypeCorrect, PTL DEF Spec

\* However polls, PUTs, retries and lost answers interleave (pipeline.go,
\* runner_api.go), every job is offered once, after all it needs is done, is
\* taken once, and gets one verdict: each step of the handlers is a step of
\* StagedJobs or one it does not see.
THEOREM ImplementsStagedJobs == Spec => RefinesStagedJobs
<1>1. Init => Staged!Init
  <2> SUFFICES ASSUME Init PROVE Staged!Init
    OBVIOUS
  <2>1. DOMAIN jobs = {}
    BY DEF Init
  <2> QED
    BY <2>1 DEF Staged!Init, JobPhase, JobNeeds
<1>2. RInv /\ RInv' /\ [Next]_vars => [Staged!Next]_<<JobPhase, JobNeeds>>
  BY StepRefines
<1>3. Spec => []RInv
  BY Invariance, IDsStayBounded, PTL DEF RInv
<1> QED
  BY <1>1, <1>2, <1>3, PTL DEF Spec, RefinesStagedJobs, Staged!Spec
=============================================================================
