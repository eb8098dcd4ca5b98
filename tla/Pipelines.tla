----------------------------- MODULE Pipelines -----------------------------
(***************************************************************************)
(* The CI execution model of bleeplab: runners, pipelines, jobs, the job   *)
(* queue, and the HTTP handlers through which a fleet of gitlab-runners    *)
(* drives them (pipeline.go, runner_api.go, projects_api.go, store.go).    *)
(*                                                                         *)
(* Every handler runs on a goroutine of its own.  s.mu guards the maps,    *)
(* the counter, the queue and the pipelines; a job's status is guarded by  *)
(* that job's own mutex.  A handler that takes the locks one after the     *)
(* other is several actions, one per critical section, and the value of    *)
(* `calls' says where each handler in flight stands between them.          *)
(***************************************************************************)
EXTENDS Integers, Sequences, FiniteSets, Functions

CONSTANTS
  Projects,   \* the projects (created before the pipelines studied here)
  Runners,    \* the runner authentication tokens that may ever be minted
  Calls,      \* runner-API handlers that may be in flight at once
  Configs,    \* parsed CI configurations: [stages, jobs], jobs[i] the stage of job i
  Verdicts,   \* the outcomes a build can have
  MaxID,      \* bound on the ids the server hands out
  Overlap,    \* a runner may send a PUT for a job while an earlier one is unanswered
  Lossy       \* the 201 that carries a claimed job may never reach the runner

Done == {"success", "failed"}

ASSUME CallsAssumption    == IsFiniteSet(Calls)
ASSUME VerdictsAssumption == Verdicts \subseteq Done
ASSUME MaxIDAssumption    == MaxID \in Nat
ASSUME FlagsAssumption    == Overlap \in BOOLEAN /\ Lossy \in BOOLEAN

\* parseCIConfig rejects a configuration without a job and always leaves at
\* least one stage, declared or defaulted.
ASSUME ConfigsAssumption ==
  \A cfg \in Configs : /\ DOMAIN cfg = {"stages", "jobs"}
                       /\ cfg.stages \in Seq(STRING) /\ cfg.stages # << >>
                       /\ cfg.jobs \in Seq(STRING) /\ cfg.jobs # << >>

VARIABLES
  nextID,     \* s.nextID: one counter for runners, pipelines and jobs
  runners,    \* s.runners: which tokens are valid now
  pipelines,  \* s.pipelines: id -> [project, stages, stageIdx, status]
  jobs,       \* s.jobs: id -> [pipeline, stage, status]
  queue,      \* s.queue: ids waiting for a runner
  calls,      \* the runner-API handlers in flight
  exec        \* what the runner fleet knows of each job

vars == <<nextID, runners, pipelines, jobs, queue, calls, exec>>

Idle == [pc |-> "idle", job |-> 0, state |-> "running"]

Claiming  == {"mark", "rollup", "respond"}   \* inside handleJobRequest
Reporting == {"status", "terminal"}          \* inside handleJobUpdate

Put(f, k, v) == [x \in DOMAIN f \cup {k} |-> IF x = k THEN v ELSE f[x]]
Queued       == Range(queue)
JobIDs(p)    == {j \in DOMAIN jobs : jobs[j].pipeline = p}

TypeOK ==
  /\ nextID \in Nat \ {0}
  /\ runners \in [Runners -> {"new", "registered", "gone"}]
  /\ DOMAIN pipelines \subseteq 1..(nextID - 1)
  /\ \A p \in DOMAIN pipelines :
       /\ pipelines[p] \in [project: Projects, stages: Seq(STRING), stageIdx: Nat \ {0},
                            status: {"running", "success", "failed"}]
       /\ pipelines[p].stages # << >>
       /\ pipelines[p].stageIdx <= Len(pipelines[p].stages) + 1
  /\ DOMAIN jobs \subseteq 1..(nextID - 1)
  /\ \A j \in DOMAIN jobs :
       jobs[j] \in [pipeline: DOMAIN pipelines, stage: STRING,
                    status: {"created", "pending", "running"} \cup Done]
  /\ queue \in Seq(DOMAIN jobs)
  /\ calls \in [Calls -> [pc: {"idle"} \cup Claiming \cup Reporting,
                          job: DOMAIN jobs \cup {0}, state: {"running"} \cup Done]]
  /\ \A c \in Calls : calls[c].pc # "idle" => calls[c].job \in DOMAIN jobs
  /\ exec \in [DOMAIN jobs -> {"none", "executing"} \cup Done]

-----------------------------------------------------------------------------
(* Pipelines and stages *)

\* Faulty variant of Created: forgets the status, so a stage that is declared
\* twice is enqueued twice.
CreatedAnyStatus(p, stage, js) ==
  {j \in DOMAIN js : js[j].pipeline = p /\ js[j].stage = stage}

Created(p, stage, js) ==
  {j \in DOMAIN js : js[j].pipeline = p /\ js[j].stage = stage /\ js[j].status = "created"}

\* seq lists the finite set S of ids in increasing order, the order of JobIDs.
InOrder(seq, S) ==
  /\ S = Range(seq)
  /\ \A i, k \in DOMAIN seq : i < k => seq[i] < seq[k]

\* Faulty variants of RolledUp: one leaves the status alone when a stage was
\* enqueued, the other completes only a pipeline that never ran.
RolledUpLate(status, found) ==
  IF ~found /\ status \in {"pending", "running"} THEN "success" ELSE status

RolledUpPendingOnly(status, found) ==
  IF found THEN "running" ELSE IF status = "pending" THEN "success" ELSE status

\* The pipeline status enqueueStageLocked leaves, found saying whether it
\* enqueued a stage.
RolledUp(status, found) ==
  IF found THEN "running"
  ELSE IF status \in {"pending", "running"} THEN "success" ELSE status

\* enqueueStageLocked on pipeline p, whose record is pl, the jobs being js: it
\* stops at the first stage from stageIdx on with a created job, or after the
\* last stage.  Statuses of the jobs it looks at are read without their mutex,
\* but no concurrent writer ever moves a job into or out of "created".
EnqueueStage(p, pl, js) ==
  \E i \in pl.stageIdx..(Len(pl.stages) + 1) :
    LET found == i <= Len(pl.stages)
        batch == IF found THEN Created(p, pl.stages[i], js) ELSE {}
    IN /\ \A k \in pl.stageIdx..(i - 1) : Created(p, pl.stages[k], js) = {}
       /\ found => batch # {}
       /\ jobs' = [j \in DOMAIN js |->
                     IF j \in batch THEN [js[j] EXCEPT !.status = "pending"] ELSE js[j]]
       /\ \E block \in [1..Cardinality(batch) -> batch] :
            InOrder(block, batch) /\ queue' = queue \o block
       /\ pipelines' =
            Put(pipelines, p, [pl EXCEPT !.stageIdx = i, !.status = RolledUp(@, found)])

\* handlePipelineCreate and createPipelineLocked, one critical section of s.mu.
CreatePipeline(prj, cfg) ==
  LET p   == nextID
      ids == (p + 1)..(p + Len(cfg.jobs))
      pl  == [project |-> prj, stages |-> cfg.stages, stageIdx |-> 1, status |-> "pending"]
      js  == [j \in DOMAIN jobs \cup ids |->
                IF j \in ids
                THEN [pipeline |-> p, stage |-> cfg.jobs[j - p], status |-> "created"]
                ELSE jobs[j]]
  IN /\ p + Len(cfg.jobs) <= MaxID
     /\ nextID' = p + Len(cfg.jobs) + 1
     /\ EnqueueStage(p, pl, js)
     /\ exec' = [j \in DOMAIN js |-> IF j \in ids THEN "none" ELSE exec[j]]
     /\ UNCHANGED <<runners, calls>>

\* Faulty variants of StageComplete: a running job does not hold the stage up;
\* one finished job is enough; the whole pipeline must be finished.
StageCompleteNonePending(p) ==
  \A j \in JobIDs(p) : jobs[j].status # "pending"

StageCompleteOne(p) ==
  \E j \in JobIDs(p) : jobs[j].status \in Done

StageCompleteAll(p) ==
  \A j \in JobIDs(p) : jobs[j].status \in Done

\* Every job of p in the current stage (the last one once stageIdx ran past the
\* end) has a terminal status, success or not.
StageComplete(p) ==
  LET pl  == pipelines[p]
      cur == IF pl.stageIdx <= Len(pl.stages) THEN pl.stageIdx ELSE Len(pl.stages)
  IN \A j \in JobIDs(p) : jobs[j].stage = pl.stages[cur] => jobs[j].status \in Done

\* Faulty variant of Advanced: the stage after the complete one is skipped.
AdvancedByTwo(pl) ==
  [pl EXCEPT !.stageIdx = IF @ < Len(pl.stages) THEN @ + 2 ELSE Len(pl.stages) + 1]

\* stageIdx++, saturated one past the last stage: the code lets it grow on but
\* only ever asks whether it is within the stages.
Advanced(pl) ==
  [pl EXCEPT !.stageIdx = IF @ <= Len(pl.stages) THEN @ + 1 ELSE @]

\* onJobTerminal(j, state)
OnJobTerminal(j, state) ==
  LET p == jobs[j].pipeline
  IN \/ /\ \/ state \notin Done
           \/ state = "success" /\ ~StageComplete(p)
        /\ UNCHANGED <<pipelines, jobs, queue>>
     \/ /\ state = "failed"
        /\ pipelines' = [pipelines EXCEPT ![p].status = "failed"]
        /\ UNCHANGED <<jobs, queue>>
     \/ /\ state = "success"
        /\ StageComplete(p)
        /\ EnqueueStage(p, Advanced(pipelines[p]), jobs)

-----------------------------------------------------------------------------
(* Runners *)

\* handleRunnerRegister and handleUserRunnerCreate: a token is minted once.
Register(r) ==
  /\ runners[r] = "new"
  /\ nextID <= MaxID
  /\ runners' = [runners EXCEPT ![r] = "registered"]
  /\ nextID' = nextID + 1
  /\ UNCHANGED <<pipelines, jobs, queue, calls, exec>>

\* handleRunnerUnregister: jobs the runner still holds are left as they are.
Unregister(r) ==
  /\ runners[r] = "registered"
  /\ runners' = [runners EXCEPT ![r] = "gone"]
  /\ UNCHANGED <<nextID, pipelines, jobs, queue, calls, exec>>

-----------------------------------------------------------------------------
(* handleJobRequest: a runner's poll.  Of its 204 and 403 answers nothing     *)
(* remains, so only a poll that finds a job is a step.                        *)

\* Faulty variant of ClaimDequeue: the head of the queue is not popped.
ClaimPeek(c, r) ==
  /\ calls[c].pc = "idle"
  /\ runners[r] = "registered"
  /\ queue # << >>
  /\ calls' = [calls EXCEPT ![c] = [pc |-> "mark", job |-> Head(queue), state |-> "running"]]
  /\ UNCHANGED <<nextID, runners, pipelines, jobs, queue, exec>>

\* First critical section of s.mu: token check and dequeueJobLocked.
ClaimDequeue(c, r) ==
  /\ calls[c].pc = "idle"
  /\ runners[r] = "registered"
  /\ queue # << >>
  /\ queue' = Tail(queue)
  /\ calls' = [calls EXCEPT ![c] = [pc |-> "mark", job |-> Head(queue), state |-> "running"]]
  /\ UNCHANGED <<nextID, runners, pipelines, jobs, exec>>

\* Faulty variant of ClaimMark: the claimed job is not marked.
ClaimNoMark(c) ==
  /\ calls[c].pc = "mark"
  /\ calls' = [calls EXCEPT ![c].pc = "rollup"]
  /\ UNCHANGED <<nextID, runners, pipelines, jobs, queue, exec>>

\* The critical section of job.mu.
ClaimMark(c) ==
  /\ calls[c].pc = "mark"
  /\ jobs' = [jobs EXCEPT ![calls[c].job].status = "running"]
  /\ calls' = [calls EXCEPT ![c].pc = "rollup"]
  /\ UNCHANGED <<nextID, runners, pipelines, queue, exec>>

\* setPipelineStatus: every pending pipeline of the job's project runs.
ClaimRollUp(c) ==
  LET prj == pipelines[jobs[calls[c].job].pipeline].project
  IN /\ calls[c].pc = "rollup"
     /\ pipelines' = [p \in DOMAIN pipelines |->
                        IF pipelines[p].project = prj /\ pipelines[p].status = "pending"
                        THEN [pipelines[p] EXCEPT !.status = "running"] ELSE pipelines[p]]
     /\ calls' = [calls EXCEPT ![c].pc = "respond"]
     /\ UNCHANGED <<nextID, runners, jobs, queue, exec>>

\* The 201 reaches the runner, which starts the build, or is lost on the way.
ClaimRespond(c) ==
  /\ calls[c].pc = "respond"
  /\ \/ exec' = [exec EXCEPT ![calls[c].job] = "executing"]
     \/ Lossy /\ UNCHANGED exec
  /\ calls' = [calls EXCEPT ![c] = Idle]
  /\ UNCHANGED <<nextID, runners, pipelines, jobs, queue>>

-----------------------------------------------------------------------------
(* handleJobUpdate: PUT /api/v4/jobs/:id *)

\* A runner that holds job j sends state s: "running" while the build runs,
\* then its verdict, which it may send again as long as it saw no answer.
UpdateCall(c, j, s) ==
  /\ calls[c].pc = "idle"
  /\ \/ exec[j] = "executing" /\ s \in {"running"} \cup Verdicts
     \/ exec[j] \in Verdicts /\ s = exec[j]
  /\ Overlap \/ \A d \in Calls : calls[d].pc # "idle" => calls[d].job # j
  /\ exec' = [exec EXCEPT ![j] = IF s = "running" THEN @ ELSE s]
  /\ calls' = [calls EXCEPT ![c] = [pc |-> "status", job |-> j, state |-> s]]
  /\ UNCHANGED <<nextID, runners, pipelines, jobs, queue>>

\* job.Status = req.State under job.mu.
UpdateStatus(c) ==
  /\ calls[c].pc = "status"
  /\ jobs' = [jobs EXCEPT ![calls[c].job].status = calls[c].state]
  /\ calls' = [calls EXCEPT ![c].pc = "terminal"]
  /\ UNCHANGED <<nextID, runners, pipelines, queue, exec>>

\* onJobTerminal under s.mu, and the answer.
UpdateTerminal(c) ==
  /\ calls[c].pc = "terminal"
  /\ OnJobTerminal(calls[c].job, calls[c].state)
  /\ calls' = [calls EXCEPT ![c] = Idle]
  /\ UNCHANGED <<nextID, runners, exec>>

-----------------------------------------------------------------------------

Init ==
  /\ nextID = 1
  /\ runners = [r \in Runners |-> "new"]
  /\ pipelines = << >>
  /\ jobs = << >>
  /\ queue = << >>
  /\ calls = [c \in Calls |-> Idle]
  /\ exec = << >>

Next ==
  \/ \E r \in Runners : Register(r) \/ Unregister(r)
  \/ \E prj \in Projects, cfg \in Configs : CreatePipeline(prj, cfg)
  \/ \E c \in Calls : \/ \E r \in Runners : ClaimDequeue(c, r)
                      \/ ClaimMark(c)
                      \/ ClaimRollUp(c)
                      \/ ClaimRespond(c)
                      \/ \E j \in DOMAIN jobs, s \in {"running"} \cup Done : UpdateCall(c, j, s)
                      \/ UpdateStatus(c)
                      \/ UpdateTerminal(c)

Spec == Init /\ [][Next]_vars

-----------------------------------------------------------------------------
(* Properties *)

Has(p, stage, k) == k \in 1..Len(pipelines[p].stages) /\ pipelines[p].stages[k] = stage

\* Job j belongs to a stage that comes before the stage of job k.
Before(j, k) ==
  LET p == jobs[k].pipeline
  IN /\ jobs[j].pipeline = p
     /\ \E i \in 1..Len(pipelines[p].stages) :
          /\ Has(p, jobs[j].stage, i)
          /\ \A m \in 1..Len(pipelines[p].stages) : Has(p, jobs[k].stage, m) => i < m

\* A job is in the queue at most once, is being handed to at most one runner,
\* is never both, and once a runner has it, it is neither: two concurrent polls
\* (handleJobRequest) never hand out the same job.
OneHolder ==
  /\ IsInjective(queue)
  /\ \A c \in Calls : calls[c].pc \in Claiming =>
       /\ calls[c].job \notin Queued
       /\ exec[calls[c].job] = "none"
       /\ \A d \in Calls \ {c} : calls[d].pc \in Claiming => calls[d].job # calls[c].job
  /\ \A j \in Queued : exec[j] = "none"

\* A job leaves "created" only when every job of an earlier stage of its
\* pipeline has a verdict from its runner (enqueueStageLocked after
\* onJobTerminal), however the reports of parallel and retried PUTs interleave.
StageOrder ==
  \A j, k \in DOMAIN jobs :
    jobs[k].status # "created" /\ Before(j, k) => exec[j] \in Done

\* The jobs shown as pending are exactly those a runner can still get: in the
\* queue, or popped by a poll that has not yet marked the job.
PendingAccounted ==
  \A j \in DOMAIN jobs :
    jobs[j].status = "pending" <=>
      \/ j \in Queued
      \/ \E c \in Calls : calls[c].pc = "mark" /\ calls[c].job = j

\* A pipeline reported as successful has no job of a declared stage without a
\* verdict: nothing of it is waiting, running, or yet to be enqueued.
SuccessAccounted ==
  \A j \in DOMAIN jobs :
    LET p == jobs[j].pipeline
    IN pipelines[p].status = "success" /\ (\E k \in 1..Len(pipelines[p].stages) : Has(p, jobs[j].stage, k))
       => exec[j] \in Done

\* A running pipeline never wedges: one of its jobs is in the queue, with a
\* handler, or being built, so something can still move it on.  This needs
\* PUTs of a job to be sequential and the 201 of a claim to arrive.
RunningHasWork ==
  \A p \in DOMAIN pipelines :
    pipelines[p].status = "running" =>
      \E j \in JobIDs(p) : \/ j \in Queued
                           \/ exec[j] = "executing"
                           \/ \E c \in Calls : calls[c].pc # "idle" /\ calls[c].job = j

\* The inductive invariant.  What the code relies on between two critical
\* sections: where a job is (queue, claim, runner), which of its statuses go
\* with that, and how far its pipeline's stage index can be.
JobFacts ==
  \A j \in DOMAIN jobs :
    /\ jobs[j].status \in {"created", "pending"} => exec[j] = "none"
    /\ jobs[j].status \in Done => exec[j] = jobs[j].status
    /\ j \in Queued => jobs[j].status = "pending"

CallFacts ==
  \A c \in Calls :
    /\ calls[c].pc = "mark" => jobs[calls[c].job].status = "pending"
    /\ calls[c].pc \in {"rollup", "respond"} => jobs[calls[c].job].status = "running"
    /\ calls[c].pc \in Reporting => /\ exec[calls[c].job] # "none"
                                    /\ calls[c].state \in {"running", exec[calls[c].job]}

StageFacts ==
  /\ \A j \in DOMAIN jobs :
       LET pl == pipelines[jobs[j].pipeline]
       IN /\ \A k \in 1..Len(pl.stages) :
               pl.stages[k] = jobs[j].stage /\ k < pl.stageIdx => exec[j] \in Done
          /\ jobs[j].status # "created" =>
               \E k \in 1..Len(pl.stages) : pl.stages[k] = jobs[j].stage /\ k <= pl.stageIdx
  /\ \A p \in DOMAIN pipelines :
       pipelines[p].status = "success" => pipelines[p].stageIdx = Len(pipelines[p].stages) + 1

IInv == TypeOK /\ OneHolder /\ JobFacts /\ CallFacts /\ StageFacts

\* When the PUTs of a job are sequential, its terminal status is final.
VerdictIsFinal ==
  [][\A j \in DOMAIN jobs : jobs[j].status \in Done => jobs'[j].status = jobs[j].status]_vars

\* The job engine implements StagedJobs.
Phase(j) ==
  CASE j \notin DOMAIN jobs         -> "absent"
    [] j \in Queued                -> "offered"
    [] exec[j] \in Done            -> "done"
    [] jobs[j].status = "created"  -> "created"
    [] OTHER                       -> "taken"

JobPhase == [j \in 1..MaxID |-> IF j \in DOMAIN jobs THEN Phase(j) ELSE "absent"]
JobNeeds == [j \in 1..MaxID |->
               IF j \in DOMAIN jobs THEN {i \in DOMAIN jobs : Before(i, j)} ELSE {}]

Staged == INSTANCE StagedJobs WITH Job <- 1..MaxID, phase <- JobPhase, needs <- JobNeeds

\* Every step of the handlers is a step of StagedJobs or leaves its view alone:
\* offered once, after all it needs is done, taken once, one verdict.
RefinesStagedJobs == Staged!Spec

\* pipeline.go:96-98: "A failed job fails the whole pipeline; when every job in
\* the current stage has succeeded, the next stage is enqueued".
FailedJobFailsPipeline ==
  \A j \in DOMAIN jobs :
    jobs[j].status = "failed" /\ (\A c \in Calls : calls[c].job # j)
      => pipelines[jobs[j].pipeline].status = "failed"

-----------------------------------------------------------------------------
(* Liveness *)

\* The Go runtime runs every handler to its end.  A registered runner keeps
\* polling and reports the verdict of a build it holds; both compete for the
\* Calls of this model, which the server does not have, hence strong fairness.
Fairness ==
  /\ \A c \in Calls : /\ WF_vars(ClaimMark(c))
                      /\ WF_vars(ClaimRollUp(c))
                      /\ WF_vars(ClaimRespond(c))
                      /\ WF_vars(UpdateStatus(c))
                      /\ WF_vars(UpdateTerminal(c))
  /\ SF_vars(\E c \in Calls, r \in Runners : ClaimDequeue(c, r))
  /\ \A j \in 1..MaxID :
       SF_vars(\E c \in Calls, s \in Verdicts :
                 j \in DOMAIN jobs /\ exec[j] = "executing" /\ UpdateCall(c, j, s))

FairSpec == Spec /\ Fairness

\* If from some point on a runner stays registered, every pipeline reaches
\* "success" or "failed".
RunnersStay == <>[](\E r \in Runners : runners[r] = "registered")

PipelinesFinish ==
  RunnersStay =>
    \A p \in 1..MaxID :
      p \in DOMAIN pipelines ~> p \in DOMAIN pipelines /\ pipelines[p].status \in Done
=============================================================================
