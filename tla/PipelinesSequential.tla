------------------------ MODULE PipelinesSequential ------------------------
(***************************************************************************)
(* More machine-checked proofs about Pipelines.  PendingAccounted needs no *)
(* assumption.  VerdictIsFinal needs that the PUTs of a job are sequential *)
(* (~Overlap), and RunningHasWork also that the 201 of a claim arrives     *)
(* (~Lossy): with these, what is left to do on a running pipeline is       *)
(* always in somebody's hands.                                             *)
(***************************************************************************)
EXTENDS PipelinesRefinement

-----------------------------------------------------------------------------
(* A pending job is in the queue or with the poll that popped it *)

Held(j) == j \in Queued \/ \E c \in Calls : calls[c].pc = "mark" /\ calls[c].job = j

PendingHeld == \A j \in DOMAIN jobs : jobs[j].status = "pending" => Held(j)

LEMMA PendingHeldNext ==
  ASSUME IInv, PendingHeld, [Next]_vars
  PROVE  PendingHeld'
<1> SUFFICES ASSUME NEW j \in DOMAIN jobs', jobs'[j].status = "pending" PROVE Held(j)'
  BY DEF PendingHeld
<1>1. ASSUME NEW r \in Runners, Register(r) \/ Unregister(r) PROVE Held(j)'
  <2>1. UNCHANGED <<jobs, queue, calls>>
    BY <1>1 DEF Register, Unregister
  <2> QED
    BY <2>1 DEF PendingHeld, Held, Queued
<1>2. ASSUME NEW prj \in Projects, NEW cfg \in Configs, CreatePipeline(prj, cfg)
      PROVE  Held(j)'
  <2>1. PICK p, ids, batch : Appears(p, ids, batch)
    BY <1>2, CreateAppears
  <2>2. calls' = calls
    BY <1>2 DEF CreatePipeline
  <2>3. j \in batch \/ (j \in DOMAIN jobs /\ jobs[j].status = "pending")
    BY <2>1 DEF Appears
  <2> QED
    BY <2>1, <2>2, <2>3 DEF PendingHeld, Held, Appears
<1>3. ASSUME NEW c \in Calls, NEW r \in Runners, ClaimDequeue(c, r) PROVE Held(j)'
  <2>1. PICK h : h = Head(queue)
    OBVIOUS
  <2>2. /\ queue \in Seq(DOMAIN jobs) /\ queue # << >> /\ queue' = Tail(queue) /\ jobs' = jobs
        /\ calls[c].pc = "idle"
        /\ calls' = [calls EXCEPT ![c] = [pc |-> "mark", job |-> h, state |-> "running"]]
    BY <1>3, <2>1 DEF ClaimDequeue, IInv, TypeOK
  <2>3. \A i \in Queued : i = h \/ i \in Queued'
    <3> SUFFICES ASSUME NEW i \in DOMAIN queue, queue[i] # h PROVE queue[i] \in Queued'
      BY DEF Queued, Range
    <3>1. i - 1 \in DOMAIN queue' /\ queue'[i - 1] = queue[i]
      BY <2>1, <2>2
    <3> QED
      BY <3>1 DEF Queued, Range
  <2>4. /\ calls'[c].pc = "mark" /\ calls'[c].job = h
        /\ \A d \in Calls \ {c} : calls'[d] = calls[d]
    BY <2>2 DEF IInv, TypeOK
  <2>5. CASE j \in Queued
    BY <2>3, <2>4, <2>5 DEF Held
  <2>6. CASE j \notin Queued
    BY <2>2, <2>4, <2>6 DEF PendingHeld, Held
  <2> QED
    BY <2>5, <2>6
<1>4. ASSUME NEW c \in Calls, ClaimMark(c) PROVE Held(j)'
  <2>1. PICK k : k = calls[c].job
    OBVIOUS
  <2>2. /\ k \in DOMAIN jobs /\ jobs[k] \in JobRec(DOMAIN pipelines)
        /\ jobs' = [jobs EXCEPT ![k].status = "running"] /\ queue' = queue
        /\ \A d \in Calls \ {c} : calls'[d] = calls[d]
    BY <1>4, <2>1 DEF ClaimMark, IInv, TypeOK, JobRec
  <2>3. j # k
    BY <2>2 DEF JobRec
  <2> QED
    BY <2>1, <2>2, <2>3 DEF PendingHeld, Held, Queued
<1>5. ASSUME NEW c \in Calls, ClaimRollUp(c) \/ ClaimRespond(c) PROVE Held(j)'
  <2>1. /\ calls[c].pc # "mark" /\ UNCHANGED <<jobs, queue>>
        /\ \A d \in Calls \ {c} : calls'[d] = calls[d]
    BY <1>5 DEF ClaimRollUp, ClaimRespond, IInv, TypeOK
  <2> QED
    BY <2>1 DEF PendingHeld, Held, Queued
<1>6. ASSUME NEW c \in Calls, NEW k \in DOMAIN jobs, NEW s \in {"running"} \cup Done,
             UpdateCall(c, k, s)
      PROVE  Held(j)'
  <2>1. /\ calls[c].pc = "idle" /\ UNCHANGED <<jobs, queue>>
        /\ \A d \in Calls \ {c} : calls'[d] = calls[d]
    BY <1>6 DEF UpdateCall, IInv, TypeOK
  <2> QED
    BY <2>1 DEF PendingHeld, Held, Queued
<1>7. ASSUME NEW c \in Calls, UpdateStatus(c) PROVE Held(j)'
  <2>1. PICK k : k = calls[c].job
    OBVIOUS
  <2>2. /\ k \in DOMAIN jobs /\ jobs[k] \in JobRec(DOMAIN pipelines)
        /\ jobs' = [jobs EXCEPT ![k].status = calls[c].state] /\ queue' = queue
        /\ calls[c].state \in {"running"} \cup Done /\ calls[c].pc # "mark"
        /\ \A d \in Calls \ {c} : calls'[d] = calls[d]
    BY <1>7, <2>1 DEF UpdateStatus, IInv, TypeOK, JobRec
  <2>3. j # k
    BY <2>2 DEF JobRec, Done
  <2> QED
    BY <2>2, <2>3 DEF PendingHeld, Held, Queued
<1>8. ASSUME NEW c \in Calls, UpdateTerminal(c) PROVE Held(j)'
  <2>1. PICK batch : Releases(batch)
    BY <1>8, TerminalReleases
  <2>2. calls[c].pc # "mark" /\ \A d \in Calls \ {c} : calls'[d] = calls[d]
    BY <1>8 DEF UpdateTerminal, IInv, TypeOK
  <2>3. j \in batch \/ (j \in DOMAIN jobs /\ jobs[j].status = "pending")
    BY <2>1 DEF Releases, SameJobs
  <2> QED
    BY <2>1, <2>2, <2>3 DEF PendingHeld, Held, Releases
<1>9. CASE UNCHANGED vars
  BY <1>9 DEF vars, PendingHeld, Held, Queued
<1> QED
  BY <1>1, <1>2, <1>3, <1>4, <1>5, <1>6, <1>7, <1>8, <1>9 DEF Next

LEMMA PendingStaysHeld == Spec => []PendingHeld
<1>1. Init => PendingHeld
  BY DEF Init, PendingHeld
<1>2. IInv /\ PendingHeld /\ [Next]_vars => PendingHeld'
  BY PendingHeldNext
<1> QED
  BY <1>1, <1>2, Invariance, PTL DEF Spec

\* The jobs shown as pending are exactly those a runner can still get
\* (enqueueStageLocked, dequeueJobLocked, handleJobRequest).
THEOREM PendingIsAccounted == Spec => []PendingAccounted
<1>1. IInv /\ PendingHeld => PendingAccounted
  BY DEF IInv, JobFacts, CallFacts, TypeOK, PendingHeld, Held, PendingAccounted
<1> QED
  BY <1>1, Invariance, PendingStaysHeld, PTL

-----------------------------------------------------------------------------
(* With sequential PUTs a terminal status is final *)

\* A handler that reports on a job is the only handler of that job; what it
\* was sent agrees with what the runner knows, and with the status once stored.
ReportFacts(c) ==
  calls[c].pc \in Reporting =>
    /\ \A d \in Calls \ {c} : calls[d].pc # "idle" => calls[d].job # calls[c].job
    /\ calls[c].state = "running" => exec[calls[c].job] = "executing"
    /\ calls[c].pc = "terminal" => jobs[calls[c].job].status = calls[c].state

Sequential == \A c \in Calls : ReportFacts(c)

LEMMA SequentialNext ==
  ASSUME ~Overlap, IInv, Sequential, [Next]_vars
  PROVE  Sequential'
<1> USE DEF Reporting, Claiming
<1>0. /\ \A d \in Calls : calls[d].pc \in Reporting =>
             calls[d].job \in DOMAIN jobs /\ exec[calls[d].job] # "none"
      /\ exec \in [DOMAIN jobs -> {"none", "executing"} \cup Done]
      /\ calls \in [Calls -> CallRec(DOMAIN jobs)]
      /\ \A j \in DOMAIN jobs : jobs[j] \in JobRec(DOMAIN pipelines)
  BY DEF IInv, CallFacts, TypeOK, CallRec, JobRec
<1>1. ASSUME NEW r \in Runners, Register(r) \/ Unregister(r) PROVE Sequential'
  <2>1. UNCHANGED <<jobs, exec, calls>>
    BY <1>1 DEF Register, Unregister
  <2> QED
    BY <2>1 DEF Sequential, ReportFacts
<1>2. ASSUME NEW prj \in Projects, NEW cfg \in Configs, CreatePipeline(prj, cfg)
      PROVE  Sequential'
  <2>1. PICK p, ids, batch : Appears(p, ids, batch)
    BY <1>2, CreateAppears
  <2>2. calls' = calls
    BY <1>2 DEF CreatePipeline
  <2> QED
    BY <1>0, <2>1, <2>2 DEF Sequential, ReportFacts, Appears
<1>3. ASSUME NEW c \in Calls, NEW r \in Runners, ClaimDequeue(c, r) PROVE Sequential'
  <2>1. PICK h : h = Head(queue)
    OBVIOUS
  <2>2. /\ UNCHANGED <<jobs, exec>>
        /\ calls'[c].pc = "mark" /\ calls'[c].job = h
        /\ \A d \in Calls \ {c} : calls'[d] = calls[d]
    BY <1>0, <1>3, <2>1 DEF ClaimDequeue
  <2>3. exec[h] = "none"
    <3>1. queue \in Seq(DOMAIN jobs) /\ queue # << >>
      BY <1>3 DEF ClaimDequeue, IInv, TypeOK
    <3>2. h \in Queued
      BY <2>1, <3>1 DEF Queued, Range
    <3> QED
      BY <3>2 DEF IInv, OneHolder
  <2> QED
    BY <1>0, <2>2, <2>3 DEF Sequential, ReportFacts
<1>4. ASSUME NEW c \in Calls, ClaimMark(c) PROVE Sequential'
  <2>1. PICK k : k = calls[c].job
    OBVIOUS
  <2>2. /\ jobs' = [jobs EXCEPT ![k].status = "running"] /\ exec' = exec /\ exec[k] = "none"
        /\ calls'[c].pc = "rollup" /\ calls'[c].job = k
        /\ \A d \in Calls \ {c} : calls'[d] = calls[d]
        /\ calls[c].pc = "mark"
    BY <1>0, <1>4, <2>1 DEF ClaimMark, IInv, OneHolder, CallRec
  <2>3. \A j \in DOMAIN jobs \ {k} : jobs'[j] = jobs[j]
    BY <2>2
  <2> QED
    BY <1>0, <2>1, <2>2, <2>3 DEF Sequential, ReportFacts
<1>5. ASSUME NEW c \in Calls, ClaimRollUp(c) \/ ClaimRespond(c) PROVE Sequential'
  <2>1. PICK k : k = calls[c].job
    OBVIOUS
  <2>2. /\ jobs' = jobs /\ exec[k] = "none" /\ calls[c].pc \in {"rollup", "respond"}
        /\ exec' = exec \/ exec' = [exec EXCEPT ![k] = "executing"]
        /\ calls'[c].pc \in {"respond", "idle"}
        /\ calls'[c].pc = "respond" => calls'[c].job = k
        /\ \A d \in Calls \ {c} : calls'[d] = calls[d]
    BY <1>0, <1>5, <2>1 DEF ClaimRollUp, ClaimRespond, IInv, OneHolder, CallRec, Idle
  <2>3. \A j \in DOMAIN jobs \ {k} : exec'[j] = exec[j]
    BY <1>0, <2>2
  <2> QED
    BY <1>0, <2>1, <2>2, <2>3 DEF Sequential, ReportFacts
<1>6. ASSUME NEW c \in Calls, NEW k \in DOMAIN jobs, NEW s \in {"running"} \cup Done,
             UpdateCall(c, k, s)
      PROVE  Sequential'
  <2>1. /\ jobs' = jobs
        /\ exec[k] = "executing" \/ (exec[k] \in Done /\ s = exec[k])
        /\ exec' = [exec EXCEPT ![k] = IF s = "running" THEN exec[k] ELSE s]
        /\ \A d \in Calls : calls[d].pc # "idle" => calls[d].job # k
        /\ calls'[c] = [pc |-> "status", job |-> k, state |-> s]
        /\ \A d \in Calls \ {c} : calls'[d] = calls[d]
    BY <1>0, <1>6, VerdictsAssumption DEF UpdateCall
  <2>2. /\ \A j \in DOMAIN jobs \ {k} : exec'[j] = exec[j]
        /\ s = "running" => exec'[k] = "executing"
    BY <1>0, <2>1 DEF Done
  <2> QED
    BY <1>0, <2>1, <2>2 DEF Sequential, ReportFacts
<1>7. ASSUME NEW c \in Calls, UpdateStatus(c) PROVE Sequential'
  <2>1. PICK k : k = calls[c].job
    OBVIOUS
  <2>2. /\ jobs' = [jobs EXCEPT ![k].status = calls[c].state] /\ exec' = exec
        /\ calls[c].pc = "status"
        /\ calls'[c].pc = "terminal" /\ calls'[c].job = k /\ calls'[c].state = calls[c].state
        /\ \A d \in Calls \ {c} : calls'[d] = calls[d]
    BY <1>0, <1>7, <2>1 DEF UpdateStatus, CallRec
  <2>3. k \in DOMAIN jobs /\ jobs'[k].status = calls[c].state
    BY <1>0, <2>1, <2>2 DEF JobRec
  <2>4. \A j \in DOMAIN jobs \ {k} : jobs'[j] = jobs[j]
    BY <2>2
  <2> QED
    BY <1>0, <2>1, <2>2, <2>3, <2>4 DEF Sequential, ReportFacts
<1>8. ASSUME NEW c \in Calls, UpdateTerminal(c) PROVE Sequential'
  <2>1. PICK batch : Releases(batch)
    BY <1>8, TerminalReleases
  <2>2. calls'[c].pc = "idle" /\ \A d \in Calls \ {c} : calls'[d] = calls[d]
    BY <1>0, <1>8 DEF UpdateTerminal, Idle
  <2>3. \A j \in batch : exec[j] = "none"
    BY <2>1 DEF Releases, IInv, JobFacts
  <2> QED
    BY <1>0, <2>1, <2>2, <2>3 DEF Sequential, ReportFacts, Releases
<1>9. CASE UNCHANGED vars
  BY <1>9 DEF vars, Sequential, ReportFacts
<1> QED
  BY <1>1, <1>2, <1>3, <1>4, <1>5, <1>6, <1>7, <1>8, <1>9 DEF Next

LEMMA StaysSequential ==
  ASSUME ~Overlap
  PROVE  Spec => []Sequential
<1>1. Init => Sequential
  BY DEF Init, Sequential, ReportFacts, Idle, Reporting
<1>2. IInv /\ Sequential /\ [Next]_vars => Sequential'
  BY SequentialNext
<1> QED
  BY <1>1, <1>2, Invariance, PTL DEF Spec

LEMMA VerdictKept ==
  ASSUME IInv, Sequential, [Next]_vars, NEW j \in DOMAIN jobs, jobs[j].status \in Done
  PROVE  jobs'[j].status = jobs[j].status
<1>0. /\ exec[j] = jobs[j].status /\ exec[j] # "none"
      /\ jobs[j].status \notin {"created", "pending", "running"}
  BY DEF IInv, JobFacts, Done
<1>1. ASSUME NEW prj \in Projects, NEW cfg \in Configs, CreatePipeline(prj, cfg)
      PROVE  jobs'[j] = jobs[j]
  BY <1>1, CreateAppears DEF Appears
<1>2. ASSUME NEW c \in Calls, ClaimMark(c) PROVE jobs'[j] = jobs[j]
  <2>1. jobs[calls[c].job].status = "pending" /\ jobs' = [jobs EXCEPT ![calls[c].job].status = "running"]
    BY <1>2 DEF ClaimMark, IInv, CallFacts
  <2> QED
    BY <1>0, <2>1
<1>3. ASSUME NEW c \in Calls, UpdateStatus(c) PROVE jobs'[j].status = jobs[j].status
  <2>1. PICK k : k = calls[c].job
    OBVIOUS
  <2>2. /\ jobs' = [jobs EXCEPT ![k].status = calls[c].state]
        /\ calls[c].state = "running" => exec[k] = "executing"
        /\ calls[c].state \in {"running", exec[k]}
        /\ jobs[j] \in JobRec(DOMAIN pipelines)
    BY <1>3, <2>1 DEF UpdateStatus, IInv, CallFacts, TypeOK, JobRec, Sequential, ReportFacts, Reporting
  <2>3. CASE k = j
    BY <1>0, <2>2, <2>3 DEF JobRec, Done
  <2>4. CASE k # j
    BY <2>2, <2>4
  <2> QED
    BY <2>3, <2>4
<1>4. ASSUME NEW c \in Calls, UpdateTerminal(c) PROVE jobs'[j] = jobs[j]
  BY <1>0, <1>4, TerminalReleases DEF Releases
<1>5. jobs' = jobs => jobs'[j].status = jobs[j].status
  OBVIOUS
<1> QED
  BY <1>1, <1>2, <1>3, <1>4, <1>5
  DEF Next, vars, Register, Unregister, ClaimDequeue, ClaimRollUp, ClaimRespond, UpdateCall

\* When a runner sends its PUTs for a job one after the other, neither a
\* keep-alive nor a retry overwrites a stored verdict (handleJobUpdate).
THEOREM VerdictsAreFinal ==
  ASSUME ~Overlap
  PROVE  Spec => VerdictIsFinal
<1>1. IInv /\ Sequential /\ [Next]_vars =>
        [\A j \in DOMAIN jobs : jobs[j].status \in Done => jobs'[j].status = jobs[j].status]_vars
  BY VerdictKept
<1> QED
  BY <1>1, Invariance, StaysSequential, PTL DEF Spec, VerdictIsFinal

-----------------------------------------------------------------------------
(* With sequential PUTs and no lost answer, a running pipeline has work *)

Active(j) == \E c \in Calls : calls[c].pc # "idle" /\ calls[c].job = j

\* A job marked running is being built or in the hands of a handler.
RunningHeld ==
  \A j \in DOMAIN jobs : jobs[j].status = "running" => exec[j] = "executing" \/ Active(j)

\* A running pipeline has a job that is on its way, and its current stage is released.
Busy(p) == \E j \in JobIDs(p) : jobs[j].status \in {"pending", "running"} \/ Active(j)

StageReleased(p) ==
  /\ pipelines[p].stageIdx <= Len(pipelines[p].stages)
  /\ \A j \in JobIDs(p) :
       jobs[j].stage = pipelines[p].stages[pipelines[p].stageIdx] => jobs[j].status # "created"

PipeFacts(p) == pipelines[p].status = "running" => Busy(p) /\ StageReleased(p)

Working == RunningHeld /\ \A p \in DOMAIN pipelines : PipeFacts(p)

\* enqueueStageLocked leaves a pipeline running only with a stage it released.
LEMMA EnqueueRuns ==
  ASSUME NEW p, NEW pl, NEW js, NEW P, PipelineRec(pl),
         \A j \in DOMAIN js : js[j] \in JobRec(P),
         EnqueueStage(p, pl, js)
  PROVE  /\ DOMAIN pipelines' = DOMAIN pipelines \cup {p}
         /\ \A q \in DOMAIN pipelines \ {p} : pipelines'[q] = pipelines[q]
         /\ PipeFacts(p)'
<1>1. PICK i \in pl.stageIdx..(Len(pl.stages) + 1) :
        LET found == i <= Len(pl.stages)
            batch == IF found THEN Created(p, pl.stages[i], js) ELSE {}
        IN /\ found => batch # {}
           /\ jobs' = [j \in DOMAIN js |->
                         IF j \in batch THEN [js[j] EXCEPT !.status = "pending"] ELSE js[j]]
           /\ pipelines' = Put(pipelines, p, [pl EXCEPT !.stageIdx = i, !.status = RolledUp(@, found)])
  BY Zenon DEF EnqueueStage
<1>2. /\ DOMAIN pipelines' = DOMAIN pipelines \cup {p}
      /\ \A q \in DOMAIN pipelines \ {p} : pipelines'[q] = pipelines[q]
      /\ pipelines'[p] = [pl EXCEPT !.stageIdx = i, !.status = RolledUp(@, i <= Len(pl.stages))]
  BY <1>1 DEF Put
<1>3. /\ pipelines'[p].stages = pl.stages /\ pipelines'[p].stageIdx = i
      /\ pipelines'[p].status = RolledUp(pl.status, i <= Len(pl.stages))
  BY <1>2 DEF PipelineRec
<1>4. ASSUME pipelines'[p].status = "running" PROVE Busy(p)' /\ StageReleased(p)'
  <2>1. i <= Len(pl.stages)
    BY <1>3, <1>4 DEF RolledUp, PipelineRec, Done
  <2> DEFINE batch == Created(p, pl.stages[i], js)
  <2>2. /\ batch # {}
        /\ jobs' = [j \in DOMAIN js |->
                      IF j \in batch THEN [js[j] EXCEPT !.status = "pending"] ELSE js[j]]
    BY <1>1, <2>1
  <2>3. /\ DOMAIN jobs' = DOMAIN js
        /\ \A j \in DOMAIN js \ batch : jobs'[j] = js[j]
        /\ \A j \in batch : j \in DOMAIN js /\ jobs'[j] = [js[j] EXCEPT !.status = "pending"]
    BY <2>2 DEF Created
  <2>4. \A j \in batch : jobs'[j].status = "pending" /\ jobs'[j].pipeline = p
    BY <2>3 DEF Created, JobRec
  <2>5. Busy(p)'
    BY <2>2, <2>3, <2>4 DEF Busy, JobIDs
  <2>6. ASSUME NEW j \in DOMAIN js, jobs'[j].pipeline = p, jobs'[j].stage = pl.stages[i]
        PROVE  jobs'[j].status # "created"
    <3>1. CASE j \in batch
      BY <2>4, <3>1
    <3>2. CASE j \notin batch
      BY <2>3, <2>6, <3>2 DEF Created
    <3> QED
      BY <3>1, <3>2
  <2>7. StageReleased(p)'
    BY <1>3, <2>1, <2>3, <2>6 DEF StageReleased, JobIDs
  <2> QED
    BY <2>5, <2>7
<1> QED
  BY <1>2, <1>4 DEF PipeFacts

\* A step that leaves the pipelines alone, and no job behind, keeps them working.
LEMMA WorkKept ==
  ASSUME IInv, Working, SameJobs, DOMAIN pipelines' = DOMAIN pipelines,
         \A p \in DOMAIN pipelines : pipelines'[p] = pipelines[p],
         \A j \in DOMAIN jobs :
           /\ jobs'[j].status = "running" => exec'[j] = "executing" \/ Active(j)'
           /\ jobs[j].status # "created" => jobs'[j].status # "created"
           /\ jobs[j].status \in {"pending", "running"} \/ Active(j) =>
                \/ jobs'[j].status \in {"pending", "running"}
                \/ Active(j)'
                \/ pipelines[jobs[j].pipeline].status # "running"
  PROVE  Working'
<1>1. RunningHeld'
  BY DEF RunningHeld, SameJobs
<1>2. ASSUME NEW p \in DOMAIN pipelines', pipelines'[p].status = "running"
      PROVE  Busy(p)' /\ StageReleased(p)'
  <2>1. /\ JobIDs(p)' = JobIDs(p)
        /\ p \in DOMAIN pipelines /\ pipelines[p].status = "running"
    BY <1>2 DEF JobIDs, SameJobs
  <2>2. PICK j \in JobIDs(p) : jobs[j].status \in {"pending", "running"} \/ Active(j)
    BY <2>1 DEF Working, PipeFacts, Busy
  <2>3. Busy(p)'
    <3>1. j \in DOMAIN jobs /\ jobs[j].pipeline = p
      BY DEF JobIDs
    <3>2. jobs'[j].status \in {"pending", "running"} \/ Active(j)'
      BY <2>1, <2>2, <3>1
    <3> QED
      BY <2>1, <3>2 DEF Busy
  <2>4. StageReleased(p)
    BY <2>1 DEF Working, PipeFacts
  <2>5. StageReleased(p)'
    BY <2>1, <2>4 DEF StageReleased, JobIDs, SameJobs
  <2> QED
    BY <2>3, <2>5
<1> QED
  BY <1>1, <1>2 DEF Working, PipeFacts

\* Steps of the runners, of a claim, and the first two of a report.
LEMMA HandlerKeepsWork ==
  ASSUME ~Lossy, IInv, Sequential, Working, NEW c \in Calls,
         \/ UNCHANGED <<pipelines, jobs, calls, exec>>
         \/ \E r \in Runners : ClaimDequeue(c, r)
         \/ ClaimMark(c)
         \/ ClaimRollUp(c)
         \/ ClaimRespond(c)
         \/ \E j \in DOMAIN jobs, s \in {"running"} \cup Done : UpdateCall(c, j, s)
         \/ UpdateStatus(c)
  PROVE  Working'
<1>0. /\ exec \in [DOMAIN jobs -> {"none", "executing"} \cup Done]
      /\ calls \in [Calls -> CallRec(DOMAIN jobs)]
      /\ \A j \in DOMAIN jobs : jobs[j] \in JobRec(DOMAIN pipelines)
      /\ calls[c].pc # "idle" => calls[c].job \in DOMAIN jobs
  BY DEF IInv, TypeOK, CallRec, JobRec
<1>1. CASE UNCHANGED <<pipelines, jobs, calls, exec>>
  BY <1>1 DEF Working, RunningHeld, PipeFacts, Busy, StageReleased, JobIDs, Active
<1>2. CASE \E r \in Runners : ClaimDequeue(c, r)
  <2>1. /\ UNCHANGED <<pipelines, jobs, exec>> /\ calls[c].pc = "idle"
        /\ \A d \in Calls \ {c} : calls'[d] = calls[d]
    BY <1>0, <1>2 DEF ClaimDequeue
  <2>2. \A j \in DOMAIN jobs : Active(j) => Active(j)'
    BY <2>1 DEF Active
  <2> QED
    BY <2>1, <2>2, WorkKept DEF Working, RunningHeld, SameJobs
<1>3. CASE ClaimMark(c)
  <2>1. PICK k : k = calls[c].job
    OBVIOUS
  <2>2. /\ jobs' = [jobs EXCEPT ![k].status = "running"] /\ UNCHANGED <<pipelines, exec>>
        /\ calls[c].pc = "mark" /\ k \in DOMAIN jobs
        /\ calls'[c].pc = "rollup" /\ calls'[c].job = k
        /\ \A d \in Calls \ {c} : calls'[d] = calls[d]
    BY <1>0, <1>3, <2>1 DEF ClaimMark, CallRec
  <2>3. /\ DOMAIN jobs' = DOMAIN jobs
        /\ \A j \in DOMAIN jobs \ {k} : jobs'[j] = jobs[j]
        /\ jobs'[k].status = "running"
        /\ jobs'[k].pipeline = jobs[k].pipeline /\ jobs'[k].stage = jobs[k].stage
    BY <1>0, <2>2 DEF JobRec
  <2>4. Active(k)' /\ \A j \in DOMAIN jobs : Active(j) => Active(j)'
    BY <2>1, <2>2 DEF Active
  <2>5. SameJobs
    BY <2>2, <2>3 DEF SameJobs
  <2>6. ASSUME NEW j \in DOMAIN jobs
        PROVE  /\ jobs'[j].status = "running" => exec'[j] = "executing" \/ Active(j)'
               /\ jobs[j].status # "created" => jobs'[j].status # "created"
               /\ jobs[j].status \in {"pending", "running"} \/ Active(j) =>
                    jobs'[j].status \in {"pending", "running"} \/ Active(j)'
    BY <2>2, <2>3, <2>4 DEF Working, RunningHeld
  <2> QED
    BY <2>2, <2>5, <2>6, WorkKept
<1>4. CASE ClaimRollUp(c)
  <2>1. /\ UNCHANGED <<jobs, exec>> /\ calls'[c].pc = "respond" /\ calls'[c].job = calls[c].job
        /\ \A d \in Calls \ {c} : calls'[d] = calls[d]
    BY <1>0, <1>4 DEF ClaimRollUp, CallRec
  <2>2. \A j \in DOMAIN jobs : Active(j) => Active(j)'
    BY <2>1 DEF Active
  <2>3. /\ DOMAIN pipelines' = DOMAIN pipelines
        /\ \A p \in DOMAIN pipelines : pipelines'[p] = pipelines[p]
    <3>1. \A p \in DOMAIN pipelines : pipelines[p].status # "pending"
      BY DEF IInv, TypeOK
    <3> QED
      BY <1>4, <3>1 DEF ClaimRollUp
  <2> QED
    BY <2>1, <2>2, <2>3, WorkKept DEF Working, RunningHeld, SameJobs
<1>5. CASE ClaimRespond(c)
  <2>1. PICK k : k = calls[c].job
    OBVIOUS
  <2>2. /\ UNCHANGED <<pipelines, jobs>> /\ exec' = [exec EXCEPT ![k] = "executing"]
        /\ k \in DOMAIN jobs /\ jobs[k].status = "running"
        /\ \A d \in Calls \ {c} : calls'[d] = calls[d]
    BY <1>0, <1>5, <2>1 DEF ClaimRespond, IInv, CallFacts
  <2>3. /\ exec'[k] = "executing"
        /\ \A j \in DOMAIN jobs \ {k} : exec'[j] = exec[j]
    BY <1>0, <2>2
  <2>4. \A j \in DOMAIN jobs \ {k} : Active(j) => Active(j)'
    BY <2>1, <2>2 DEF Active
  <2>5. SameJobs
    BY <2>2 DEF SameJobs
  <2>6. ASSUME NEW j \in DOMAIN jobs
        PROVE  /\ jobs'[j].status = "running" => exec'[j] = "executing" \/ Active(j)'
               /\ jobs[j].status # "created" => jobs'[j].status # "created"
               /\ jobs[j].status \in {"pending", "running"} \/ Active(j) =>
                    jobs'[j].status \in {"pending", "running"} \/ Active(j)'
    BY <2>2, <2>3, <2>4 DEF Working, RunningHeld
  <2> QED
    BY <2>2, <2>5, <2>6, WorkKept
<1>6. CASE \E j \in DOMAIN jobs, s \in {"running"} \cup Done : UpdateCall(c, j, s)
  <2>1. PICK k \in DOMAIN jobs, s \in {"running"} \cup Done : UpdateCall(c, k, s)
    BY <1>6
  <2>2. /\ UNCHANGED <<pipelines, jobs>> /\ calls[c].pc = "idle"
        /\ exec' = [exec EXCEPT ![k] = IF s = "running" THEN exec[k] ELSE s]
        /\ calls'[c].pc = "status" /\ calls'[c].job = k
        /\ \A d \in Calls \ {c} : calls'[d] = calls[d]
    BY <1>0, <2>1 DEF UpdateCall
  <2>3. Active(k)' /\ \A j \in DOMAIN jobs : Active(j) => Active(j)'
    BY <2>2 DEF Active
  <2>4. \A j \in DOMAIN jobs \ {k} : exec'[j] = exec[j]
    BY <1>0, <2>2
  <2>5. SameJobs
    BY <2>2 DEF SameJobs
  <2>6. ASSUME NEW j \in DOMAIN jobs
        PROVE  /\ jobs'[j].status = "running" => exec'[j] = "executing" \/ Active(j)'
               /\ jobs[j].status # "created" => jobs'[j].status # "created"
               /\ jobs[j].status \in {"pending", "running"} \/ Active(j) =>
                    jobs'[j].status \in {"pending", "running"} \/ Active(j)'
    BY <2>2, <2>3, <2>4 DEF Working, RunningHeld
  <2> QED
    BY <2>2, <2>5, <2>6, WorkKept
<1>7. CASE UpdateStatus(c)
  <2>1. PICK k : k = calls[c].job
    OBVIOUS
  <2>2. /\ jobs' = [jobs EXCEPT ![k].status = calls[c].state] /\ UNCHANGED <<pipelines, exec>>
        /\ calls[c].pc = "status" /\ k \in DOMAIN jobs
        /\ calls'[c].pc = "terminal" /\ calls'[c].job = k
        /\ \A d \in Calls \ {c} : calls'[d] = calls[d]
    BY <1>0, <1>7, <2>1 DEF UpdateStatus, CallRec
  <2>3. calls[c].state \in {"running"} \cup Done
    BY <1>0 DEF CallRec
  <2>4. /\ DOMAIN jobs' = DOMAIN jobs
        /\ \A j \in DOMAIN jobs \ {k} : jobs'[j] = jobs[j]
        /\ jobs'[k].status = calls[c].state
        /\ jobs'[k].pipeline = jobs[k].pipeline /\ jobs'[k].stage = jobs[k].stage
    BY <1>0, <2>2 DEF JobRec
  <2>5. Active(k)' /\ \A j \in DOMAIN jobs : Active(j) => Active(j)'
    BY <2>1, <2>2 DEF Active
  <2>6. SameJobs
    BY <2>2, <2>4 DEF SameJobs
  <2>7. ASSUME NEW j \in DOMAIN jobs
        PROVE  /\ jobs'[j].status = "running" => exec'[j] = "executing" \/ Active(j)'
               /\ jobs[j].status # "created" => jobs'[j].status # "created"
               /\ jobs[j].status \in {"pending", "running"} \/ Active(j) =>
                    jobs'[j].status \in {"pending", "running"} \/ Active(j)'
    BY <2>2, <2>3, <2>4, <2>5 DEF Working, RunningHeld, Done
  <2> QED
    BY <2>2, <2>6, <2>7, WorkKept
<1> QED
  BY <1>1, <1>2, <1>3, <1>4, <1>5, <1>6, <1>7

\* onJobTerminal: a verdict that leaves its stage incomplete leaves a job of
\* the stage on its way; otherwise the next stage is, or the pipeline ends.
LEMMA TerminalKeepsWork ==
  ASSUME IInv, Sequential, Working, NEW c \in Calls, UpdateTerminal(c)
  PROVE  Working'
<1>0. PICK j, p, pl : j = calls[c].job /\ p = jobs[j].pipeline /\ pl = pipelines[p]
  OBVIOUS
<1>1. /\ calls[c].pc = "terminal" /\ OnJobTerminal(j, calls[c].state) /\ UNCHANGED exec
      /\ j \in DOMAIN jobs /\ p \in DOMAIN pipelines
      /\ \A d \in Calls \ {c} : calls'[d] = calls[d]
      /\ calls[c].state \in {"running"} \cup Done
  BY <1>0 DEF UpdateTerminal, IInv, TypeOK
<1>2. /\ pl \in [project: Projects, stages: Seq(STRING), stageIdx: Nat \ {0},
                 status: {"running", "success", "failed"}]
      /\ pl.stages # << >> /\ pl.stageIdx <= Len(pl.stages) + 1 /\ Len(pl.stages) \in Nat
  BY <1>0, <1>1 DEF IInv, TypeOK
<1>3. /\ jobs[j].status = calls[c].state
      /\ calls[c].state = "running" => exec[j] = "executing"
  BY <1>0, <1>1 DEF Sequential, ReportFacts, Reporting
<1>4. \A k \in DOMAIN jobs \ {j} : Active(k) => Active(k)'
  BY <1>0, <1>1 DEF Active
<1>5. RunningHeld'
  <2>1. PICK batch : Releases(batch)
    BY TerminalReleases
  <2>2. ASSUME NEW k \in DOMAIN jobs', jobs'[k].status = "running"
        PROVE  exec'[k] = "executing" \/ Active(k)'
    <3>1. k \in DOMAIN jobs /\ jobs'[k] = jobs[k] /\ exec'[k] = exec[k]
      BY <2>1, <2>2 DEF Releases, SameJobs
    <3>2. CASE k = j
      BY <1>1, <1>3, <2>2, <3>1, <3>2 DEF Done
    <3>3. CASE k # j
      BY <1>4, <2>2, <3>1, <3>3 DEF Working, RunningHeld
    <3> QED
      BY <3>2, <3>3
  <2> QED
    BY <2>2 DEF RunningHeld
<1>6. ASSUME NEW q \in DOMAIN pipelines, q # p, DOMAIN jobs' = DOMAIN jobs,
             \A k \in DOMAIN jobs : jobs[k].pipeline = q => jobs'[k] = jobs[k],
             \A k \in DOMAIN jobs : jobs'[k].pipeline = jobs[k].pipeline,
             pipelines'[q] = pipelines[q]
      PROVE  PipeFacts(q)'
  <2> SUFFICES ASSUME pipelines[q].status = "running" PROVE Busy(q)' /\ StageReleased(q)'
    BY <1>6 DEF PipeFacts
  <2>1. JobIDs(q)' = JobIDs(q) /\ j \notin JobIDs(q)
    BY <1>0, <1>6 DEF JobIDs
  <2>2. Busy(q) /\ StageReleased(q)
    BY DEF Working, PipeFacts
  <2>3. Busy(q)'
    BY <1>4, <1>6, <2>1, <2>2 DEF Busy, JobIDs
  <2>4. StageReleased(q)'
    BY <1>6, <2>1, <2>2 DEF StageReleased, JobIDs
  <2> QED
    BY <2>3, <2>4
<1>7. CASE /\ calls[c].state \notin Done \/ (calls[c].state = "success" /\ ~StageComplete(p))
           /\ UNCHANGED <<pipelines, jobs, queue>>
  <2>1. ASSUME NEW q \in DOMAIN pipelines, q # p PROVE PipeFacts(q)'
    BY <1>6, <1>7, <2>1
  <2>2. ASSUME pipelines[p].status = "running" PROVE Busy(p)' /\ StageReleased(p)'
    <3>1. StageReleased(p)
      BY <1>1, <2>2 DEF Working, PipeFacts
    <3>2. StageReleased(p)' /\ JobIDs(p)' = JobIDs(p)
      BY <1>7, <3>1 DEF StageReleased, JobIDs
    <3>3. CASE calls[c].state \notin Done
      <4>1. j \in JobIDs(p) /\ jobs[j].status = "running"
        BY <1>0, <1>1, <1>3, <3>3 DEF JobIDs
      <4> QED
        BY <1>7, <3>2, <4>1 DEF Busy
    <3>4. CASE ~StageComplete(p)
      <4>1. pl.stageIdx <= Len(pl.stages)
        BY <1>0, <3>1 DEF StageReleased
      <4>2. PICK k \in JobIDs(p) : jobs[k].stage = pl.stages[pl.stageIdx] /\ jobs[k].status \notin Done
        BY <1>0, <3>4, <4>1 DEF StageComplete
      <4>3. jobs[k].status # "created"
        BY <1>0, <3>1, <4>2 DEF StageReleased
      <4>4. jobs[k].status \in {"pending", "running"}
        BY <4>2, <4>3 DEF IInv, TypeOK, JobIDs
      <4> QED
        BY <1>7, <3>2, <4>4 DEF Busy
    <3> QED
      BY <1>7, <3>3, <3>4
  <2> QED
    BY <1>5, <1>7, <2>1, <2>2 DEF Working, PipeFacts
<1>8. CASE pipelines' = [pipelines EXCEPT ![p].status = "failed"] /\ UNCHANGED <<jobs, queue>>
  <2>1. /\ DOMAIN pipelines' = DOMAIN pipelines
        /\ pipelines'[p].status = "failed"
        /\ \A q \in DOMAIN pipelines \ {p} : pipelines'[q] = pipelines[q]
    BY <1>0, <1>1, <1>2, <1>8
  <2>2. ASSUME NEW q \in DOMAIN pipelines, q # p PROVE PipeFacts(q)'
    BY <1>6, <1>8, <2>1, <2>2
  <2>3. PipeFacts(p)'
    BY <2>1 DEF PipeFacts
  <2> QED
    BY <1>5, <2>1, <2>2, <2>3 DEF Working
<1>9. CASE EnqueueStage(p, Advanced(pl), jobs)
  <2>1. PICK ad : ad = Advanced(pl)
    OBVIOUS
  <2>2. PipelineRec(ad)
    BY <1>2, <2>1, AdvancedRec
  <2>3. \A k \in DOMAIN jobs : jobs[k] \in JobRec(DOMAIN pipelines)
    BY DEF IInv, TypeOK, JobRec
  <2>4. EnqueueStage(p, ad, jobs)
    BY <1>9, <2>1
  <2>5. /\ DOMAIN pipelines' = DOMAIN pipelines \cup {p}
        /\ \A q \in DOMAIN pipelines \ {p} : pipelines'[q] = pipelines[q]
        /\ PipeFacts(p)'
    BY <2>2, <2>3, <2>4, EnqueueRuns
  <2>6. /\ DOMAIN jobs' = DOMAIN jobs
        /\ \A k \in DOMAIN jobs : jobs[k].pipeline # p => jobs'[k] = jobs[k]
        /\ \A k \in DOMAIN jobs : jobs'[k].pipeline = jobs[k].pipeline
    <3>1. PICK i \in ad.stageIdx..(Len(ad.stages) + 1) :
            jobs' = [k \in DOMAIN jobs |->
                       IF k \in (IF i <= Len(ad.stages) THEN Created(p, ad.stages[i], jobs) ELSE {})
                       THEN [jobs[k] EXCEPT !.status = "pending"] ELSE jobs[k]]
      BY <2>4, Zenon DEF EnqueueStage
    <3>2. \A k \in DOMAIN jobs : jobs[k].pipeline # p => k \notin Created(p, ad.stages[i], jobs)
      BY DEF Created
    <3>3. /\ DOMAIN jobs' = DOMAIN jobs
          /\ \A k \in DOMAIN jobs : jobs'[k] \in {jobs[k], [jobs[k] EXCEPT !.status = "pending"]}
      BY <3>1
    <3>4. \A k \in DOMAIN jobs : jobs'[k].pipeline = jobs[k].pipeline
      BY <2>3, <3>3 DEF JobRec
    <3> QED
      BY <3>1, <3>2, <3>4
  <2>7. ASSUME NEW q \in DOMAIN pipelines, q # p PROVE PipeFacts(q)'
    BY <1>6, <2>5, <2>6, <2>7
  <2> QED
    BY <1>1, <1>5, <2>5, <2>7 DEF Working
<1> QED
  BY <1>0, <1>1, <1>7, <1>8, <1>9 DEF OnJobTerminal

\* createPipelineLocked: the new pipeline runs with its first stage released.
LEMMA CreateKeepsWork ==
  ASSUME IInv, Working, NEW prj \in Projects, NEW cfg \in Configs, CreatePipeline(prj, cfg)
  PROVE  Working'
<1>1. PICK p, ids, batch, pl, js :
        /\ Appears(p, ids, batch)
        /\ PipelineRec(pl)
        /\ \A j \in DOMAIN js : js[j] \in JobRec(DOMAIN pipelines \cup {p})
        /\ EnqueueStage(p, pl, js)
  BY CreateEffect, Zenon
<1>2. /\ DOMAIN pipelines' = DOMAIN pipelines \cup {p}
      /\ \A q \in DOMAIN pipelines \ {p} : pipelines'[q] = pipelines[q]
      /\ PipeFacts(p)'
  BY <1>1, EnqueueRuns
<1>3. calls' = calls
  BY DEF CreatePipeline
<1>4. /\ DOMAIN jobs' = DOMAIN jobs \cup ids /\ p \notin DOMAIN pipelines
      /\ \A j \in DOMAIN jobs : jobs'[j] = jobs[j] /\ exec'[j] = exec[j]
      /\ \A j \in ids : jobs'[j].pipeline = p /\ jobs'[j].status # "running"
  BY <1>1 DEF Appears
<1>5. RunningHeld'
  BY <1>3, <1>4 DEF Working, RunningHeld, Active
<1>6. ASSUME NEW q \in DOMAIN pipelines, pipelines'[q].status = "running"
      PROVE  Busy(q)' /\ StageReleased(q)'
  <2>1. q # p /\ pipelines'[q] = pipelines[q] /\ JobIDs(q)' = JobIDs(q)
    BY <1>2, <1>4 DEF JobIDs
  <2>2. Busy(q) /\ StageReleased(q)
    BY <1>6, <2>1 DEF Working, PipeFacts
  <2>3. Busy(q)'
    BY <1>3, <1>4, <2>1, <2>2 DEF Busy, JobIDs, Active
  <2>4. StageReleased(q)'
    BY <1>4, <2>1, <2>2 DEF StageReleased, JobIDs
  <2> QED
    BY <2>3, <2>4
<1> QED
  BY <1>2, <1>5, <1>6 DEF Working, PipeFacts

LEMMA WorkingNext ==
  ASSUME ~Lossy, IInv, Sequential, Working, [Next]_vars
  PROVE  Working'
<1>1. ASSUME NEW r \in Runners, Register(r) \/ Unregister(r) PROVE Working'
  BY <1>1 DEF Register, Unregister, Working, RunningHeld, PipeFacts, Busy, StageReleased,
              JobIDs, Active
<1>2. ASSUME NEW prj \in Projects, NEW cfg \in Configs, CreatePipeline(prj, cfg)
      PROVE  Working'
  BY <1>2, CreateKeepsWork
<1>3. ASSUME NEW c \in Calls,
             \/ \E r \in Runners : ClaimDequeue(c, r)
             \/ ClaimMark(c)
             \/ ClaimRollUp(c)
             \/ ClaimRespond(c)
             \/ \E j \in DOMAIN jobs, s \in {"running"} \cup Done : UpdateCall(c, j, s)
             \/ UpdateStatus(c)
      PROVE  Working'
  BY <1>3, HandlerKeepsWork
<1>4. ASSUME NEW c \in Calls, UpdateTerminal(c) PROVE Working'
  BY <1>4, TerminalKeepsWork
<1>5. CASE UNCHANGED vars
  BY <1>5 DEF vars, Working, RunningHeld, PipeFacts, Busy, StageReleased, JobIDs, Active
<1> QED
  BY <1>1, <1>2, <1>3, <1>4, <1>5 DEF Next

LEMMA StaysWorking ==
  ASSUME ~Overlap, ~Lossy
  PROVE  Spec => []Working
<1>1. Init => Working
  BY DEF Init, Working, RunningHeld
<1>2. IInv /\ Sequential /\ Working /\ [Next]_vars => Working'
  BY WorkingNext
<1> QED
  BY <1>1, <1>2, Invariance, StaysSequential, PTL DEF Spec

\* Once a pipeline runs, it never wedges: a job of it is in the queue, with a
\* handler or being built, until it ends (enqueueStageLocked, onJobTerminal).
THEOREM PipelinesNeverWedge ==
  ASSUME ~Overlap, ~Lossy
  PROVE  Spec => []RunningHasWork
<1>1. IInv /\ PendingHeld /\ Working => RunningHasWork
  <2> SUFFICES ASSUME PendingHeld, Working, NEW p \in DOMAIN pipelines,
                      pipelines[p].status = "running"
               PROVE  \E j \in JobIDs(p) : j \in Queued \/ exec[j] = "executing" \/ Active(j)
    BY DEF RunningHasWork, Active
  <2>1. PICK j \in JobIDs(p) : jobs[j].status \in {"pending", "running"} \/ Active(j)
    BY DEF Working, PipeFacts, Busy
  <2>2. j \in DOMAIN jobs
    BY DEF JobIDs
  <2>3. j \in Queued \/ exec[j] = "executing" \/ Active(j)
    BY <2>1, <2>2 DEF Working, RunningHeld, PendingHeld, Held, Active
  <2> QED
    BY <2>3
<1> QED
  BY <1>1, Invariance, PendingStaysHeld, StaysWorking, PTL
=============================================================================
