--------------------------- MODULE PipelinesProofs ---------------------------
(***************************************************************************)
(* Machine-checked proofs about Pipelines: the inductive invariant IInv    *)
(* holds for any number of runners, handlers, pipelines and jobs, whether  *)
(* or not PUTs overlap and answers are lost; OneHolder, StageOrder and     *)
(* SuccessAccounted follow from it.                                        *)
(***************************************************************************)
EXTENDS Pipelines, FiniteSetTheorems, SequenceTheorems, TLAPS

\* A finite set of ids, listed in order, is appended to the queue: the queue
\* then holds the old ids and the new ones, each once.
LEMMA AppendBlock ==
  ASSUME NEW S, NEW q \in Seq(S), NEW batch \in SUBSET S, IsFiniteSet(batch),
         NEW block \in [1..Cardinality(batch) -> batch], InOrder(block, batch),
         S \subseteq Nat
  PROVE  /\ q \o block \in Seq(S)
         /\ Range(q \o block) = Range(q) \cup batch
         /\ IsInjective(q) /\ Range(q) \cap batch = {} => IsInjective(q \o block)
<1> DEFINE n == Cardinality(batch)
           r == q \o block
<1>1. n \in Nat
  BY FS_CardinalityType
<1>2. block \in Seq(S) /\ Len(block) = n
  <2>1. block \in [1..n -> S]
    OBVIOUS
  <2> HIDE DEF n
  <2> QED BY <1>1, <2>1
<1>3. r \in Seq(S) /\ Len(r) = Len(q) + n
  BY <1>2
<1>4. \A i \in 1..Len(r) : r[i] = IF i <= Len(q) THEN q[i] ELSE block[i - Len(q)]
  BY <1>1, <1>2, <1>3
<1>5. Range(block) = batch
  BY DEF InOrder
<1>6. Range(r) = Range(q) \cup batch
  BY <1>2, <1>5, RangeConcatenation
<1>7. \A i, k \in 1..n : i < k => block[i] # block[k]
  <2> SUFFICES ASSUME NEW i \in 1..n, NEW k \in 1..n, i < k
               PROVE  block[i] # block[k]
    OBVIOUS
  <2> block[i] \in Nat /\ block[k] \in Nat /\ i \in DOMAIN block /\ k \in DOMAIN block
    BY <1>1
  <2> QED BY DEF InOrder
<1>8. ASSUME IsInjective(q), Range(q) \cap batch = {}
      PROVE  IsInjective(r)
  <2>0. \A i, k \in 1..Len(q) : i < k => q[i] # q[k]
    BY <1>8 DEF IsInjective
  <2>1. \A i \in 1..Len(q) : q[i] \notin batch
    BY <1>8 DEF Range
  <2>2. ASSUME NEW i \in 1..Len(r), NEW k \in 1..Len(r), i < k
        PROVE  r[i] # r[k]
    <3>1. CASE k <= Len(q)
      BY <2>0, <2>2, <3>1, <1>4
    <3>2. CASE i <= Len(q) /\ ~(k <= Len(q))
      <4>1. r[i] = q[i] /\ i \in 1..Len(q)
        BY <3>2, <1>4
      <4>2. r[k] = block[k - Len(q)] /\ k - Len(q) \in 1..n
        BY <3>2, <1>1, <1>3, <1>4
      <4>3. r[k] \in batch
        BY <4>2
      <4> QED BY <4>1, <4>3, <2>1
    <3>3. CASE ~(i <= Len(q))
      <4>1. r[i] = block[i - Len(q)] /\ i - Len(q) \in 1..n
        BY <3>3, <1>1, <1>3, <1>4
      <4>2. r[k] = block[k - Len(q)] /\ k - Len(q) \in 1..n
        BY <2>2, <3>3, <1>1, <1>3, <1>4
      <4> QED BY <2>2, <4>1, <4>2, <1>7
    <3> QED BY <3>1, <3>2, <3>3
  <2>3. DOMAIN r = 1..Len(r) /\ Len(r) \in Nat
    BY <1>3
  <2> HIDE DEF r
  <2> QED BY <2>2, <2>3 DEF IsInjective
<1> QED BY <1>3, <1>6, <1>8

-----------------------------------------------------------------------------
\* What holds of a pipeline record with which enqueueStageLocked is called.
PipelineRec(pl) ==
  /\ pl \in [project: Projects, stages: Seq(STRING), stageIdx: Nat \ {0},
              status: {"pending", "running"} \cup Done]
  /\ pl.stages # << >>
  /\ pl.stageIdx <= Len(pl.stages) + 1

JobRec(P) == [pipeline: P, stage: STRING, status: {"created", "pending", "running"} \cup Done]

\* The effect of enqueueStageLocked: the queue gains the created jobs of one
\* stage (i, none if the stages are exhausted), each once, and the pipeline
\* points at that stage.
LEMMA EnqueueEffect ==
  ASSUME NEW p, NEW pl, NEW js, NEW P, NEW N \in Nat,
         PipelineRec(pl), DOMAIN js \subseteq 1..N,
         \A j \in DOMAIN js : js[j] \in JobRec(P),
         queue \in Seq(DOMAIN js),
         EnqueueStage(p, pl, js)
  PROVE  \E i \in pl.stageIdx..(Len(pl.stages) + 1), batch \in SUBSET DOMAIN js :
           /\ i <= Len(pl.stages) => batch = Created(p, pl.stages[i], js)
           /\ i = Len(pl.stages) + 1 => batch = {}
           /\ \A k \in pl.stageIdx..(i - 1) : Created(p, pl.stages[k], js) = {}
           /\ jobs' = [j \in DOMAIN js |->
                         IF j \in batch THEN [js[j] EXCEPT !.status = "pending"] ELSE js[j]]
           /\ pipelines' = Put(pipelines, p,
                [pl EXCEPT !.stageIdx = i, !.status = RolledUp(@, i <= Len(pl.stages))])
           /\ queue' \in Seq(DOMAIN js)
           /\ Range(queue') = Queued \cup batch
           /\ IsInjective(queue) /\ Queued \cap batch = {} => IsInjective(queue')
<1>1. PICK i \in pl.stageIdx..(Len(pl.stages) + 1) :
        LET found == i <= Len(pl.stages)
            batch == IF found THEN Created(p, pl.stages[i], js) ELSE {}
        IN /\ \A k \in pl.stageIdx..(i - 1) : Created(p, pl.stages[k], js) = {}
           /\ found => batch # {}
           /\ jobs' = [j \in DOMAIN js |->
                         IF j \in batch THEN [js[j] EXCEPT !.status = "pending"] ELSE js[j]]
           /\ \E block \in [1..Cardinality(batch) -> batch] :
                InOrder(block, batch) /\ queue' = queue \o block
           /\ pipelines' = Put(pipelines, p, [pl EXCEPT !.stageIdx = i, !.status = RolledUp(@, found)])
  BY Zenon DEF EnqueueStage
<1> DEFINE batch == IF i <= Len(pl.stages) THEN Created(p, pl.stages[i], js) ELSE {}
<1>2. batch \in SUBSET DOMAIN js
  BY DEF Created
<1>3. IsFiniteSet(batch)
  BY <1>2, FS_Interval, FS_Subset, 1 \in Int, N \in Int
<1>4. PICK block \in [1..Cardinality(batch) -> batch] :
        InOrder(block, batch) /\ queue' = queue \o block
  BY <1>1
<1>5. i \in Int /\ Len(pl.stages) \in Nat
  BY DEF PipelineRec
<1>6. DOMAIN js \subseteq Nat
  OBVIOUS
<1> HIDE DEF batch
<1>7. /\ queue' \in Seq(DOMAIN js)
      /\ Range(queue') = Queued \cup batch
      /\ IsInjective(queue) /\ Queued \cap batch = {} => IsInjective(queue')
  <2>1. InOrder(block, batch) /\ queue' = queue \o block
    BY <1>4
  <2>2. queue \in Seq(DOMAIN js) /\ batch \in SUBSET DOMAIN js /\ DOMAIN js \subseteq Nat
    BY <1>2, <1>6
  <2>3. block \in [1..Cardinality(batch) -> batch]
    OBVIOUS
  <2>4. /\ queue \o block \in Seq(DOMAIN js)
        /\ Range(queue \o block) = Range(queue) \cup batch
        /\ IsInjective(queue) /\ Range(queue) \cap batch = {} => IsInjective(queue \o block)
    BY <1>3, <2>1, <2>2, <2>3, AppendBlock, Zenon
  <2> QED BY ONLY <2>1, <2>4, Zenon DEF Queued
<1>8. /\ i <= Len(pl.stages) => batch = Created(p, pl.stages[i], js)
      /\ i = Len(pl.stages) + 1 => batch = {}
  BY <1>5 DEF batch
<1>9. /\ jobs' = [j \in DOMAIN js |->
                    IF j \in batch THEN [js[j] EXCEPT !.status = "pending"] ELSE js[j]]
      /\ pipelines' = Put(pipelines, p,
           [pl EXCEPT !.stageIdx = i, !.status = RolledUp(@, i <= Len(pl.stages))])
  BY <1>1, Zenon DEF batch
<1> QED BY <1>1, <1>2, <1>7, <1>8, <1>9

-----------------------------------------------------------------------------
CallRec(J) == [pc: {"idle"} \cup Claiming \cup Reporting, job: J \cup {0},
               state: {"running"} \cup Done]

\* A handler steps to its next critical section; the others stand still.
LEMMA NextSection ==
  ASSUME NEW J, calls \in [Calls -> CallRec(J)], NEW c \in Calls,
         NEW pc \in {"idle"} \cup Claiming \cup Reporting,
         calls' = [calls EXCEPT ![c].pc = pc]
  PROVE  /\ calls' \in [Calls -> CallRec(J)]
         /\ calls'[c].job = calls[c].job /\ calls'[c].state = calls[c].state
         /\ calls'[c].pc = pc
         /\ \A d \in Calls \ {c} : calls'[d] = calls[d]
<1> DEFINE PC == {"idle"} \cup Claiming \cup Reporting
           St == {"running"} \cup Done
           Jb == J \cup {0}
<1>1. calls \in [Calls -> [pc: PC, job: Jb, state: St]] /\ pc \in PC
  BY DEF CallRec
<1> HIDE DEF PC, St, Jb
<1>2. /\ calls' \in [Calls -> [pc: PC, job: Jb, state: St]]
      /\ calls'[c].job = calls[c].job /\ calls'[c].state = calls[c].state
      /\ calls'[c].pc = pc
      /\ \A d \in Calls \ {c} : calls'[d] = calls[d]
  BY <1>1
<1> QED BY <1>2 DEF PC, St, Jb, CallRec

\* The inductive invariant holds initially.
LEMMA InitInv == Init => IInv
<1> SUFFICES ASSUME Init PROVE IInv
  OBVIOUS
<1>1. TypeOK
  <2>1. /\ nextID = 1 /\ runners = [r \in Runners |-> "new"]
        /\ pipelines = << >> /\ jobs = << >> /\ queue = << >> /\ exec = << >>
        /\ calls = [c \in Calls |-> Idle]
    BY DEF Init
  <2>2. DOMAIN << >> = {}
    OBVIOUS
  <2>3. queue \in Seq(DOMAIN jobs)
    BY <2>1
  <2>4. exec \in [DOMAIN jobs -> {"none", "executing"} \cup Done]
    BY <2>1, <2>2
  <2>5. calls \in [Calls -> [pc: {"idle"} \cup Claiming \cup Reporting,
                            job: DOMAIN jobs \cup {0}, state: {"running"} \cup Done]]
    BY <2>1 DEF Idle
  <2>6. \A c \in Calls : calls[c].pc = "idle"
    BY <2>1 DEF Idle
  <2>7. DOMAIN pipelines = {} /\ DOMAIN jobs = {}
    BY <2>1, <2>2
  <2>8. nextID \in Nat \ {0} /\ runners \in [Runners -> {"new", "registered", "gone"}]
    BY <2>1
  <2>9. /\ DOMAIN pipelines \subseteq 1..(nextID - 1)
        /\ DOMAIN jobs \subseteq 1..(nextID - 1)
    BY <2>7
  <2>10. /\ \A p \in DOMAIN pipelines :
             /\ pipelines[p] \in [project: Projects, stages: Seq(STRING), stageIdx: Nat \ {0},
                                 status: {"running", "success", "failed"}]
             /\ pipelines[p].stages # << >>
             /\ pipelines[p].stageIdx <= Len(pipelines[p].stages) + 1
         /\ \A j \in DOMAIN jobs :
             jobs[j] \in [pipeline: DOMAIN pipelines, stage: STRING,
                         status: {"created", "pending", "running"} \cup Done]
    BY <2>7
  <2>11. \A c \in Calls : calls[c].pc # "idle" => calls[c].job \in DOMAIN jobs
    BY <2>6
  <2> QED BY ONLY <2>3, <2>4, <2>5, <2>8, <2>9, <2>10, <2>11 DEF TypeOK
<1>2. OneHolder
  BY DEF Init, OneHolder, Idle, Claiming, Queued, Range, IsInjective
<1>3. JobFacts /\ StageFacts
  BY DEF Init, JobFacts, StageFacts
<1>4. CallFacts
  BY DEF Init, CallFacts, Idle, Reporting
<1> QED BY <1>1, <1>2, <1>3, <1>4 DEF IInv

\* Registering and unregistering a runner touches no job.
LEMMA RunnerInv ==
  ASSUME IInv, NEW r \in Runners, Register(r) \/ Unregister(r)
  PROVE  IInv'
<1>1. UNCHANGED <<pipelines, jobs, queue, calls, exec>> /\ nextID' \in {nextID, nextID + 1}
  BY DEF Register, Unregister
<1>2. TypeOK'
  <2>1. nextID' \in Nat \ {0} /\ 1..(nextID - 1) \subseteq 1..(nextID' - 1)
    <3>1. nextID \in Nat \ {0}
      BY DEF IInv, TypeOK
    <3>2. nextID' = nextID \/ nextID' = nextID + 1
      BY <1>1
    <3> QED BY ONLY <3>1, <3>2
  <2>2. runners' \in [Runners -> {"new", "registered", "gone"}]
    BY DEF IInv, TypeOK, Register, Unregister
  <2> QED BY <1>1, <2>1, <2>2 DEF IInv, TypeOK
<1>3. OneHolder'
  BY <1>1 DEF IInv, OneHolder, Queued
<1>4. JobFacts' /\ CallFacts' /\ StageFacts'
  BY <1>1 DEF IInv, JobFacts, CallFacts, StageFacts, Queued
<1> QED BY <1>2, <1>3, <1>4 DEF IInv

\* A poll pops the head of the queue: the job leaves the queue, where it was
\* once, and is in the hands of this call only.
LEMMA ClaimDequeueInv ==
  ASSUME IInv, NEW c \in Calls, NEW r \in Runners, ClaimDequeue(c, r)
  PROVE  IInv'
<1> DEFINE h == Head(queue)
<1>1. /\ queue' = Tail(queue) /\ queue # << >> /\ calls[c].pc = "idle"
      /\ calls' = [calls EXCEPT ![c] = [pc |-> "mark", job |-> h, state |-> "running"]]
      /\ UNCHANGED <<nextID, runners, pipelines, jobs, exec>>
  BY DEF ClaimDequeue
<1>2. queue \in Seq(DOMAIN jobs) /\ calls \in [Calls -> [pc: {"idle"} \cup Claiming \cup Reporting,
          job: DOMAIN jobs \cup {0}, state: {"running"} \cup Done]]
  BY DEF IInv, TypeOK
<1>3. /\ h \in DOMAIN jobs /\ h \in Queued
      /\ queue' \in Seq(DOMAIN jobs) /\ Len(queue') = Len(queue) - 1 /\ Len(queue) \in Nat
      /\ \A i \in 1..Len(queue') : queue'[i] = queue[i + 1]
  BY <1>1, <1>2 DEF Queued, Range
<1>4. /\ Queued' \subseteq Queued
      /\ h \notin Queued'
      /\ IsInjective(queue')
  <2>1. \A i, k \in 1..Len(queue) : queue[i] = queue[k] => i = k
    BY <1>2 DEF IInv, OneHolder, IsInjective
  <2>2. DOMAIN queue = 1..Len(queue) /\ DOMAIN queue' = 1..Len(queue') /\ h = queue[1]
    BY <1>1, <1>2, <1>3
  <2>3. \A i \in 1..Len(queue') : i + 1 \in 1..Len(queue) /\ i + 1 # 1
    BY <1>3
  <2>4. 1 \in 1..Len(queue)
    BY <1>1, <1>2
  <2>5. h \notin Queued'
    BY <2>1, <2>2, <2>3, <2>4, <1>3 DEF Queued, Range
  <2>6. Queued' \subseteq Queued
    BY <2>2, <2>3, <1>3 DEF Queued, Range
  <2>7. IsInjective(queue')
    BY <2>1, <2>2, <2>3, <1>3 DEF IsInjective
  <2> QED BY <2>5, <2>6, <2>7
<1>5. TypeOK'
  BY <1>1, <1>3 DEF IInv, TypeOK, Claiming
<1>6. OneHolder'
  BY <1>1, <1>2, <1>3, <1>4 DEF IInv, OneHolder, Claiming
<1>7. JobFacts'
  BY <1>1, <1>4 DEF IInv, JobFacts
<1>8. CallFacts'
  BY <1>1, <1>2, <1>3 DEF IInv, CallFacts, JobFacts, Reporting
<1>9. StageFacts'
  BY <1>1 DEF IInv, StageFacts
<1> QED BY <1>5, <1>6, <1>7, <1>8, <1>9 DEF IInv

\* The popped job is marked running: it is this call's, so no other fact moves.
LEMMA ClaimMarkInv ==
  ASSUME IInv, NEW c \in Calls, ClaimMark(c)
  PROVE  IInv'
<1> DEFINE j == calls[c].job
<1>1. /\ calls[c].pc = "mark"
      /\ jobs' = [jobs EXCEPT ![j].status = "running"]
      /\ calls' = [calls EXCEPT ![c].pc = "rollup"]
      /\ UNCHANGED <<nextID, runners, pipelines, queue, exec>>
  BY DEF ClaimMark
<1>2. /\ j \in DOMAIN jobs /\ j \notin Queued /\ exec[j] = "none" /\ jobs[j].status = "pending"
      /\ \A d \in Calls \ {c} : calls[d].pc \in Claiming => calls[d].job # j
      /\ \A d \in Calls : calls[d].pc \in Reporting => calls[d].job # j
  BY <1>1 DEF IInv, TypeOK, OneHolder, CallFacts, Claiming, Reporting
<1>3. /\ DOMAIN jobs' = DOMAIN jobs
      /\ \A i \in DOMAIN jobs : /\ jobs'[i].pipeline = jobs[i].pipeline
                                /\ jobs'[i].stage = jobs[i].stage
                                /\ jobs'[i].status = IF i = j THEN "running" ELSE jobs[i].status
                                /\ jobs'[i] \in [pipeline: DOMAIN pipelines, stage: STRING,
                                      status: {"created", "pending", "running"} \cup Done]
  BY <1>1, <1>2, ZenonT(100) DEF IInv, TypeOK
<1>4. /\ calls' \in [Calls -> CallRec(DOMAIN jobs)]
      /\ \A d \in Calls : /\ calls'[d].job = calls[d].job /\ calls'[d].state = calls[d].state
                          /\ calls'[d].pc = IF d = c THEN "rollup" ELSE calls[d].pc
  <2>1. calls \in [Calls -> CallRec(DOMAIN jobs)]
    BY DEF IInv, TypeOK, CallRec
  <2>2. "rollup" \in {"idle"} \cup Claiming \cup Reporting
    BY DEF Claiming, Reporting
  <2> QED BY <1>1, <2>1, <2>2, NextSection
<1>5. Queued' = Queued /\ queue' = queue
  BY <1>1 DEF Queued
<1>6. TypeOK'
  BY <1>1, <1>3, <1>4, ZenonT(100) DEF IInv, TypeOK, CallRec
<1>7. OneHolder'
  BY <1>1, <1>4, <1>5 DEF IInv, OneHolder, Claiming
<1>8. JobFacts'
  BY <1>1, <1>2, <1>3, <1>5 DEF IInv, JobFacts, Done
<1>9. CallFacts'
  BY <1>1, <1>2, <1>3, <1>4, SMTT(60) DEF IInv, CallFacts, TypeOK, Claiming, Reporting
<1>10. StageFacts'
  BY <1>1, <1>2, <1>3 DEF IInv, StageFacts
<1> QED BY <1>6, <1>7, <1>8, <1>9, <1>10 DEF IInv

\* setPipelineStatus changes nothing: no pipeline is ever pending outside s.mu.
LEMMA ClaimRollUpInv ==
  ASSUME IInv, NEW c \in Calls, ClaimRollUp(c)
  PROVE  IInv'
<1>1. /\ calls[c].pc = "rollup"
      /\ calls' = [calls EXCEPT ![c].pc = "respond"]
      /\ UNCHANGED <<nextID, runners, jobs, queue, exec>>
  BY DEF ClaimRollUp
<1>2. pipelines' = [p \in DOMAIN pipelines |-> pipelines[p]]
  <2>1. \A p \in DOMAIN pipelines : pipelines[p].status # "pending"
    BY DEF IInv, TypeOK
  <2> QED BY <2>1 DEF ClaimRollUp
<1>3. DOMAIN pipelines' = DOMAIN pipelines /\ \A p \in DOMAIN pipelines : pipelines'[p] = pipelines[p]
  BY <1>2
<1>4. /\ calls' \in [Calls -> CallRec(DOMAIN jobs)]
      /\ \A d \in Calls : /\ calls'[d].job = calls[d].job /\ calls'[d].state = calls[d].state
                          /\ calls'[d].pc = IF d = c THEN "respond" ELSE calls[d].pc
  <2>1. calls \in [Calls -> CallRec(DOMAIN jobs)]
    BY DEF IInv, TypeOK, CallRec
  <2>2. "respond" \in {"idle"} \cup Claiming \cup Reporting
    BY DEF Claiming, Reporting
  <2> QED BY <1>1, <2>1, <2>2, NextSection
<1>5. Queued' = Queued
  BY <1>1 DEF Queued
<1>6. TypeOK'
  BY <1>1, <1>3, <1>4 DEF IInv, TypeOK, CallRec
<1>7. OneHolder'
  BY <1>1, <1>4, <1>5 DEF IInv, OneHolder, Claiming
<1>8. JobFacts'
  BY <1>1, <1>5 DEF IInv, JobFacts
<1>9. CallFacts'
  BY <1>1, <1>4 DEF IInv, CallFacts, Reporting
<1>10. StageFacts'
  BY <1>1, <1>3, ZenonT(100) DEF IInv, StageFacts, TypeOK
<1> QED BY <1>6, <1>7, <1>8, <1>9, <1>10 DEF IInv

\* The answer starts the build, or is lost: the job is out of the queue and of
\* every other claim, so it has one holder.
LEMMA ClaimRespondInv ==
  ASSUME IInv, NEW c \in Calls, ClaimRespond(c)
  PROVE  IInv'
<1> DEFINE j == calls[c].job
<1>1. /\ calls[c].pc = "respond"
      /\ exec' = [exec EXCEPT ![j] = "executing"] \/ exec' = exec
      /\ calls' = [calls EXCEPT ![c] = Idle]
      /\ UNCHANGED <<nextID, runners, pipelines, jobs, queue>>
  BY DEF ClaimRespond
<1>2. /\ j \in DOMAIN jobs /\ j \notin Queued /\ exec[j] = "none" /\ jobs[j].status = "running"
      /\ \A d \in Calls \ {c} : calls[d].pc \in Claiming => calls[d].job # j
      /\ \A d \in Calls : calls[d].pc \in Reporting => calls[d].job # j
  BY <1>1 DEF IInv, TypeOK, OneHolder, CallFacts, Claiming, Reporting
<1>3. /\ exec' \in [DOMAIN jobs -> {"none", "executing"} \cup Done]
      /\ \A i \in DOMAIN jobs : i # j => exec'[i] = exec[i]
  BY <1>1 DEF IInv, TypeOK
<1>4. /\ calls' \in [Calls -> [pc: {"idle"} \cup Claiming \cup Reporting,
                             job: DOMAIN jobs \cup {0}, state: {"running"} \cup Done]]
      /\ calls'[c].pc = "idle"
      /\ \A d \in Calls \ {c} : calls'[d] = calls[d]
  BY <1>1 DEF IInv, TypeOK, Idle
<1>5. Queued' = Queued
  BY <1>1 DEF Queued
<1>6. TypeOK'
  BY <1>1, <1>3, <1>4 DEF IInv, TypeOK
<1>7. OneHolder'
  <2>1. Queued \subseteq DOMAIN jobs
    BY DEF IInv, TypeOK, Queued, Range
  <2>2. \A i \in Queued' : exec'[i] = "none"
    BY <1>2, <1>3, <1>5, <2>1 DEF IInv, OneHolder
  <2>3. ASSUME NEW d \in Calls, calls'[d].pc \in Claiming
        PROVE  /\ calls'[d].job \notin Queued'
               /\ exec'[calls'[d].job] = "none"
               /\ \A e \in Calls \ {d} : calls'[e].pc \in Claiming => calls'[e].job # calls'[d].job
    <3>1. d # c /\ calls'[d] = calls[d]
      BY <2>3, <1>4 DEF Claiming
    <3>2. calls[d].job \in DOMAIN jobs /\ calls[d].job # j
      BY <2>3, <3>1, <1>2 DEF IInv, TypeOK, Claiming
    <3> QED BY <2>3, <3>1, <3>2, <1>3, <1>4, <1>5 DEF IInv, OneHolder, Claiming
  <2> QED BY <2>2, <2>3, <1>1 DEF IInv, OneHolder
<1>8. JobFacts'
  BY <1>1, <1>2, <1>3, <1>5 DEF IInv, JobFacts, Done
<1>9. CallFacts'
  BY <1>1, <1>2, <1>3, <1>4, SMTT(60) DEF IInv, CallFacts, TypeOK, Reporting
<1>10. StageFacts'
  BY <1>1, <1>2, <1>3 DEF IInv, StageFacts, Done
<1> QED BY <1>6, <1>7, <1>8, <1>9, <1>10 DEF IInv

\* A runner sends a report only of a job it holds, which no claim or queue has.
LEMMA UpdateCallInv ==
  ASSUME IInv, NEW c \in Calls, NEW j \in DOMAIN jobs, NEW s \in {"running"} \cup Done,
         UpdateCall(c, j, s)
  PROVE  IInv'
<1>1. /\ calls[c].pc = "idle"
      /\ exec[j] = "executing" \/ (exec[j] \in Done /\ s = exec[j])
      /\ exec' = [exec EXCEPT ![j] = IF s = "running" THEN exec[j] ELSE s]
      /\ calls' = [calls EXCEPT ![c] = [pc |-> "status", job |-> j, state |-> s]]
      /\ UNCHANGED <<nextID, runners, pipelines, jobs, queue>>
  BY VerdictsAssumption DEF UpdateCall
<1>2. /\ exec' \in [DOMAIN jobs -> {"none", "executing"} \cup Done]
      /\ \A i \in DOMAIN jobs : i # j => exec'[i] = exec[i]
      /\ exec'[j] = IF s = "running" THEN exec[j] ELSE s
      /\ exec[j] # "none" /\ exec'[j] # "none"
      /\ exec[j] \in Done => exec'[j] = exec[j]
  BY <1>1 DEF IInv, TypeOK, Done
<1>3. j \notin Queued /\ \A d \in Calls : calls[d].pc \in Claiming => calls[d].job # j
  BY <1>2 DEF IInv, OneHolder
<1>4. /\ calls' \in [Calls -> [pc: {"idle"} \cup Claiming \cup Reporting,
                             job: DOMAIN jobs \cup {0}, state: {"running"} \cup Done]]
      /\ calls'[c] = [pc |-> "status", job |-> j, state |-> s]
      /\ \A d \in Calls \ {c} : calls'[d] = calls[d]
  BY <1>1 DEF IInv, TypeOK, Reporting
<1>5. Queued' = Queued
  BY <1>1 DEF Queued
<1>6. TypeOK'
  BY <1>1, <1>2, <1>4 DEF IInv, TypeOK
<1>7. OneHolder'
  BY <1>1, <1>2, <1>3, <1>4, <1>5 DEF IInv, TypeOK, OneHolder, Claiming
<1>8. JobFacts'
  <2>1. jobs[j].status \notin {"created", "pending"}
    BY <1>2 DEF IInv, JobFacts
  <2>2. jobs[j].status \in Done => exec'[j] = jobs[j].status
    BY <1>2 DEF IInv, JobFacts
  <2> QED BY <1>1, <1>2, <1>3, <1>5, <2>1, <2>2 DEF IInv, JobFacts
<1>9. CallFacts'
  <2>1. \A d \in Calls \ {c} : calls[d].pc \in Reporting /\ calls[d].job = j =>
          calls[d].state \in {"running", exec'[j]}
    BY <1>2, <1>1 DEF IInv, CallFacts, TypeOK, Done
  <2>2. s \in {"running", exec'[j]}
    BY <1>2
  <2> QED BY <1>1, <1>2, <1>3, <1>4, <2>1, <2>2 DEF IInv, CallFacts, TypeOK, Reporting, Claiming
<1>10. StageFacts'
  BY <1>1, <1>2 DEF IInv, StageFacts, Done
<1> QED BY <1>6, <1>7, <1>8, <1>9, <1>10 DEF IInv

\* The reported state is stored: it is "running" or the verdict itself.
LEMMA UpdateStatusInv ==
  ASSUME IInv, NEW c \in Calls, UpdateStatus(c)
  PROVE  IInv'
<1> DEFINE j == calls[c].job
           s == calls[c].state
<1>1. /\ calls[c].pc = "status"
      /\ jobs' = [jobs EXCEPT ![j].status = s]
      /\ calls' = [calls EXCEPT ![c].pc = "terminal"]
      /\ UNCHANGED <<nextID, runners, pipelines, queue, exec>>
  BY DEF UpdateStatus
<1>2. /\ j \in DOMAIN jobs /\ s \in {"running"} \cup Done
      /\ exec[j] # "none" /\ s \in {"running", exec[j]}
      /\ j \notin Queued
      /\ \A d \in Calls : calls[d].pc \in Claiming => calls[d].job # j
      /\ jobs[j].status # "created"
  BY <1>1 DEF IInv, TypeOK, OneHolder, CallFacts, JobFacts, Claiming, Reporting
<1>3. /\ DOMAIN jobs' = DOMAIN jobs
      /\ \A i \in DOMAIN jobs : /\ jobs'[i].pipeline = jobs[i].pipeline
                                /\ jobs'[i].stage = jobs[i].stage
                                /\ jobs'[i].status = IF i = j THEN s ELSE jobs[i].status
                                /\ jobs'[i] \in [pipeline: DOMAIN pipelines, stage: STRING,
                                      status: {"created", "pending", "running"} \cup Done]
  BY <1>1, <1>2, ZenonT(100) DEF IInv, TypeOK
<1>4. /\ calls' \in [Calls -> CallRec(DOMAIN jobs)]
      /\ \A d \in Calls : /\ calls'[d].job = calls[d].job /\ calls'[d].state = calls[d].state
                          /\ calls'[d].pc = IF d = c THEN "terminal" ELSE calls[d].pc
  <2>1. calls \in [Calls -> CallRec(DOMAIN jobs)]
    BY DEF IInv, TypeOK, CallRec
  <2>2. "terminal" \in {"idle"} \cup Claiming \cup Reporting
    BY DEF Claiming, Reporting
  <2> QED BY <1>1, <2>1, <2>2, NextSection
<1>5. Queued' = Queued /\ queue' = queue
  BY <1>1 DEF Queued
<1> HIDE DEF s, j
<1>6. TypeOK'
  BY <1>1, <1>3, <1>4, ZenonT(100) DEF IInv, TypeOK, CallRec
<1>7. OneHolder'
  BY <1>1, <1>4, <1>5 DEF IInv, OneHolder, Claiming
<1>8. JobFacts'
  BY <1>1, <1>2, <1>3, <1>5 DEF IInv, JobFacts, Done
<1>9. CallFacts'
  <2> SUFFICES ASSUME NEW d \in Calls
               PROVE  /\ calls'[d].pc = "mark" => jobs'[calls'[d].job].status = "pending"
                      /\ calls'[d].pc \in {"rollup", "respond"} => jobs'[calls'[d].job].status = "running"
                      /\ calls'[d].pc \in Reporting =>
                           /\ exec'[calls'[d].job] # "none"
                           /\ calls'[d].state \in {"running", exec'[calls'[d].job]}
    BY DEF CallFacts
  <2>1. CASE calls'[d].pc \in Claiming
    <3>1. calls[d].pc = calls'[d].pc /\ calls[d].job = calls'[d].job /\ calls[d].job # j
      BY <2>1, <1>2, <1>4 DEF Claiming
    <3>2. calls[d].job \in DOMAIN jobs
      BY <2>1, <3>1 DEF IInv, TypeOK, Claiming
    <3> QED BY <2>1, <3>1, <3>2, <1>3 DEF IInv, CallFacts, Claiming, Reporting
  <2>2. CASE calls'[d].pc \in Reporting
    <3>1. calls[d].pc \in Reporting
      BY <2>2, <1>1, <1>4 DEF Reporting
    <3> QED BY <2>2, <3>1, <1>1, <1>4 DEF IInv, CallFacts, Reporting
  <2> QED BY <2>1, <2>2 DEF Claiming
<1>10. StageFacts'
  BY <1>1, <1>2, <1>3 DEF IInv, StageFacts
<1> QED BY <1>6, <1>7, <1>8, <1>9, <1>10 DEF IInv

-----------------------------------------------------------------------------
\* enqueueStageLocked keeps the invariant whenever the pipeline record it is
\* given points past every stage that has a released job, and all jobs of
\* those stages have a verdict.  Both callers establish that: a new pipeline
\* has no released job, and onJobTerminal steps past a complete stage.
LEMMA EnqueueInv ==
  ASSUME IInv, NEW N \in Nat, NEW p \in 1..N, NEW pl, NEW js,
         nextID' = N + 1,
         runners' \in [Runners -> {"new", "registered", "gone"}],
         DOMAIN pipelines \subseteq 1..N, DOMAIN js \subseteq 1..N,
         PipelineRec(pl),
         \A j \in DOMAIN js : js[j] \in JobRec(DOMAIN pipelines \cup {p}),
         DOMAIN jobs \subseteq DOMAIN js,
         \A j \in DOMAIN jobs : js[j] = jobs[j],
         exec' \in [DOMAIN js -> {"none", "executing"} \cup Done],
         \A j \in DOMAIN jobs : exec'[j] = exec[j],
         \A j \in DOMAIN js \ DOMAIN jobs : /\ exec'[j] = "none"
                                           /\ js[j].status = "created" /\ js[j].pipeline = p,
         calls' \in [Calls -> CallRec(DOMAIN js)],
         \A d \in Calls : calls'[d] = calls[d] \/ calls'[d].pc = "idle",
         \A j \in DOMAIN js : js[j].pipeline = p =>
           /\ \A k \in 1..Len(pl.stages) :
                pl.stages[k] = js[j].stage /\ k < pl.stageIdx => exec'[j] \in Done
           /\ js[j].status # "created" =>
                \E k \in 1..Len(pl.stages) : pl.stages[k] = js[j].stage /\ k < pl.stageIdx,
         EnqueueStage(p, pl, js)
  PROVE  IInv'
<1> DEFINE D == DOMAIN pipelines \cup {p}
<1>1. queue \in Seq(DOMAIN jobs) /\ queue \in Seq(DOMAIN js)
  BY SeqMonotonic DEF IInv, TypeOK
<1>2. PICK i \in pl.stageIdx..(Len(pl.stages) + 1), batch \in SUBSET DOMAIN js :
           /\ i <= Len(pl.stages) => batch = Created(p, pl.stages[i], js)
           /\ i = Len(pl.stages) + 1 => batch = {}
           /\ \A k \in pl.stageIdx..(i - 1) : Created(p, pl.stages[k], js) = {}
           /\ jobs' = [j \in DOMAIN js |->
                         IF j \in batch THEN [js[j] EXCEPT !.status = "pending"] ELSE js[j]]
           /\ pipelines' = Put(pipelines, p,
                [pl EXCEPT !.stageIdx = i, !.status = RolledUp(@, i <= Len(pl.stages))])
           /\ queue' \in Seq(DOMAIN js)
           /\ Range(queue') = Queued \cup batch
           /\ IsInjective(queue) /\ Queued \cap batch = {} => IsInjective(queue')
  BY <1>1, EnqueueEffect, ZenonT(100)
<1>3. /\ pl.stageIdx \in Nat \ {0} /\ Len(pl.stages) \in Nat /\ Len(pl.stages) > 0
      /\ i \in Nat \ {0} /\ pl.stageIdx <= i /\ i <= Len(pl.stages) + 1
      /\ pl.stages \in Seq(STRING)
  BY DEF PipelineRec
<1>4. /\ DOMAIN pipelines' = D
      /\ \A q \in D \ {p} : pipelines'[q] = pipelines[q]
      /\ pipelines'[p] = [pl EXCEPT !.stageIdx = i, !.status = RolledUp(@, i <= Len(pl.stages))]
  BY <1>2 DEF Put
<1>5. /\ pipelines'[p] \in [project: Projects, stages: Seq(STRING), stageIdx: Nat \ {0},
                            status: {"running", "success", "failed"}]
      /\ pipelines'[p].stages = pl.stages
      /\ pipelines'[p].stageIdx = i
      /\ pipelines'[p].status = "success" => i = Len(pl.stages) + 1
  <2> DEFINE st == RolledUp(pl.status, i <= Len(pl.stages))
  <2>1. st \in {"running", "success", "failed"} /\ (st = "success" => ~(i <= Len(pl.stages)))
    BY DEF PipelineRec, RolledUp, Done
  <2>2. pl \in [project: Projects, stages: Seq(STRING), stageIdx: Nat \ {0},
               status: {"pending", "running"} \cup Done]
    BY DEF PipelineRec
  <2>3. pipelines'[p] = [pl EXCEPT !.stageIdx = i, !.status = st]
    BY <1>4
  <2> HIDE DEF st
  <2>4. /\ pipelines'[p].stages = pl.stages /\ pipelines'[p].stageIdx = i /\ pipelines'[p].status = st
        /\ pipelines'[p] \in [project: Projects, stages: Seq(STRING), stageIdx: Nat \ {0},
                              status: {"running", "success", "failed"}]
    BY <2>1, <2>2, <2>3, <1>3
  <2> QED BY <2>1, <2>4, <1>3
<1>6. \A j \in DOMAIN js :
        /\ jobs'[j] \in JobRec(D)
        /\ jobs'[j].pipeline = js[j].pipeline /\ jobs'[j].stage = js[j].stage
        /\ jobs'[j].status = IF j \in batch THEN "pending" ELSE js[j].status
  <2> SUFFICES ASSUME NEW j \in DOMAIN js
               PROVE  /\ jobs'[j] \in JobRec(D)
                      /\ jobs'[j].pipeline = js[j].pipeline /\ jobs'[j].stage = js[j].stage
                      /\ jobs'[j].status = IF j \in batch THEN "pending" ELSE js[j].status
    OBVIOUS
  <2>1. jobs'[j] = IF j \in batch THEN [js[j] EXCEPT !.status = "pending"] ELSE js[j]
    BY <1>2, Zenon
  <2>2. js[j] \in [pipeline: D, stage: STRING, status: {"created", "pending", "running"} \cup Done]
    BY DEF JobRec
  <2> QED BY ONLY <2>1, <2>2 DEF JobRec
<1>7. DOMAIN jobs' = DOMAIN js
  BY <1>2
<1>8. \A j \in batch : /\ js[j].status = "created" /\ js[j].pipeline = p
                       /\ i \in 1..Len(pl.stages) /\ pl.stages[i] = js[j].stage
  <2>1. CASE i <= Len(pl.stages)
    <3>1. batch = Created(p, pl.stages[i], js) /\ i \in 1..Len(pl.stages)
      BY <2>1, <1>2, <1>3
    <3> SUFFICES ASSUME NEW j \in Created(p, pl.stages[i], js)
                 PROVE  js[j].status = "created" /\ js[j].pipeline = p /\ pl.stages[i] = js[j].stage
      BY <3>1, Zenon
    <3> QED BY DEF Created
  <2>2. CASE i = Len(pl.stages) + 1
    BY <2>2, <1>2
  <2>3. i <= Len(pl.stages) \/ i = Len(pl.stages) + 1
    BY <1>3
  <2> QED BY ONLY <2>1, <2>2, <2>3, Zenon
<1>9. Queued \subseteq DOMAIN jobs /\ Queued \cap batch = {}
  <2>1. Queued \subseteq DOMAIN jobs
    BY <1>1 DEF Queued, Range
  <2>2. \A j \in Queued : js[j].status = "pending"
    BY <2>1 DEF IInv, JobFacts
  <2> QED BY <2>1, <2>2, <1>8
<1>10. \A j \in batch : exec'[j] = "none"
  <2> SUFFICES ASSUME NEW j \in batch, j \in DOMAIN jobs PROVE exec'[j] = "none"
    BY <1>2
  <2> QED BY <1>8 DEF IInv, JobFacts
<1>11. \A d \in Calls : calls'[d].pc # "idle" =>
         /\ calls'[d] = calls[d] /\ calls[d].job \in DOMAIN jobs /\ calls[d].job \in DOMAIN js
         /\ calls[d].job \notin batch
  <2> SUFFICES ASSUME NEW d \in Calls, calls'[d].pc # "idle"
               PROVE  /\ calls'[d] = calls[d] /\ calls[d].job \in DOMAIN jobs
                      /\ calls[d].job \in DOMAIN js /\ calls[d].job \notin batch
    OBVIOUS
  <2>1. calls'[d] = calls[d] /\ calls[d].job \in DOMAIN jobs /\ calls[d].job \in DOMAIN js
    BY DEF IInv, TypeOK
  <2>2. calls[d].pc \in Claiming \/ calls[d].pc \in Reporting
    BY <2>1 DEF IInv, TypeOK
  <2>3. jobs[calls[d].job].status # "created"
    BY <2>1, <2>2 DEF IInv, CallFacts, JobFacts, Claiming
  <2> QED BY <2>1, <2>3, <1>8
<1>12. TypeOK'
  <2>1. DOMAIN pipelines' \subseteq 1..(nextID' - 1) /\ DOMAIN jobs' \subseteq 1..(nextID' - 1)
        /\ nextID' \in Nat \ {0}
    BY <1>4, <1>7
  <2>2. \A q \in DOMAIN pipelines' :
       /\ pipelines'[q] \in [project: Projects, stages: Seq(STRING), stageIdx: Nat \ {0},
                            status: {"running", "success", "failed"}]
       /\ pipelines'[q].stages # << >>
       /\ pipelines'[q].stageIdx <= Len(pipelines'[q].stages) + 1
    <3> TAKE q \in DOMAIN pipelines'
    <3>1. CASE q = p
      BY <3>1, <1>3, <1>5
    <3>2. CASE q # p
      BY <3>2, <1>4 DEF IInv, TypeOK
    <3> QED BY <3>1, <3>2
  <2>3. \A j \in DOMAIN jobs' :
       jobs'[j] \in [pipeline: DOMAIN pipelines', stage: STRING,
                    status: {"created", "pending", "running"} \cup Done]
    BY <1>4, <1>6, <1>7 DEF JobRec
  <2>4. queue' \in Seq(DOMAIN jobs')
    BY <1>2, <1>7
  <2>5. /\ calls' \in [Calls -> [pc: {"idle"} \cup Claiming \cup Reporting,
                          job: DOMAIN jobs' \cup {0}, state: {"running"} \cup Done]]
        /\ \A c \in Calls : calls'[c].pc # "idle" => calls'[c].job \in DOMAIN jobs'
    BY <1>7, <1>11 DEF CallRec
  <2>6. exec' \in [DOMAIN jobs' -> {"none", "executing"} \cup Done]
    BY <1>7
  <2> QED BY <2>1, <2>2, <2>3, <2>4, <2>5, <2>6 DEF TypeOK
<1>13. OneHolder'
  <2>1. IsInjective(queue') /\ Queued' = Queued \cup batch
    BY <1>2, <1>9 DEF IInv, OneHolder, Queued
  <2>2. ASSUME NEW c \in Calls, calls'[c].pc \in Claiming
        PROVE  /\ calls'[c].job \notin Queued'
               /\ exec'[calls'[c].job] = "none"
               /\ \A d \in Calls \ {c} : calls'[d].pc \in Claiming => calls'[d].job # calls'[c].job
    <3>1. calls'[c] = calls[c] /\ calls[c].job \in DOMAIN jobs /\ calls[c].job \notin batch
      BY <2>2, <1>11 DEF Claiming
    <3>2. \A d \in Calls : calls'[d].pc \in Claiming => calls'[d] = calls[d]
      BY <1>11 DEF Claiming
    <3> QED BY <2>1, <2>2, <3>1, <3>2 DEF IInv, OneHolder
  <2>3. \A j \in Queued' : exec'[j] = "none"
    BY <2>1, <1>9, <1>10 DEF IInv, OneHolder
  <2> QED BY <2>1, <2>2, <2>3 DEF OneHolder
<1>14. JobFacts'
  <2> SUFFICES ASSUME NEW j \in DOMAIN js
               PROVE  /\ jobs'[j].status \in {"created", "pending"} => exec'[j] = "none"
                      /\ jobs'[j].status \in Done => exec'[j] = jobs'[j].status
                      /\ j \in Queued' => jobs'[j].status = "pending"
    BY <1>7 DEF JobFacts
  <2>1. Queued' = Queued \cup batch
    BY <1>2 DEF Queued
  <2>2. CASE j \in batch
    BY <2>2, <1>6, <1>10 DEF Done
  <2>3. CASE j \notin batch /\ j \in DOMAIN jobs
    BY <2>1, <2>3, <1>6 DEF IInv, JobFacts
  <2>4. CASE j \notin DOMAIN jobs
    BY <2>1, <2>4, <1>6, <1>9, <1>10 DEF Done
  <2> QED BY <2>2, <2>3, <2>4
<1>15. CallFacts'
  <2> SUFFICES ASSUME NEW c \in Calls, calls'[c].pc # "idle"
               PROVE  /\ calls'[c].pc = "mark" => jobs'[calls'[c].job].status = "pending"
                      /\ calls'[c].pc \in {"rollup", "respond"} => jobs'[calls'[c].job].status = "running"
                      /\ calls'[c].pc \in Reporting =>
                           /\ exec'[calls'[c].job] # "none"
                           /\ calls'[c].state \in {"running", exec'[calls'[c].job]}
    BY DEF CallFacts, Reporting
  <2>1. /\ calls'[c] = calls[c]
        /\ jobs'[calls[c].job].status = jobs[calls[c].job].status
        /\ exec'[calls[c].job] = exec[calls[c].job]
    BY <1>6, <1>11
  <2> QED BY <2>1 DEF IInv, CallFacts
<1>16. StageFacts'
  <2>1. ASSUME NEW j \in DOMAIN jobs',
               NEW k \in 1..Len(pipelines'[jobs'[j].pipeline].stages),
               pipelines'[jobs'[j].pipeline].stages[k] = jobs'[j].stage,
               k < pipelines'[jobs'[j].pipeline].stageIdx
        PROVE  exec'[j] \in Done
    <3>1. j \in DOMAIN js /\ jobs'[j].pipeline = js[j].pipeline /\ jobs'[j].stage = js[j].stage
          /\ js[j].pipeline \in D
      BY <1>6, <1>7 DEF JobRec
    <3>2. CASE js[j].pipeline = p
      <4>1. k \in 1..Len(pl.stages) /\ pl.stages[k] = js[j].stage /\ k < i
        BY <2>1, <3>1, <3>2, <1>5
      <4>2. CASE k < pl.stageIdx
        BY <3>1, <3>2, <4>1, <4>2
      <4>3. CASE ~(k < pl.stageIdx)
        <5>1. k \in pl.stageIdx..(i - 1)
          BY <4>1, <4>3, <1>3
        <5>2. js[j].status # "created"
          BY <5>1, <4>1, <3>1, <3>2, <1>2 DEF Created
        <5> QED BY <5>2, <3>1, <3>2
      <4> QED BY <4>2, <4>3
    <3>3. CASE js[j].pipeline # p
      <4>1. j \in DOMAIN jobs /\ js[j] = jobs[j]
        BY <3>1, <3>3
      <4>2. pipelines'[js[j].pipeline] = pipelines[js[j].pipeline]
        BY <3>1, <3>3, <1>4
      <4> QED BY <2>1, <3>1, <4>1, <4>2 DEF IInv, StageFacts
    <3> QED BY <3>2, <3>3
  <2>2. ASSUME NEW j \in DOMAIN jobs', jobs'[j].status # "created"
        PROVE  \E k \in 1..Len(pipelines'[jobs'[j].pipeline].stages) :
                 /\ pipelines'[jobs'[j].pipeline].stages[k] = jobs'[j].stage
                 /\ k <= pipelines'[jobs'[j].pipeline].stageIdx
    <3>1. j \in DOMAIN js /\ jobs'[j].pipeline = js[j].pipeline /\ jobs'[j].stage = js[j].stage
          /\ js[j].pipeline \in D
      BY <1>6, <1>7 DEF JobRec
    <3>2. CASE j \in batch
      <4>1. js[j].pipeline = p /\ i \in 1..Len(pl.stages) /\ pl.stages[i] = js[j].stage
        BY <3>2, <1>8
      <4>2. /\ jobs'[j].pipeline = p /\ jobs'[j].stage = js[j].stage
            /\ pipelines'[p].stages = pl.stages /\ pipelines'[p].stageIdx = i
        BY <3>1, <4>1, <1>5
      <4>3. i <= i
        BY <1>3
      <4> QED BY <4>1, <4>2, <4>3, ZenonT(100)
    <3>3. CASE j \notin batch /\ js[j].pipeline = p
      <4>1. PICK k \in 1..Len(pl.stages) : pl.stages[k] = js[j].stage /\ k < pl.stageIdx
        BY <2>2, <3>1, <3>3, <1>6
      <4>2. /\ jobs'[j].pipeline = p /\ jobs'[j].stage = js[j].stage
            /\ pipelines'[p].stages = pl.stages /\ pipelines'[p].stageIdx = i
        BY <3>1, <3>3, <1>5
      <4>3. k <= i
        BY <4>1, <1>3
      <4> QED BY <4>1, <4>2, <4>3, Zenon
    <3>4. CASE j \notin batch /\ js[j].pipeline # p
      <4>1. j \in DOMAIN jobs /\ js[j] = jobs[j] /\ jobs'[j].status = jobs[j].status
        BY <3>1, <3>4, <1>6
      <4>2. pipelines'[js[j].pipeline] = pipelines[js[j].pipeline]
        BY <3>1, <3>4, <1>4
      <4> QED BY <2>2, <3>1, <4>1, <4>2, SMTT(60) DEF IInv, StageFacts
    <3> QED BY <3>2, <3>3, <3>4
  <2>3. ASSUME NEW q \in DOMAIN pipelines', pipelines'[q].status = "success"
        PROVE  pipelines'[q].stageIdx = Len(pipelines'[q].stages) + 1
    <3>1. CASE q = p
      BY <2>3, <3>1, <1>3, <1>5
    <3>2. CASE q # p
      BY <2>3, <3>2, <1>4 DEF IInv, StageFacts
    <3> QED BY <3>1, <3>2
  <2> QED BY <2>1, <2>2, <2>3 DEF StageFacts
<1> QED BY <1>12, <1>13, <1>14, <1>15, <1>16 DEF IInv

\* Going on to the next stage keeps the record of the pipeline well formed.
LEMMA AdvancedRec ==
  ASSUME NEW pl, pl \in [project: Projects, stages: Seq(STRING), stageIdx: Nat \ {0},
                         status: {"running", "success", "failed"}],
         pl.stages # << >> /\ pl.stageIdx <= Len(pl.stages) + 1 /\ Len(pl.stages) \in Nat
  PROVE  /\ PipelineRec(Advanced(pl)) /\ Advanced(pl).stages = pl.stages
         /\ Advanced(pl).stageIdx =
              IF pl.stageIdx <= Len(pl.stages) THEN pl.stageIdx + 1 ELSE pl.stageIdx
<1> DEFINE ad  == Advanced(pl)
           idx == IF pl.stageIdx <= Len(pl.stages) THEN pl.stageIdx + 1 ELSE pl.stageIdx
<1>1. idx \in Nat \ {0} /\ idx <= Len(pl.stages) + 1
  OBVIOUS
<1>2. ad = [pl EXCEPT !.stageIdx = idx]
  BY DEF Advanced
<1> HIDE DEF idx, ad
<1>3. ad.stages = pl.stages /\ ad.stageIdx = idx
  BY <1>2
<1>4. ad \in [project: Projects, stages: Seq(STRING), stageIdx: Nat \ {0},
              status: {"running", "success", "failed"}]
  BY <1>1, <1>2
<1>5. PipelineRec(ad)
  BY <1>1, <1>3, <1>4 DEF PipelineRec, Done
<1> QED BY <1>3, <1>5 DEF idx, ad

\* Going on from a complete stage: all jobs before the next one have verdicts,
\* and none after it has been released.
LEMMA AdvancedFacts ==
  ASSUME IInv, NEW p \in DOMAIN pipelines, StageComplete(p)
  PROVE  LET ad == Advanced(pipelines[p])
         IN \A i \in DOMAIN jobs : jobs[i].pipeline = p =>
              /\ \A k \in 1..Len(ad.stages) :
                   ad.stages[k] = jobs[i].stage /\ k < ad.stageIdx => exec[i] \in Done
              /\ jobs[i].status # "created" =>
                   \E k \in 1..Len(ad.stages) : ad.stages[k] = jobs[i].stage /\ k < ad.stageIdx
<1> DEFINE pl == pipelines[p]
           ad == Advanced(pl)
<1>1. /\ pl \in [project: Projects, stages: Seq(STRING), stageIdx: Nat \ {0},
                 status: {"running", "success", "failed"}]
      /\ pl.stages # << >> /\ pl.stageIdx <= Len(pl.stages) + 1 /\ Len(pl.stages) \in Nat
  BY DEF IInv, TypeOK
<1>2. \A i \in DOMAIN jobs : jobs[i].pipeline = p =>
        /\ \A k \in 1..Len(pl.stages) :
             pl.stages[k] = jobs[i].stage /\ k < pl.stageIdx => exec[i] \in Done
        /\ jobs[i].status # "created" =>
             \E k \in 1..Len(pl.stages) : pl.stages[k] = jobs[i].stage /\ k <= pl.stageIdx
  BY DEF IInv, StageFacts
<1>3. \A i \in DOMAIN jobs : jobs[i].pipeline = p /\ pl.stageIdx <= Len(pl.stages)
        /\ jobs[i].stage = pl.stages[pl.stageIdx] => jobs[i].status \in Done
  BY DEF StageComplete, JobIDs
<1>4. \A i \in DOMAIN jobs : jobs[i].status \in Done => exec[i] \in Done
  BY DEF IInv, JobFacts
<1> HIDE DEF pl
<1>5. /\ ad.stages = pl.stages
      /\ ad.stageIdx = IF pl.stageIdx <= Len(pl.stages) THEN pl.stageIdx + 1 ELSE pl.stageIdx
  BY ONLY <1>1, AdvancedRec DEF ad
<1> HIDE DEF ad
<1>6. ASSUME NEW i \in DOMAIN jobs, jobs[i].pipeline = p,
             NEW k \in 1..Len(pl.stages), pl.stages[k] = jobs[i].stage, k < ad.stageIdx
      PROVE  exec[i] \in Done
  <2>1. CASE k < pl.stageIdx
    BY ONLY <2>1, <1>6, <1>2
  <2>2. CASE ~(k < pl.stageIdx)
    <3>1. k = pl.stageIdx /\ pl.stageIdx <= Len(pl.stages)
      BY ONLY <1>1, <1>5, <1>6, <2>2
    <3> QED BY ONLY <3>1, <1>6, <1>3, <1>4
  <2> QED BY <2>1, <2>2
<1>7. ASSUME NEW i \in DOMAIN jobs, jobs[i].pipeline = p, jobs[i].status # "created"
      PROVE  \E k \in 1..Len(pl.stages) : pl.stages[k] = jobs[i].stage /\ k < ad.stageIdx
  <2>1. PICK k \in 1..Len(pl.stages) : pl.stages[k] = jobs[i].stage /\ k <= pl.stageIdx
    BY ONLY <1>2, <1>7
  <2>2. k < ad.stageIdx
    BY ONLY <1>1, <1>5, <2>1
  <2> QED BY <2>1, <2>2
<1>8. \A i \in DOMAIN jobs : jobs[i].pipeline = p =>
        /\ \A k \in 1..Len(ad.stages) :
             ad.stages[k] = jobs[i].stage /\ k < ad.stageIdx => exec[i] \in Done
        /\ jobs[i].status # "created" =>
             \E k \in 1..Len(ad.stages) : ad.stages[k] = jobs[i].stage /\ k < ad.stageIdx
  BY ONLY <1>5, <1>6, <1>7
<1> QED BY <1>8 DEF ad, pl

\* The last critical section of a report: nothing, a failed pipeline, or the
\* next stage.
LEMMA UpdateTerminalInv ==
  ASSUME IInv, NEW c \in Calls, UpdateTerminal(c)
  PROVE  IInv'
<1> DEFINE j == calls[c].job
           p == jobs[j].pipeline
           pl == pipelines[p]
<1>1. /\ calls[c].pc = "terminal" /\ calls' = [calls EXCEPT ![c] = Idle]
      /\ OnJobTerminal(j, calls[c].state)
      /\ UNCHANGED <<nextID, runners, exec>>
  BY DEF UpdateTerminal
<1>2. /\ calls' \in [Calls -> CallRec(DOMAIN jobs)]
      /\ calls'[c].pc = "idle"
      /\ \A d \in Calls \ {c} : calls'[d] = calls[d]
  BY <1>1 DEF IInv, TypeOK, CallRec, Idle
<1>3. /\ j \in DOMAIN jobs /\ p \in DOMAIN pipelines
      /\ jobs[j] \in JobRec(DOMAIN pipelines)
  BY <1>1 DEF IInv, TypeOK, JobRec
<1>4. CASE UNCHANGED <<pipelines, jobs, queue>>
  <2>1. TypeOK'
    BY <1>1, <1>2, <1>4 DEF IInv, TypeOK, CallRec
  <2>2. OneHolder'
    BY <1>1, <1>2, <1>4 DEF IInv, OneHolder, Queued, Claiming
  <2>3. JobFacts' /\ StageFacts'
    BY <1>1, <1>4 DEF IInv, JobFacts, StageFacts, Queued
  <2>4. CallFacts'
    BY <1>1, <1>2, <1>4 DEF IInv, CallFacts, Reporting
  <2> QED BY <2>1, <2>2, <2>3, <2>4 DEF IInv
<1>5. CASE /\ pipelines' = [pipelines EXCEPT ![p].status = "failed"]
           /\ UNCHANGED <<jobs, queue>>
  <2>1. /\ DOMAIN pipelines' = DOMAIN pipelines
        /\ \A q \in DOMAIN pipelines : q # p => pipelines'[q] = pipelines[q]
        /\ pipelines'[p] = [pl EXCEPT !.status = "failed"]
    BY <1>3, <1>5
  <2>2. pl \in [project: Projects, stages: Seq(STRING), stageIdx: Nat \ {0},
                status: {"running", "success", "failed"}]
    BY <1>3 DEF IInv, TypeOK
  <2>3. /\ pipelines'[p].stages = pl.stages /\ pipelines'[p].stageIdx = pl.stageIdx
        /\ pipelines'[p].status = "failed"
        /\ pipelines'[p] \in [project: Projects, stages: Seq(STRING), stageIdx: Nat \ {0},
                              status: {"running", "success", "failed"}]
    BY <2>1, <2>2
  <2> HIDE DEF pl, p, j
  <2>4. \A q \in DOMAIN pipelines : /\ pipelines'[q].stages = pipelines[q].stages
                                   /\ pipelines'[q].stageIdx = pipelines[q].stageIdx
                                   /\ pipelines'[q].status \in {pipelines[q].status, "failed"}
    <3> TAKE q \in DOMAIN pipelines
    <3>1. CASE q = p
      BY <3>1, <2>3 DEF pl
    <3>2. CASE q # p
      BY <3>2, <2>1
    <3> QED BY <3>1, <3>2
  <2>5. TypeOK'
    <3>1. \A q \in DOMAIN pipelines' :
            /\ pipelines'[q] \in [project: Projects, stages: Seq(STRING), stageIdx: Nat \ {0},
                                 status: {"running", "success", "failed"}]
            /\ pipelines'[q].stages # << >>
            /\ pipelines'[q].stageIdx <= Len(pipelines'[q].stages) + 1
      <4> TAKE q \in DOMAIN pipelines'
      <4>1. CASE q = p
        BY <4>1, <2>1, <2>3 DEF IInv, TypeOK, pl
      <4>2. CASE q # p
        BY <4>2, <2>1 DEF IInv, TypeOK
      <4> QED BY <4>1, <4>2
    <3>2. /\ DOMAIN pipelines' = DOMAIN pipelines
          /\ UNCHANGED <<nextID, runners, jobs, queue, exec>>
      BY <1>1, <1>5, <2>1
    <3>3. /\ calls' \in [Calls -> [pc: {"idle"} \cup Claiming \cup Reporting,
                                  job: DOMAIN jobs \cup {0}, state: {"running"} \cup Done]]
          /\ \A d \in Calls : calls'[d].pc # "idle" => calls'[d].job \in DOMAIN jobs
      BY <1>2 DEF CallRec, IInv, TypeOK
    <3> QED BY <3>1, <3>2, <3>3 DEF IInv, TypeOK
  <2>6. OneHolder'
    BY <1>1, <1>2, <1>5 DEF IInv, OneHolder, Queued, Claiming
  <2>7. JobFacts'
    BY <1>1, <1>5 DEF IInv, JobFacts, Queued
  <2>8. CallFacts'
    BY <1>1, <1>2, <1>5 DEF IInv, CallFacts, Reporting
  <2>9. StageFacts'
    <3>1. \A i \in DOMAIN jobs : jobs[i].pipeline \in DOMAIN pipelines
      BY DEF IInv, TypeOK
    <3>2. \A i \in DOMAIN jobs :
            /\ pipelines'[jobs[i].pipeline].stages = pipelines[jobs[i].pipeline].stages
            /\ pipelines'[jobs[i].pipeline].stageIdx = pipelines[jobs[i].pipeline].stageIdx
      BY <3>1, <2>4
    <3>3. jobs' = jobs /\ exec' = exec
      BY <1>1, <1>5
    <3> QED BY <3>2, <3>3, <2>1, <2>4 DEF IInv, StageFacts
  <2> QED BY <2>5, <2>6, <2>7, <2>8, <2>9 DEF IInv
<1>6. CASE StageComplete(p) /\ EnqueueStage(p, Advanced(pl), jobs)
  <2> DEFINE ad == Advanced(pl)
  <2>1. /\ pl \in [project: Projects, stages: Seq(STRING), stageIdx: Nat \ {0},
                   status: {"running", "success", "failed"}]
        /\ pl.stages # << >> /\ pl.stageIdx <= Len(pl.stages) + 1 /\ Len(pl.stages) \in Nat
    BY <1>3 DEF IInv, TypeOK
  <2>2. /\ PipelineRec(ad) /\ ad.stages = pl.stages
        /\ ad.stageIdx = IF pl.stageIdx <= Len(pl.stages) THEN pl.stageIdx + 1 ELSE pl.stageIdx
    <3> HIDE DEF pl
    <3> QED BY ONLY <2>1, AdvancedRec DEF ad
  <2>3. \A i \in DOMAIN jobs : jobs[i].pipeline = p =>
           /\ \A k \in 1..Len(ad.stages) :
                ad.stages[k] = jobs[i].stage /\ k < ad.stageIdx => exec[i] \in Done
           /\ jobs[i].status # "created" =>
                \E k \in 1..Len(ad.stages) : ad.stages[k] = jobs[i].stage /\ k < ad.stageIdx
    <3>1. p \in DOMAIN pipelines /\ StageComplete(p)
      BY <1>3, <1>6
    <3> HIDE DEF p
    <3> QED BY <3>1, AdvancedFacts
  <2> DEFINE N == nextID - 1
  <2>4. /\ N \in Nat /\ nextID' = N + 1 /\ p \in 1..N
        /\ runners' \in [Runners -> {"new", "registered", "gone"}]
        /\ DOMAIN pipelines \subseteq 1..N /\ DOMAIN jobs \subseteq 1..N
        /\ exec' = exec /\ exec \in [DOMAIN jobs -> {"none", "executing"} \cup Done]
    BY <1>1, <1>3 DEF IInv, TypeOK
  <2>5. /\ \A i \in DOMAIN jobs : jobs[i] \in JobRec(DOMAIN pipelines \cup {p})
        /\ DOMAIN pipelines \cup {p} = DOMAIN pipelines
    <3>1. DOMAIN pipelines \cup {p} = DOMAIN pipelines
      BY <1>3
    <3> HIDE DEF p
    <3> QED BY <3>1 DEF IInv, TypeOK, JobRec
  <2>6. \A d \in Calls : calls'[d] = calls[d] \/ calls'[d].pc = "idle"
    BY <1>2
  <2>7. EnqueueStage(p, ad, jobs)
    BY <1>6
  <2> HIDE DEF ad, N, p, pl, j
  <2> QED BY <1>2, <2>2, <2>3, <2>4, <2>5, <2>6, <2>7, EnqueueInv
<1> QED BY <1>1, <1>4, <1>5, <1>6 DEF OnJobTerminal

\* A new pipeline: all its ids are fresh and none of its jobs is released.
LEMMA CreatePipelineInv ==
  ASSUME IInv, NEW prj \in Projects, NEW cfg \in Configs, CreatePipeline(prj, cfg)
  PROVE  IInv'
<1> DEFINE p   == nextID
           n   == Len(cfg.jobs)
           ids == (p + 1)..(p + n)
           pl  == [project |-> prj, stages |-> cfg.stages, stageIdx |-> 1, status |-> "pending"]
           js  == [j \in DOMAIN jobs \cup ids |->
                     IF j \in ids
                     THEN [pipeline |-> p, stage |-> cfg.jobs[j - p], status |-> "created"]
                     ELSE jobs[j]]
           N   == p + n
<1>1. /\ nextID' = N + 1
      /\ EnqueueStage(p, pl, js)
      /\ exec' = [j \in DOMAIN js |-> IF j \in ids THEN "none" ELSE exec[j]]
      /\ UNCHANGED <<runners, calls>>
  BY DEF CreatePipeline
<1>2. /\ cfg.stages \in Seq(STRING) /\ cfg.stages # << >>
      /\ cfg.jobs \in Seq(STRING) /\ n \in Nat /\ Len(cfg.stages) \in Nat
      /\ \A k \in 1..n : cfg.jobs[k] \in STRING
  BY ConfigsAssumption
<1>3. /\ p \in Nat \ {0} /\ N \in Nat /\ p \in 1..N
      /\ DOMAIN pipelines \subseteq 1..(p - 1) /\ DOMAIN jobs \subseteq 1..(p - 1)
  BY <1>2 DEF IInv, TypeOK
<1>4. /\ DOMAIN pipelines \subseteq 1..N /\ DOMAIN jobs \subseteq 1..N
      /\ ids \subseteq 1..N /\ ids \cap DOMAIN jobs = {} /\ p \notin DOMAIN pipelines
  BY <1>2, <1>3
<1>5. DOMAIN js = DOMAIN jobs \cup ids
  OBVIOUS
<1>6. \A j \in DOMAIN jobs : js[j] = jobs[j] /\ jobs[j] \in JobRec(DOMAIN pipelines)
  BY <1>4 DEF IInv, TypeOK, JobRec
<1>7. \A j \in ids : /\ js[j] = [pipeline |-> p, stage |-> cfg.jobs[j - p], status |-> "created"]
                     /\ cfg.jobs[j - p] \in STRING
  <2> TAKE j \in ids
  <2>1. j - p \in 1..n
    BY <1>2, <1>3
  <2> QED BY <2>1, <1>2
<1>8. \A j \in DOMAIN js : js[j] \in JobRec(DOMAIN pipelines \cup {p})
  <2>1. \A j \in DOMAIN jobs : js[j] \in JobRec(DOMAIN pipelines \cup {p})
    BY <1>6 DEF JobRec
  <2>2. \A j \in ids : js[j] \in JobRec(DOMAIN pipelines \cup {p})
    BY <1>7 DEF JobRec
  <2> QED BY <1>5, <2>1, <2>2
<1>9. PipelineRec(pl) /\ pl.stages = cfg.stages /\ pl.stageIdx = 1
  BY <1>2 DEF PipelineRec
<1>10. /\ exec' \in [DOMAIN js -> {"none", "executing"} \cup Done]
       /\ \A j \in DOMAIN jobs : exec'[j] = exec[j]
       /\ \A j \in ids : exec'[j] = "none"
  BY <1>1, <1>4, <1>5 DEF IInv, TypeOK
<1>11. \A j \in DOMAIN js \ DOMAIN jobs : /\ exec'[j] = "none"
                                         /\ js[j].status = "created" /\ js[j].pipeline = p
  BY <1>5, <1>7, <1>10
<1>12. /\ calls' \in [Calls -> CallRec(DOMAIN js)]
       /\ \A d \in Calls : calls'[d] = calls[d]
  BY <1>1, <1>5 DEF IInv, TypeOK, CallRec
<1>13. \A j \in DOMAIN js : js[j].pipeline = p =>
           /\ \A k \in 1..Len(pl.stages) :
                pl.stages[k] = js[j].stage /\ k < pl.stageIdx => exec'[j] \in Done
           /\ js[j].status # "created" =>
                \E k \in 1..Len(pl.stages) : pl.stages[k] = js[j].stage /\ k < pl.stageIdx
  <2> SUFFICES ASSUME NEW j \in DOMAIN js, js[j].pipeline = p
               PROVE  /\ \A k \in 1..Len(pl.stages) : ~(k < pl.stageIdx)
                      /\ js[j].status = "created"
    OBVIOUS
  <2>1. j \notin DOMAIN jobs
    BY <1>4, <1>6 DEF JobRec
  <2> QED BY <2>1, <1>2, <1>9, <1>11
<1>14. runners' \in [Runners -> {"new", "registered", "gone"}]
  BY <1>1 DEF IInv, TypeOK
<1> HIDE DEF p, n, ids, pl, js, N
<1> QED BY <1>1, <1>3, <1>4, <1>5, <1>6, <1>8, <1>9, <1>10, <1>11, <1>12, <1>13, <1>14, EnqueueInv, ZenonT(100)

LEMMA NextInv == IInv /\ [Next]_vars => IInv'
<1> SUFFICES ASSUME IInv, [Next]_vars PROVE IInv'
  OBVIOUS
<1>1. ASSUME NEW r \in Runners, Register(r) \/ Unregister(r) PROVE IInv'
  BY <1>1, RunnerInv
<1>2. ASSUME NEW prj \in Projects, NEW cfg \in Configs, CreatePipeline(prj, cfg) PROVE IInv'
  BY <1>2, CreatePipelineInv
<1>3. ASSUME NEW c \in Calls, NEW r \in Runners, ClaimDequeue(c, r) PROVE IInv'
  BY <1>3, ClaimDequeueInv
<1>4. ASSUME NEW c \in Calls, ClaimMark(c) PROVE IInv'
  BY <1>4, ClaimMarkInv
<1>5. ASSUME NEW c \in Calls, ClaimRollUp(c) PROVE IInv'
  BY <1>5, ClaimRollUpInv
<1>6. ASSUME NEW c \in Calls, ClaimRespond(c) PROVE IInv'
  BY <1>6, ClaimRespondInv
<1>7. ASSUME NEW c \in Calls, NEW j \in DOMAIN jobs, NEW s \in {"running"} \cup Done,
             UpdateCall(c, j, s)
      PROVE  IInv'
  BY <1>7, UpdateCallInv
<1>8. ASSUME NEW c \in Calls, UpdateStatus(c) PROVE IInv'
  BY <1>8, UpdateStatusInv
<1>9. ASSUME NEW c \in Calls, UpdateTerminal(c) PROVE IInv'
  BY <1>9, UpdateTerminalInv
<1>10. CASE UNCHANGED vars
  <2>1. TypeOK' /\ OneHolder'
    BY <1>10 DEF vars, IInv, TypeOK, OneHolder, Queued
  <2>2. JobFacts' /\ CallFacts' /\ StageFacts'
    BY <1>10 DEF vars, IInv, JobFacts, CallFacts, StageFacts, Queued
  <2> QED BY <2>1, <2>2 DEF IInv
<1> QED BY <1>1, <1>2, <1>3, <1>4, <1>5, <1>6, <1>7, <1>8, <1>9, <1>10 DEF Next

-----------------------------------------------------------------------------
\* The inductive invariant of the handlers: what each critical section of
\* pipeline.go and runner_api.go may rely on holds in every reachable state.
THEOREM Invariance == Spec => []IInv
<1>1. Init => IInv
  BY InitInv
<1>2. IInv /\ [Next]_vars => IInv'
  BY NextInv
<1> QED BY <1>1, <1>2, PTL DEF Spec

\* The maps, the queue, the handlers and the runners' knowledge stay well
\* formed; no pipeline is ever seen "pending", so setPipelineStatus
\* (pipeline.go:139) never finds one to change.
THEOREM TypeCorrect == Spec => []TypeOK
<1>1. IInv => TypeOK
  BY DEF IInv
<1> QED BY <1>1, Invariance, PTL

\* Two runners never hold the same job (handleJobRequest, dequeueJobLocked).
THEOREM JobsHaveOneHolder == Spec => []OneHolder
<1>1. IInv => OneHolder
  BY DEF IInv
<1> QED BY <1>1, Invariance, PTL

\* Stages are released in order: no job leaves "created" while a job of an
\* earlier stage of its pipeline has no verdict (enqueueStageLocked).
THEOREM StagesInOrder == Spec => []StageOrder
<1>1. IInv => StageOrder
  <2> SUFFICES ASSUME IInv, NEW j \in DOMAIN jobs, NEW k \in DOMAIN jobs,
                      jobs[k].status # "created", Before(j, k)
               PROVE  exec[j] \in Done
    BY DEF StageOrder
  <2> DEFINE p == jobs[k].pipeline
  <2>1. PICK i \in 1..Len(pipelines[p].stages) :
          /\ Has(p, jobs[j].stage, i)
          /\ \A m \in 1..Len(pipelines[p].stages) : Has(p, jobs[k].stage, m) => i < m
    BY DEF Before
  <2>2. jobs[j].pipeline = p
    BY DEF Before
  <2>3. PICK m \in 1..Len(pipelines[p].stages) :
          pipelines[p].stages[m] = jobs[k].stage /\ m <= pipelines[p].stageIdx
    BY DEF IInv, StageFacts
  <2>4. i < m
    BY <2>1, <2>3 DEF Has
  <2>5. pipelines[p].stageIdx \in Nat
    BY DEF IInv, TypeOK
  <2>6. i < pipelines[p].stageIdx
    BY <2>3, <2>4, <2>5
  <2> QED BY <2>1, <2>2, <2>6 DEF IInv, StageFacts, Has
<1> QED BY <1>1, Invariance, PTL

\* A pipeline shown as successful has no declared job without a verdict.
THEOREM SuccessIsAccounted == Spec => []SuccessAccounted
<1>1. IInv => SuccessAccounted
  <2> SUFFICES ASSUME IInv, NEW j \in DOMAIN jobs,
                      pipelines[jobs[j].pipeline].status = "success",
                      NEW k \in 1..Len(pipelines[jobs[j].pipeline].stages),
                      Has(jobs[j].pipeline, jobs[j].stage, k)
               PROVE  exec[j] \in Done
    BY DEF SuccessAccounted
  <2> DEFINE p == jobs[j].pipeline
  <2>1. p \in DOMAIN pipelines /\ Len(pipelines[p].stages) \in Nat
    BY DEF IInv, TypeOK
  <2>2. pipelines[p].stageIdx = Len(pipelines[p].stages) + 1
    BY <2>1 DEF IInv, StageFacts
  <2>3. k < pipelines[p].stageIdx
    BY <2>1, <2>2
  <2> QED BY <2>3 DEF IInv, StageFacts, Has
<1> QED BY <1>1, Invariance, PTL
=============================================================================
