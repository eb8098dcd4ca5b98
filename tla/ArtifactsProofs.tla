-------------------------- MODULE ArtifactsProofs --------------------------
(***************************************************************************)
(* Proofs about Artifacts: the state stays well formed, what a runner is   *)
(* told to fetch is settled and complete, and what it fetches is whole.    *)
(***************************************************************************)
EXTENDS Artifacts, TLAPS

\* The steps, one by one.
LEMMA Steps ==
  ASSUME [Next]_vars
  PROVE  \/ \E cfg \in Configs : CreatePipeline(cfg)
         \/ \E j \in DOMAIN jobs, n \in Sizes : HandOut(j, n)
         \/ \E j \in DOMAIN jobs, verdict \in Done : Finish(j, verdict)
         \/ \E j \in DOMAIN jobs, i \in DOMAIN jobs : Download(j, i)
         \/ \E u \in Uploads, j \in DOMAIN jobs : BeginUpload(u, j)
         \/ \E u \in Uploads, outcome \in {"ok", "error"} : OpenStore(u, outcome)
         \/ \E u \in Uploads : Put(u) \/ CreateFile(u) \/ WriteBlock(u) \/ CloseFile(u) \/ PutFails(u)
         \/ \E u \in Uploads, heard \in BOOLEAN : SetSize(u, heard)
         \/ Restart
         \/ UNCHANGED vars
BY DEF Next, Upload

LEMMA NoJobs == DOMAIN << >> = {}
OBVIOUS

NewBuild == [pc |-> "none", size |-> 0, acked |-> FALSE, overlap |-> FALSE, needs |-> {}, got |-> {}]

\* The ids of a job are ids of the server, and so of the store.
LEMMA Ids ==
  ASSUME TypeOK
  PROVE  DOMAIN jobs \subseteq 1..MaxID /\ DOMAIN pipelines \subseteq 1..MaxID
BY BoundsAssumption DEF TypeOK

\* A file of the store, or part of one.
LEMMA PartShape ==
  ASSUME TypeOK, NEW j \in DOMAIN jobs, NEW blocks \in SUBSET Nat
  PROVE  Part(j, blocks) \in Stored
<1>1. j \in 0..MaxID /\ life \in 0..MaxLives
  BY Ids, BoundsAssumption DEF TypeOK
<1>2. QED
  BY <1>1 DEF Part, Stored

\* One record changes, to one of its kind.
LEMMA BuildsKept ==
  ASSUME TypeOK, NEW j \in DOMAIN jobs, NEW new \in BuildRec, new.needs \subseteq DOMAIN jobs,
         {g.job : g \in new.got} \subseteq new.needs, builds' = [builds EXCEPT ![j] = new]
  PROVE  /\ DOMAIN builds' = DOMAIN jobs
         /\ \A k \in DOMAIN jobs : /\ builds'[k] \in BuildRec /\ builds'[k].needs \subseteq DOMAIN jobs
                                   /\ Got(k)' \subseteq builds'[k].needs
<1>1. DOMAIN builds' = DOMAIN jobs
  BY DEF TypeOK
<1>2. ASSUME NEW k \in DOMAIN jobs
      PROVE  /\ builds'[k] \in BuildRec /\ builds'[k].needs \subseteq DOMAIN jobs
             /\ Got(k)' \subseteq builds'[k].needs
  <2>1. CASE k = j
    BY <2>1 DEF TypeOK, Got
  <2>2. CASE k # j
    BY <2>2 DEF TypeOK, Got
  <2>3. QED
    BY <2>1, <2>2
<1>3. QED
  BY <1>1, <1>2

LEMMA UploadsKept ==
  ASSUME TypeOK, NEW u \in Uploads, NEW new \in CallRec, new.pc # "idle" => new.job \in DOMAIN jobs,
         uploads' = [uploads EXCEPT ![u] = new]
  PROVE  /\ uploads' \in [Uploads -> CallRec]
         /\ \A v \in Uploads : uploads'[v].pc # "idle" => uploads'[v].job \in DOMAIN jobs
BY DEF TypeOK

LEMMA StoreKept ==
  ASSUME TypeOK, NEW j \in DOMAIN jobs, NEW new \in Stored, store' = [store EXCEPT ![j] = new]
  PROVE  store' \in [1..MaxID -> Stored]
BY Ids DEF TypeOK

LEMMA BuildShape ==
  ASSUME NEW b \in BuildRec
  PROVE  /\ \A x \in Done : [b EXCEPT !.pc = x] \in BuildRec
         /\ \A x \in BOOLEAN : [b EXCEPT !.overlap = x] \in BuildRec /\ [b EXCEPT !.acked = x] \in BuildRec
         /\ \A x \in SUBSET Fetched : [b EXCEPT !.got = x] \in BuildRec
         /\ \A x : /\ [b EXCEPT !.pc = x].needs = b.needs /\ [b EXCEPT !.pc = x].got = b.got
                   /\ [b EXCEPT !.overlap = x].needs = b.needs /\ [b EXCEPT !.overlap = x].got = b.got
                   /\ [b EXCEPT !.acked = x].needs = b.needs /\ [b EXCEPT !.acked = x].got = b.got
                   /\ [b EXCEPT !.got = x].needs = b.needs /\ [b EXCEPT !.got = x].got = x
BY DEF BuildRec

LEMMA IdleShape == IdleCall \in CallRec /\ IdleCall.pc = "idle"
BY BoundsAssumption DEF IdleCall, CallRec

\* Every handler and every step of a runner keeps the state well formed.
LEMMA TypeNext == TypeOK /\ Untouched /\ [Next]_vars => TypeOK'
<1> SUFFICES ASSUME TypeOK, Untouched, [Next]_vars PROVE TypeOK'
  OBVIOUS
<1> USE DEF TypeOK
<1>1. ASSUME NEW cfg \in Configs, CreatePipeline(cfg) PROVE TypeOK'
  <2> DEFINE n == Len(cfg.jobs)  ids == (nextID + 1)..(nextID + n)
  <2>0. n \in Nat /\ DOMAIN cfg.jobs = 1..n /\ nextID + n <= MaxID /\ nextID' = nextID + n + 1
    BY <1>1, ConfigsAssumption DEF CreatePipeline
  <2>1. /\ pipelines' = [p \in DOMAIN pipelines \cup {nextID} |-> IF p = nextID THEN cfg ELSE pipelines[p]]
        /\ jobs' = [j \in DOMAIN jobs \cup ids |->
                      IF j \in ids THEN [pipeline |-> nextID, spec |-> j - nextID, size |-> 0] ELSE jobs[j]]
        /\ builds' = [j \in DOMAIN jobs \cup ids |-> IF j \in ids THEN NewBuild ELSE builds[j]]
        /\ UNCHANGED <<backend, life, store, opened, uploads>>
    BY <1>1 DEF CreatePipeline, NewBuild
  <2>2. NewBuild \in BuildRec /\ NewBuild.needs = {} /\ NewBuild.got = {}
    BY DEF NewBuild, BuildRec
  <2>3. nextID' \in 1..(MaxID + 1)
    BY <2>0, BoundsAssumption
  <2>4. DOMAIN jobs' \subseteq 1..(nextID' - 1) \ DOMAIN pipelines' /\ DOMAIN builds' = DOMAIN jobs'
    BY <2>0, <2>1
  <2>5. \A p \in DOMAIN pipelines' : p \in 1..(nextID' - 1) /\ pipelines'[p] \in Configs
    BY <2>0, <2>1
  <2>6. ASSUME NEW j \in DOMAIN jobs'
        PROVE  /\ jobs'[j] \in JobRec /\ jobs'[j].pipeline \in DOMAIN pipelines'
               /\ jobs'[j].spec \in DOMAIN pipelines'[jobs'[j].pipeline].jobs
               /\ builds'[j] \in BuildRec /\ builds'[j].needs \subseteq DOMAIN jobs'
               /\ Got(j)' \subseteq builds'[j].needs
    <3>1. CASE j \in ids
      <4>1. nextID \in 1..MaxID /\ j - nextID \in 1..n
        BY <2>0, <3>1, BoundsAssumption
      <4>2. jobs'[j] = [pipeline |-> nextID, spec |-> j - nextID, size |-> 0] /\ builds'[j] = NewBuild
        BY <2>1, <3>1
      <4>3. pipelines'[nextID] = cfg /\ nextID \in DOMAIN pipelines'
        BY <2>1
      <4>4. jobs'[j] \in JobRec
        BY <4>1, <4>2 DEF JobRec
      <4>5. QED
        BY <2>0, <2>2, <4>1, <4>2, <4>3, <4>4 DEF Got
    <3>2. CASE j \notin ids
      <4>1. j \in DOMAIN jobs /\ jobs'[j] = jobs[j] /\ builds'[j] = builds[j]
        BY <2>1, <3>2
      <4>2. jobs[j].pipeline \in DOMAIN pipelines /\ jobs[j].pipeline # nextID
        BY <4>1
      <4>3. pipelines'[jobs[j].pipeline] = pipelines[jobs[j].pipeline]
        BY <2>1, <4>2
      <4>4. QED
        BY <2>1, <4>1, <4>2, <4>3 DEF Got
    <3>3. QED
      BY <3>1, <3>2
  <2>7. ASSUME NEW u \in Uploads, uploads'[u].pc # "idle" PROVE uploads'[u].job \in DOMAIN jobs'
    BY <2>1, <2>7
  <2>8. QED
    BY <2>1, <2>3, <2>4, <2>5, <2>6, <2>7
<1>2. ASSUME NEW j \in DOMAIN jobs, NEW n \in Sizes, HandOut(j, n) PROVE TypeOK'
  <2>1. Dependencies(j) \subseteq DOMAIN jobs
    BY DEF Dependencies, Earlier
  <2>2. Dependencies(j) \in SUBSET (1..MaxID) /\ n \in Nat
    BY <2>1, Ids, SizesAssumption
  <2> DEFINE new == [builds[j] EXCEPT !.pc = "running", !.size = n, !.needs = Dependencies(j)]
  <2>3. builds[j] \in BuildRec
    OBVIOUS
  <2>4. new \in BuildRec /\ new.needs = Dependencies(j) /\ new.got = builds[j].got
    BY <2>2, <2>3 DEF BuildRec
  <2>5. builds' = [builds EXCEPT ![j] = new] /\ UNCHANGED <<backend, life, nextID, pipelines, jobs, store, opened, uploads>>
    BY <1>2 DEF HandOut
  <2>6. new.needs \subseteq DOMAIN jobs /\ {g.job : g \in new.got} \subseteq new.needs
    <3>1. Got(j) = {}
      BY <1>2 DEF HandOut, Untouched
    <3>2. QED
      BY <2>1, <2>4, <3>1 DEF Got
  <2> HIDE DEF new
  <2>7. QED
    BY <2>4, <2>5, <2>6, BuildsKept
<1>3. ASSUME NEW j \in DOMAIN jobs, NEW verdict \in Done, Finish(j, verdict) PROVE TypeOK'
  <2> DEFINE new == [builds[j] EXCEPT !.pc = verdict]
  <2>0. builds[j] \in BuildRec
    OBVIOUS
  <2>1. new \in BuildRec /\ new.needs = builds[j].needs /\ new.got = builds[j].got
    BY ONLY <2>0, BuildShape, verdict \in Done
  <2>2. builds' = [builds EXCEPT ![j] = new] /\ UNCHANGED <<backend, life, nextID, pipelines, jobs, store, opened, uploads>>
    BY <1>3 DEF Finish
  <2>3. new.needs \subseteq DOMAIN jobs /\ {g.job : g \in new.got} \subseteq new.needs
    BY <2>1 DEF Got
  <2> HIDE DEF new
  <2>4. QED
    BY <2>1, <2>2, <2>3, BuildsKept
<1>4. ASSUME NEW j \in DOMAIN jobs, NEW i \in DOMAIN jobs, Download(j, i) PROVE TypeOK'
  <2> DEFINE fetch == [job |-> i, what |-> store[i]]
             new   == [builds[j] EXCEPT !.got = builds[j].got \cup {fetch}]
  <2>1. fetch \in Fetched /\ fetch.job \in builds[j].needs
    BY <1>4, Ids DEF Download, Fetched
  <2>2. new \in BuildRec /\ new.needs = builds[j].needs /\ new.got = builds[j].got \cup {fetch}
    <3>1. builds[j] \in BuildRec /\ builds[j].got \in SUBSET Fetched
      BY DEF BuildRec
    <3>2. builds[j].got \cup {fetch} \in SUBSET Fetched
      BY ONLY <2>1, <3>1
    <3>3. QED
      BY ONLY <3>1, <3>2, BuildShape
  <2>3. builds' = [builds EXCEPT ![j] = new] /\ UNCHANGED <<backend, life, nextID, pipelines, jobs, store, opened, uploads>>
    BY <1>4 DEF Download
  <2>4. new.needs \subseteq DOMAIN jobs /\ {g.job : g \in new.got} \subseteq new.needs
    BY <2>1, <2>2 DEF Got
  <2> HIDE DEF new, fetch
  <2>5. QED
    BY <2>2, <2>3, <2>4, BuildsKept
<1>5. ASSUME NEW u \in Uploads, NEW j \in DOMAIN jobs, BeginUpload(u, j) PROVE TypeOK'
  <2> DEFINE new  == [builds[j] EXCEPT !.overlap = builds[j].overlap \/ InFlight(j) # {}]
             call == [pc |-> "open", job |-> j, wrote |-> 0]
  <2>0. builds[j] \in BuildRec /\ builds[j].overlap \in BOOLEAN
    BY DEF BuildRec
  <2>1. new \in BuildRec /\ new.needs = builds[j].needs /\ new.got = builds[j].got
    BY ONLY <2>0, BuildShape
  <2>2. call \in CallRec /\ call.job = j
    <3>1. j \in 0..MaxID
      BY Ids, BoundsAssumption
    <3>2. QED
      BY ONLY <3>1 DEF CallRec
  <2>3. /\ builds' = [builds EXCEPT ![j] = new] /\ uploads' = [uploads EXCEPT ![u] = call]
        /\ UNCHANGED <<backend, life, nextID, pipelines, jobs, store, opened>>
    BY <1>5 DEF BeginUpload
  <2>4. new.needs \subseteq DOMAIN jobs /\ {g.job : g \in new.got} \subseteq new.needs
    BY <2>1 DEF Got
  <2> HIDE DEF new, call
  <2>5. QED
    BY <2>1, <2>2, <2>3, <2>4, BuildsKept, UploadsKept
<1>6. ASSUME NEW u \in Uploads, NEW outcome \in {"ok", "error"}, OpenStore(u, outcome) PROVE TypeOK'
  <2> DEFINE call == IF outcome = "ok" THEN [uploads[u] EXCEPT !.pc = "put"] ELSE IdleCall
  <2>1. call \in CallRec /\ (call.pc # "idle" => call.job \in DOMAIN jobs)
    BY <1>6, IdleShape DEF OpenStore, CallRec
  <2>2. /\ opened' = outcome /\ uploads' = [uploads EXCEPT ![u] = call]
        /\ UNCHANGED <<backend, life, nextID, pipelines, jobs, store, builds>>
    BY <1>6 DEF OpenStore
  <2> HIDE DEF call
  <2>3. QED
    BY <2>1, <2>2, UploadsKept DEF Got
<1>7. ASSUME NEW u \in Uploads, Put(u) \/ CreateFile(u) \/ WriteBlock(u) \/ CloseFile(u) \/ PutFails(u)
      PROVE  TypeOK'
  <2> DEFINE j == uploads[u].job
  <2>0. j \in DOMAIN jobs /\ uploads[u] \in CallRec
    BY <1>7 DEF Put, CreateFile, WriteBlock, CloseFile, PutFails
  <2>1. UNCHANGED <<backend, life, nextID, pipelines, jobs, opened, builds>>
    BY <1>7 DEF Put, CreateFile, WriteBlock, CloseFile, PutFails
  <2>2. /\ uploads' \in [Uploads -> CallRec]
        /\ \A v \in Uploads : uploads'[v].pc # "idle" => uploads'[v].job \in DOMAIN jobs
    <3>1. ASSUME NEW x \in {"write", "size"}, uploads' = [uploads EXCEPT ![u].pc = x]
          PROVE  /\ uploads' \in [Uploads -> CallRec]
                 /\ \A v \in Uploads : uploads'[v].pc # "idle" => uploads'[v].job \in DOMAIN jobs
      <4>1. [uploads[u] EXCEPT !.pc = x] \in CallRec /\ [uploads[u] EXCEPT !.pc = x].job = j
        BY <2>0 DEF CallRec
      <4>2. QED
        BY <2>0, <3>1, <4>1, UploadsKept
    <3>2. CASE Put(u) \/ CreateFile(u) \/ CloseFile(u)
      BY <3>1, <3>2 DEF Put, CreateFile, CloseFile
    <3>3. CASE WriteBlock(u)
      <4> DEFINE call == [uploads[u] EXCEPT !.wrote = uploads[u].wrote + 1]
      <4>1. call \in CallRec /\ call.job = j
        <5>1. uploads[u] \in CallRec /\ uploads[u].wrote + 1 \in Nat
          BY <2>0 DEF CallRec
        <5>2. QED
          BY ONLY <5>1 DEF CallRec
      <4>2. uploads' = [uploads EXCEPT ![u] = call]
        BY <3>3 DEF WriteBlock
      <4> HIDE DEF call
      <4>3. QED
        BY <2>0, <4>1, <4>2, UploadsKept
    <3>4. CASE PutFails(u)
      BY <3>4, IdleShape, UploadsKept DEF PutFails
    <3>5. QED
      BY <1>7, <3>2, <3>3, <3>4
  <2>3. store' \in [1..MaxID -> Stored]
    <3>1. builds[j].size \in Nat
      BY <2>0 DEF BuildRec
    <3>2. CASE Put(u)
      <4>1. Archive(j) \in Stored
        BY <2>0, <3>1, PartShape DEF Archive
      <4>2. QED
        BY <2>0, <3>2, <4>1, StoreKept DEF Put
    <3>3. CASE CreateFile(u)
      <4>1. Part(j, {}) \in Stored
        BY <2>0, PartShape
      <4>2. QED
        BY <2>0, <3>3, <4>1, StoreKept DEF CreateFile
    <3>4. CASE WriteBlock(u)
      <4> DEFINE new == [store[j] EXCEPT !.blocks = store[j].blocks \cup {uploads[u].wrote + 1}]
      <4>1. store[j] \in Stored /\ uploads[u].wrote \in Nat
        BY <2>0, Ids DEF CallRec
      <4>2. new \in Stored
        BY <4>1 DEF Stored
      <4>3. store' = [store EXCEPT ![j] = new]
        BY <3>4 DEF WriteBlock
      <4> HIDE DEF new
      <4>4. QED
        BY <2>0, <4>2, <4>3, StoreKept
    <3>5. CASE CloseFile(u) \/ PutFails(u)
      BY <3>5 DEF CloseFile, PutFails
    <3>6. QED
      BY <1>7, <3>2, <3>3, <3>4, <3>5
  <2>4. QED
    BY <2>1, <2>2, <2>3 DEF Got
<1>8. ASSUME NEW u \in Uploads, NEW heard \in BOOLEAN, SetSize(u, heard) PROVE TypeOK'
  <2> DEFINE j   == uploads[u].job
             new == [builds[j] EXCEPT !.acked = builds[j].acked \/ (heard /\ builds[j].pc = "running")]
             job == [jobs[j] EXCEPT !.size = builds[j].size]
  <2>0. j \in DOMAIN jobs
    BY <1>8 DEF SetSize
  <2>1. new \in BuildRec /\ new.needs = builds[j].needs /\ new.got = builds[j].got
    <3>1. builds[j] \in BuildRec /\ builds[j].acked \in BOOLEAN
      BY <2>0 DEF BuildRec
    <3>2. QED
      BY ONLY <3>1, BuildShape, heard \in BOOLEAN
  <2>2. job \in JobRec /\ job.pipeline = jobs[j].pipeline /\ job.spec = jobs[j].spec
    BY <2>0 DEF JobRec, BuildRec
  <2>3. /\ builds' = [builds EXCEPT ![j] = new] /\ uploads' = [uploads EXCEPT ![u] = IdleCall]
        /\ jobs' = [jobs EXCEPT ![j] = job]
        /\ UNCHANGED <<backend, life, nextID, pipelines, store, opened>>
    BY <1>8 DEF SetSize
  <2>4. new.needs \subseteq DOMAIN jobs /\ {g.job : g \in new.got} \subseteq new.needs
    BY <2>0, <2>1 DEF Got
  <2> HIDE DEF new, job, j
  <2>5. DOMAIN jobs' = DOMAIN jobs
    BY <2>3
  <2>6. \A k \in DOMAIN jobs : /\ jobs'[k] \in JobRec /\ jobs'[k].pipeline \in DOMAIN pipelines
                               /\ jobs'[k].spec \in DOMAIN pipelines[jobs'[k].pipeline].jobs
    BY <2>0, <2>2, <2>3
  <2>7. /\ uploads' \in [Uploads -> CallRec]
        /\ \A v \in Uploads : uploads'[v].pc # "idle" => uploads'[v].job \in DOMAIN jobs
    BY <2>3, IdleShape, UploadsKept
  <2>8. /\ DOMAIN builds' = DOMAIN jobs
        /\ \A k \in DOMAIN jobs : /\ builds'[k] \in BuildRec /\ builds'[k].needs \subseteq DOMAIN jobs
                                  /\ Got(k)' \subseteq builds'[k].needs
    BY <2>0, <2>1, <2>3, <2>4, BuildsKept
  <2>9. QED
    BY <2>3, <2>5, <2>6, <2>7, <2>8
<1>9. CASE Restart
  <2>1. life' \in 1..MaxLives /\ nextID' \in 1..(MaxID + 1)
    BY <1>9, BoundsAssumption DEF Restart
  <2>2. DOMAIN jobs' = {} /\ DOMAIN pipelines' = {} /\ DOMAIN builds' = {}
    BY <1>9, NoJobs DEF Restart
  <2>3. Nothing \in Stored
    BY BoundsAssumption DEF Nothing, Stored
  <2>4. store' \in [1..MaxID -> Stored]
    BY <1>9, <2>3 DEF Restart
  <2>5. uploads' \in [Uploads -> CallRec] /\ \A u \in Uploads : uploads'[u].pc = "idle"
    BY <1>9, IdleShape DEF Restart
  <2>6. backend' \in Backends /\ opened' = "no"
    BY <1>9 DEF Restart
  <2>7. QED
    BY <2>1, <2>2, <2>4, <2>5, <2>6
<1>10. CASE UNCHANGED vars
  BY <1>10 DEF vars, Got
<1>11. QED
  BY <1>1, <1>2, <1>3, <1>4, <1>5, <1>6, <1>7, <1>8, <1>9, <1>10, Steps

-----------------------------------------------------------------------------
(* What one step does to one job. *)

\* A job keeps its pipeline and its place in it, and so the jobs before it.
LEMMA JobKept ==
  ASSUME TypeOK, [Next]_vars, ~Restart, NEW j \in DOMAIN jobs
  PROVE  /\ j \in DOMAIN jobs' /\ jobs'[j].pipeline = jobs[j].pipeline /\ jobs'[j].spec = jobs[j].spec
         /\ pipelines'[jobs[j].pipeline] = pipelines[jobs[j].pipeline]
         /\ life' = life /\ backend' = backend
<1> USE DEF TypeOK
<1> DEFINE Same == /\ j \in DOMAIN jobs' /\ jobs'[j].pipeline = jobs[j].pipeline /\ jobs'[j].spec = jobs[j].spec
                   /\ pipelines'[jobs[j].pipeline] = pipelines[jobs[j].pipeline]
                   /\ life' = life /\ backend' = backend
<1>1. ASSUME NEW cfg \in Configs, CreatePipeline(cfg) PROVE Same
  <2> DEFINE n == Len(cfg.jobs)  ids == (nextID + 1)..(nextID + n)
  <2>1. n \in Nat
    BY ConfigsAssumption
  <2>2. j \notin ids /\ jobs[j].pipeline \in DOMAIN pipelines /\ jobs[j].pipeline # nextID
    BY <2>1
  <2>3. QED
    BY <1>1, <2>2 DEF CreatePipeline
<1>2. ASSUME NEW u \in Uploads, NEW heard \in BOOLEAN, SetSize(u, heard) PROVE Same
  BY <1>2 DEF SetSize, JobRec
<1>3. ASSUME UNCHANGED <<backend, life, pipelines, jobs>> PROVE Same
  BY <1>3
<1> HIDE DEF Same
<1>4. Same
  BY <1>1, <1>2, <1>3, Steps DEF HandOut, Finish, Download, BeginUpload, OpenStore, Put, CreateFile, WriteBlock,
     CloseFile, PutFails, vars
<1>5. QED
  BY <1>4 DEF Same

\* A job of this step has a new record, and no pipeline but its own has others.
LEMMA JobNew ==
  ASSUME TypeOK, [Next]_vars, NEW j \in DOMAIN jobs', j \notin DOMAIN jobs
  PROVE  /\ ~Restart /\ builds'[j] = NewBuild /\ jobs'[j].size = 0 /\ jobs'[j].pipeline \notin DOMAIN pipelines
         /\ InFlight(j)' = {} /\ Got(j)' = {}
<1> USE DEF TypeOK
<1>1. ASSUME NEW cfg \in Configs, CreatePipeline(cfg)
      PROVE  /\ builds'[j] = NewBuild /\ jobs'[j].size = 0 /\ jobs'[j].pipeline \notin DOMAIN pipelines
             /\ uploads' = uploads
  BY <1>1 DEF CreatePipeline, NewBuild
<1>2. ASSUME NEW u \in Uploads, NEW heard \in BOOLEAN, SetSize(u, heard) PROVE FALSE
  BY <1>2 DEF SetSize
<1>3. ~Restart
  BY NoJobs DEF Restart
<1>4. \E cfg \in Configs : CreatePipeline(cfg)
  BY <1>2, <1>3, Steps DEF HandOut, Finish, Download, BeginUpload, OpenStore, Put, CreateFile, WriteBlock,
     CloseFile, PutFails, vars
<1>5. /\ builds'[j] = NewBuild /\ jobs'[j].size = 0 /\ jobs'[j].pipeline \notin DOMAIN pipelines
      /\ uploads' = uploads
  BY <1>1, <1>4
<1>6. InFlight(j)' = {}
  BY <1>5 DEF InFlight
<1>7. Got(j)' = {}
  BY <1>5 DEF Got, NewBuild
<1>8. QED
  BY <1>3, <1>5, <1>6, <1>7

LEMMA PlaceKept ==
  ASSUME TypeOK, [Next]_vars, ~Restart, NEW j \in DOMAIN jobs
  PROVE  Parsed(j)' = Parsed(j) /\ MyStage(j)' = MyStage(j)
BY JobKept DEF Parsed, MyStage

LEMMA EarlierKept ==
  ASSUME TypeOK, [Next]_vars, ~Restart, NEW j \in DOMAIN jobs
  PROVE  Earlier(j)' = Earlier(j)
<1>1. ASSUME NEW i \in DOMAIN jobs', i \notin DOMAIN jobs PROVE jobs'[i].pipeline # jobs'[j].pipeline
  BY <1>1, JobNew, JobKept DEF TypeOK
<1>2. ASSUME NEW i \in DOMAIN jobs
      PROVE  /\ i \in DOMAIN jobs' /\ jobs'[i].pipeline = jobs[i].pipeline /\ MyStage(i)' = MyStage(i)
             /\ jobs'[j].pipeline = jobs[j].pipeline /\ MyStage(j)' = MyStage(j)
  BY JobKept, PlaceKept
<1>3. Earlier(j) = {i \in DOMAIN jobs : /\ jobs[i].pipeline = jobs[j].pipeline
                                        /\ 0 < MyStage(i) /\ MyStage(i) < MyStage(j)}
  BY DEF Earlier
<1>4. Earlier(j)' = {i \in DOMAIN jobs' : /\ jobs'[i].pipeline = jobs'[j].pipeline
                                          /\ 0 < MyStage(i)' /\ MyStage(i)' < MyStage(j)'}
  BY DEF Earlier
<1>5. QED
  BY <1>1, <1>2, <1>3, <1>4

\* The steps that change the record of a job ...
LEMMA BuildStep ==
  ASSUME TypeOK, [Next]_vars, ~Restart, NEW j \in DOMAIN jobs
  PROVE  \/ builds'[j] = builds[j]
         \/ \E n \in Sizes : HandOut(j, n)
         \/ \E verdict \in Done : Finish(j, verdict)
         \/ \E i \in DOMAIN jobs : Download(j, i)
         \/ \E u \in Uploads : BeginUpload(u, j)
         \/ \E u \in Uploads, heard \in BOOLEAN : SetSize(u, heard) /\ uploads[u].job = j
<1> USE DEF TypeOK
<1>1. ASSUME NEW cfg \in Configs, CreatePipeline(cfg) PROVE builds'[j] = builds[j]
  <2>1. j \notin (nextID + 1)..(nextID + Len(cfg.jobs))
    BY ConfigsAssumption
  <2>2. QED
    BY <1>1, <2>1 DEF CreatePipeline
<1>2. ASSUME NEW k, k # j, NEW n, HandOut(k, n) PROVE builds'[j] = builds[j]
  BY <1>2 DEF HandOut
<1>3. ASSUME NEW k, k # j, NEW verdict, Finish(k, verdict) PROVE builds'[j] = builds[j]
  BY <1>3 DEF Finish
<1>4. ASSUME NEW k, k # j, NEW i, Download(k, i) PROVE builds'[j] = builds[j]
  BY <1>4 DEF Download
<1>5. ASSUME NEW k, k # j, NEW u, BeginUpload(u, k) PROVE builds'[j] = builds[j]
  BY <1>5 DEF BeginUpload
<1>6. ASSUME NEW u, NEW heard, SetSize(u, heard), uploads[u].job # j PROVE builds'[j] = builds[j]
  BY <1>6 DEF SetSize
<1>7. \/ builds' = builds
      \/ \E cfg \in Configs : CreatePipeline(cfg)
      \/ \E k \in DOMAIN jobs, n \in Sizes : HandOut(k, n)
      \/ \E k \in DOMAIN jobs, verdict \in Done : Finish(k, verdict)
      \/ \E k \in DOMAIN jobs, i \in DOMAIN jobs : Download(k, i)
      \/ \E u \in Uploads, k \in DOMAIN jobs : BeginUpload(u, k)
      \/ \E u \in Uploads, heard \in BOOLEAN : SetSize(u, heard)
  BY Steps DEF OpenStore, Put, CreateFile, WriteBlock, CloseFile, PutFails, vars
<1>8. QED
  BY <1>1, <1>2, <1>3, <1>4, <1>5, <1>6, <1>7

\* ... the size the server has for it ...
LEMMA SizeStep ==
  ASSUME TypeOK, [Next]_vars, ~Restart, NEW j \in DOMAIN jobs
  PROVE  \/ jobs'[j].size = jobs[j].size
         \/ \E u \in Uploads, heard \in BOOLEAN : /\ SetSize(u, heard) /\ uploads[u].job = j
                                                  /\ jobs'[j].size = builds[j].size
<1> USE DEF TypeOK
<1>1. ASSUME NEW cfg \in Configs, CreatePipeline(cfg) PROVE jobs'[j] = jobs[j]
  <2>1. j \notin (nextID + 1)..(nextID + Len(cfg.jobs))
    BY ConfigsAssumption
  <2>2. QED
    BY <1>1, <2>1 DEF CreatePipeline
<1>2. ASSUME NEW u, NEW heard, SetSize(u, heard), uploads[u].job # j PROVE jobs'[j] = jobs[j]
  BY <1>2 DEF SetSize
<1>3. ASSUME NEW u, NEW heard, SetSize(u, heard), uploads[u].job = j PROVE jobs'[j].size = builds[j].size
  BY <1>3 DEF SetSize, JobRec
<1>4. \/ jobs' = jobs
      \/ \E cfg \in Configs : CreatePipeline(cfg)
      \/ \E u \in Uploads, heard \in BOOLEAN : SetSize(u, heard)
  BY Steps DEF HandOut, Finish, Download, BeginUpload, OpenStore, Put, CreateFile, WriteBlock, CloseFile, PutFails, vars
<1>5. QED
  BY <1>1, <1>2, <1>3, <1>4

\* ... and its archive.
LEMMA StoreStep ==
  ASSUME TypeOK, [Next]_vars, ~Restart, NEW j \in DOMAIN jobs
  PROVE  \/ store'[j] = store[j]
         \/ \E u \in Uploads : /\ Put(u) \/ CreateFile(u) \/ WriteBlock(u)
                               /\ u \in InFlight(j)
<1> USE DEF TypeOK
<1>1. ASSUME NEW u \in Uploads, Put(u) \/ CreateFile(u) \/ WriteBlock(u), uploads[u].job # j PROVE store'[j] = store[j]
  <2>1. ASSUME NEW new, store' = [store EXCEPT ![uploads[u].job] = new] PROVE store'[j] = store[j]
    BY <1>1, <2>1
  <2>2. CASE Put(u)
    BY <2>1, <2>2 DEF Put
  <2>3. CASE CreateFile(u)
    BY <2>1, <2>3 DEF CreateFile
  <2>4. CASE WriteBlock(u)
    BY <2>1, <2>4 DEF WriteBlock
  <2>5. QED
    BY <1>1, <2>2, <2>3, <2>4
<1>2. ASSUME NEW u \in Uploads, Put(u) \/ CreateFile(u) \/ WriteBlock(u), uploads[u].job = j PROVE u \in InFlight(j)
  BY <1>2 DEF Put, CreateFile, WriteBlock, InFlight
<1>3. store' = store \/ \E u \in Uploads : Put(u) \/ CreateFile(u) \/ WriteBlock(u)
  BY Steps DEF CreatePipeline, HandOut, Finish, Download, BeginUpload, OpenStore, CloseFile, PutFails, SetSize, vars
<1>4. QED
  BY <1>1, <1>2, <1>3

\* An upload is at work for its job from its first step to its last.
LEMMA FlightStep ==
  ASSUME TypeOK, [Next]_vars, NEW j \in DOMAIN jobs, NEW u \in InFlight(j)'
  PROVE  /\ u \in Uploads /\ ~Restart
         /\ \/ BeginUpload(u, j)
            \/ u \in InFlight(j) /\ uploads'[u] = uploads[u]
            \/ u \in InFlight(j) /\ (OpenStore(u, "ok") \/ Put(u) \/ CreateFile(u) \/ WriteBlock(u) \/ CloseFile(u))
<1> USE DEF TypeOK
<1> u \in Uploads /\ uploads'[u].pc # "idle" /\ uploads'[u].job = j
  BY DEF InFlight
<1> uploads[u] \in CallRec
  OBVIOUS
<1>1. ~Restart
  BY IdleShape DEF Restart
<1>2. ASSUME NEW v \in Uploads, NEW k, BeginUpload(v, k) PROVE uploads'[u] = uploads[u] \/ BeginUpload(u, j)
  BY <1>2 DEF BeginUpload
<1>3. ASSUME NEW v \in Uploads, NEW outcome \in {"ok", "error"}, OpenStore(v, outcome)
      PROVE  uploads'[u] = uploads[u] \/ (OpenStore(u, "ok") /\ u \in InFlight(j))
  BY <1>3, IdleShape DEF OpenStore, InFlight, CallRec
<1>4. ASSUME NEW v \in Uploads, v # u, Put(v) \/ CreateFile(v) \/ WriteBlock(v) \/ CloseFile(v) \/ PutFails(v)
      PROVE  uploads'[u] = uploads[u]
  BY <1>4 DEF Put, CreateFile, WriteBlock, CloseFile, PutFails
<1>5. ASSUME Put(u) \/ CreateFile(u) \/ CloseFile(u) PROVE u \in InFlight(j)
  BY <1>5 DEF Put, CreateFile, CloseFile, InFlight, CallRec
<1>6. ASSUME WriteBlock(u) PROVE u \in InFlight(j)
  BY <1>6 DEF WriteBlock, InFlight, CallRec
<1>7. ASSUME PutFails(u) PROVE FALSE
  BY <1>7, IdleShape DEF PutFails
<1>8. ASSUME NEW v \in Uploads, NEW heard, SetSize(v, heard) PROVE uploads'[u] = uploads[u]
  BY <1>8, IdleShape DEF SetSize
<1>9. uploads'[u] = uploads[u] => u \in InFlight(j)
  BY DEF InFlight
<1>10. \/ uploads' = uploads
       \/ \E v \in Uploads, k \in DOMAIN jobs : BeginUpload(v, k)
       \/ \E v \in Uploads, outcome \in {"ok", "error"} : OpenStore(v, outcome)
       \/ \E v \in Uploads : Put(v) \/ CreateFile(v) \/ WriteBlock(v) \/ CloseFile(v) \/ PutFails(v)
       \/ \E v \in Uploads, heard \in BOOLEAN : SetSize(v, heard)
  BY <1>1, Steps DEF CreatePipeline, HandOut, Finish, Download, vars
<1>11. QED
  BY <1>1, <1>2, <1>3, <1>4, <1>5, <1>6, <1>7, <1>8, <1>9, <1>10

\* What a job has it keeps: once handed out its size and its needs, once over
\* all but what it has fetched.
LEMMA BuildLater ==
  ASSUME TypeOK, [Next]_vars, ~Restart, NEW j \in DOMAIN jobs, builds[j].pc # "none"
  PROVE  /\ builds'[j].pc # "none" /\ builds'[j].size = builds[j].size /\ builds'[j].needs = builds[j].needs
         /\ builds[j].pc \in Done => builds'[j] = builds[j]
<1> builds[j] \in BuildRec /\ DOMAIN builds = DOMAIN jobs
  BY DEF TypeOK
<1>1. ASSUME NEW n, HandOut(j, n) PROVE FALSE
  BY <1>1 DEF HandOut
<1>2. ASSUME NEW verdict \in Done, Finish(j, verdict)
      PROVE  /\ builds'[j].pc # "none" /\ builds'[j].size = builds[j].size /\ builds'[j].needs = builds[j].needs
             /\ builds[j].pc \notin Done
  BY <1>2 DEF Finish, Done, BuildRec
<1>3. ASSUME NEW i, Download(j, i)
      PROVE  /\ builds'[j].pc # "none" /\ builds'[j].size = builds[j].size /\ builds'[j].needs = builds[j].needs
             /\ builds[j].pc \notin Done
  BY <1>3 DEF Download, Done, BuildRec
<1>4. ASSUME NEW u, BeginUpload(u, j)
      PROVE  /\ builds'[j].pc # "none" /\ builds'[j].size = builds[j].size /\ builds'[j].needs = builds[j].needs
             /\ builds[j].pc \notin Done
  BY <1>4 DEF BeginUpload, Done, BuildRec
<1>5. ASSUME NEW u, NEW heard \in BOOLEAN, SetSize(u, heard), uploads[u].job = j
      PROVE  /\ builds'[j].pc # "none" /\ builds'[j].size = builds[j].size /\ builds'[j].needs = builds[j].needs
             /\ builds[j].pc \in Done => builds'[j] = builds[j]
  <2>1. builds'[j] = [builds[j] EXCEPT !.acked = builds[j].acked \/ (heard /\ builds[j].pc = "running")]
    BY <1>5 DEF SetSize
  <2>2. builds'[j].pc # "none" /\ builds'[j].size = builds[j].size /\ builds'[j].needs = builds[j].needs
    BY <2>1 DEF BuildRec
  <2>3. builds[j].pc \in Done => builds'[j] = [builds[j] EXCEPT !.acked = builds[j].acked]
    <3>1. builds[j].acked \in BOOLEAN /\ (builds[j].pc \in Done => builds[j].pc # "running")
      BY DEF BuildRec, Done
    <3>2. builds[j].pc \in Done => (builds[j].acked \/ (heard /\ builds[j].pc = "running")) = builds[j].acked
      BY <3>1
    <3>3. QED
      BY <2>1, <3>2
  <2>4. [builds[j] EXCEPT !.acked = builds[j].acked] = builds[j]
    BY DEF BuildRec
  <2>5. QED
    BY <2>2, <2>3, <2>4
<1>6. QED
  BY <1>1, <1>2, <1>3, <1>4, <1>5, BuildStep

\* What becomes of single fields: an answer is heard when the size is set, an
\* overlap is not forgotten, and only a download adds to what was fetched.
LEMMA FieldStep ==
  ASSUME TypeOK, [Next]_vars, ~Restart, NEW j \in DOMAIN jobs
  PROVE  /\ \/ builds'[j].acked = builds[j].acked
            \/ \E u \in Uploads, heard \in BOOLEAN : SetSize(u, heard) /\ uploads[u].job = j
         /\ builds[j].overlap => builds'[j].overlap
         /\ \/ builds'[j].got = builds[j].got
            \/ \E i \in DOMAIN jobs : /\ Download(j, i)
                                      /\ builds'[j].got = builds[j].got \cup {[job |-> i, what |-> store[i]]}
<1> builds[j] \in BuildRec /\ DOMAIN builds = DOMAIN jobs
  BY DEF TypeOK
<1> DEFINE Same == /\ builds'[j].acked = builds[j].acked /\ (builds[j].overlap => builds'[j].overlap)
                   /\ builds'[j].got = builds[j].got
<1>1. ASSUME NEW n, HandOut(j, n) PROVE Same
  BY <1>1 DEF HandOut, BuildRec
<1>2. ASSUME NEW verdict, Finish(j, verdict) PROVE Same
  BY <1>2 DEF Finish, BuildRec
<1>3. ASSUME NEW i, Download(j, i)
      PROVE  /\ builds'[j].acked = builds[j].acked /\ (builds[j].overlap => builds'[j].overlap)
             /\ builds'[j].got = builds[j].got \cup {[job |-> i, what |-> store[i]]}
  <2>1. builds'[j] = [builds[j] EXCEPT !.got = builds[j].got \cup {[job |-> i, what |-> store[i]]}]
    BY <1>3 DEF Download
  <2>2. QED
    BY <2>1 DEF BuildRec
<1>4. ASSUME NEW u, BeginUpload(u, j) PROVE Same
  <2>1. builds'[j] = [builds[j] EXCEPT !.overlap = builds[j].overlap \/ InFlight(j) # {}]
    BY <1>4 DEF BeginUpload
  <2>2. QED
    BY <2>1 DEF BuildRec
<1>5. ASSUME NEW u, NEW heard, SetSize(u, heard), uploads[u].job = j
      PROVE  (builds[j].overlap => builds'[j].overlap) /\ builds'[j].got = builds[j].got
  <2>1. builds'[j] = [builds[j] EXCEPT !.acked = builds[j].acked \/ (heard /\ builds[j].pc = "running")]
    BY <1>5 DEF SetSize
  <2>2. QED
    BY <2>1 DEF BuildRec
<1>6. QED
  BY <1>1, <1>2, <1>3, <1>4, <1>5, BuildStep

\* A job that was not handed out has no upload to come to its end.
LEMMA Fresh ==
  ASSUME TypeOK, Untouched, [Next]_vars, ~Restart, NEW j \in DOMAIN jobs, builds[j].pc = "none"
  PROVE  /\ jobs'[j].size = 0 /\ InFlight(j)' = {} /\ ~builds'[j].acked
         /\ builds'[j] = builds[j] \/ \E n \in Sizes : HandOut(j, n)
<1>1. jobs[j].size = 0 /\ InFlight(j) = {} /\ ~builds[j].acked
  BY DEF Untouched
<1>2. ASSUME NEW u \in Uploads, NEW heard, SetSize(u, heard), uploads[u].job = j PROVE FALSE
  BY <1>1, <1>2 DEF SetSize, InFlight
<1>3. jobs'[j].size = 0
  BY <1>1, <1>2, SizeStep
<1>5. InFlight(j)' = {}
  BY <1>1, FlightStep DEF BeginUpload
<1>6. ~builds'[j].acked
  BY <1>1, <1>2, FieldStep
<1>7. builds'[j] = builds[j] \/ \E n \in Sizes : HandOut(j, n)
  BY <1>2, BuildStep DEF BeginUpload, Finish, Download
<1>8. QED
  BY <1>3, <1>5, <1>6, <1>7

LEMMA UntouchedNext ==
  ASSUME TypeOK, Untouched, [Next]_vars
  PROVE  Untouched'
<1> SUFFICES ASSUME NEW j \in DOMAIN jobs', builds'[j].pc = "none"
             PROVE  /\ jobs'[j].size = 0 /\ ~builds'[j].acked
                    /\ InFlight(j)' = {} /\ builds'[j].needs = {}
  BY DEF Untouched
<1>1. CASE j \notin DOMAIN jobs
  BY <1>1, JobNew DEF NewBuild
<1>2. CASE j \in DOMAIN jobs
  <2>1. ~Restart
    BY NoJobs DEF Restart
  <2>2. builds[j].pc = "none"
    BY <1>2, <2>1, BuildLater
  <2>4. ASSUME NEW n, HandOut(j, n) PROVE FALSE
    BY <1>2, <2>4 DEF HandOut, TypeOK, BuildRec
  <2>5. QED
    BY <1>2, <2>1, <2>2, <2>4, Fresh DEF Untouched
<1>3. QED
  BY <1>1, <1>2

LEMMA SizedNext ==
  ASSUME TypeOK, Untouched, Sized, [Next]_vars
  PROVE  Sized'
<1> SUFFICES ASSUME NEW j \in DOMAIN jobs'
             PROVE  /\ jobs'[j].size = 0 \/ jobs'[j].size = builds'[j].size
                    /\ builds'[j].acked => jobs'[j].size = builds'[j].size
                    /\ jobs'[j].size # 0 => Parsed(j)'.artifacts # << >>
                    /\ \A u \in InFlight(j)' : Parsed(j)'.artifacts # << >>
                    /\ builds'[j].pc = "success" /\ Parsed(j)'.artifacts # << >> => builds'[j].acked
  BY DEF Sized
<1>1. CASE j \notin DOMAIN jobs
  BY <1>1, JobNew DEF NewBuild
<1>2. CASE j \in DOMAIN jobs
  <2>1. ~Restart
    BY NoJobs DEF Restart
  <2>2. Parsed(j)' = Parsed(j)
    BY <1>2, <2>1, PlaceKept
  <2>3. \A u \in InFlight(j)' : Parsed(j)'.artifacts # << >>
    BY <1>2, <2>1, <2>2, FlightStep DEF BeginUpload, Sized
  <2>4. CASE builds[j].pc = "none"
    <3>1. builds[j] \in BuildRec /\ DOMAIN builds = DOMAIN jobs
      BY <1>2 DEF TypeOK
    <3>2. ASSUME NEW n, HandOut(j, n) PROVE builds'[j].pc = "running"
      BY <1>2, <3>1, <3>2 DEF HandOut, BuildRec
    <3>3. jobs'[j].size = 0 /\ ~builds'[j].acked /\ builds'[j].pc \in {"none", "running"}
      BY <1>2, <2>1, <2>4, <3>2, Fresh
    <3>4. QED
      BY <2>3, <3>3
  <2>5. CASE builds[j].pc # "none"
    <3>1. builds'[j].size = builds[j].size /\ (builds[j].pc \in Done => builds'[j] = builds[j])
      BY <1>2, <2>1, <2>5, BuildLater
    <3>2. ASSUME NEW u \in Uploads, NEW heard, SetSize(u, heard), uploads[u].job = j
          PROVE  jobs'[j].size = builds[j].size /\ Parsed(j).artifacts # << >>
      <4>1. u \in InFlight(j)
        BY <3>2 DEF SetSize, InFlight
      <4>2. jobs'[j] = [jobs[j] EXCEPT !.size = builds[j].size] /\ jobs[j] \in JobRec
        BY <1>2, <3>2 DEF SetSize, TypeOK
      <4>3. QED
        BY <1>2, <4>1, <4>2 DEF Sized, JobRec
    <3>3. /\ jobs'[j].size = 0 \/ jobs'[j].size = builds'[j].size
          /\ jobs'[j].size # 0 => Parsed(j)'.artifacts # << >>
      BY <1>2, <2>1, <2>2, <3>1, <3>2, SizeStep DEF Sized
    <3>4. builds'[j].acked => jobs'[j].size = builds'[j].size
      <4>1. CASE builds[j].acked
        BY <1>2, <2>1, <3>1, <3>2, <4>1, SizeStep DEF Sized
      <4>2. CASE ~builds[j].acked
        BY <1>2, <2>1, <3>1, <3>2, <4>2, FieldStep
      <4>3. QED
        BY <4>1, <4>2
    <3>5. builds'[j].pc = "success" /\ Parsed(j)'.artifacts # << >> => builds'[j].acked
      <4>1. CASE builds[j].pc \in Done
        BY <1>2, <2>2, <3>1, <4>1 DEF Sized
      <4>2. CASE builds[j].pc \notin Done
        <5>1. builds[j].pc = "running" /\ builds[j] \in BuildRec /\ DOMAIN builds = DOMAIN jobs
          BY <1>2, <2>5, <4>2 DEF TypeOK, BuildRec
        <5>2. ASSUME NEW verdict \in Done, Finish(j, verdict), verdict = "success", Parsed(j).artifacts # << >>
              PROVE  builds'[j].acked
          BY <1>2, <5>1, <5>2 DEF Finish, BuildRec
        <5>3. ASSUME NEW verdict \in Done, Finish(j, verdict) PROVE builds'[j].pc = verdict
          BY <1>2, <5>1, <5>3 DEF Finish, BuildRec
        <5>4. /\ \A i : Download(j, i) => builds'[j].pc = "running"
              /\ \A u : BeginUpload(u, j) => builds'[j].pc = "running"
          BY <1>2, <5>1 DEF Download, BeginUpload, BuildRec
        <5>6. ASSUME NEW u, NEW heard, SetSize(u, heard), uploads[u].job = j PROVE builds'[j].pc = "running"
          <6>1. builds'[j] = [builds[j] EXCEPT !.acked = builds[j].acked \/ (heard /\ builds[j].pc = "running")]
            BY <1>2, <5>1, <5>6 DEF SetSize
          <6>2. QED
            BY <5>1, <6>1 DEF BuildRec
        <5>5. ASSUME NEW n, HandOut(j, n) PROVE FALSE
          BY <5>1, <5>5 DEF HandOut
        <5>7. QED
          BY <1>2, <2>1, <2>2, <5>1, <5>2, <5>3, <5>4, <5>5, <5>6, BuildStep
      <4>3. QED
        BY <4>1, <4>2
    <3>6. QED
      BY <2>3, <3>3, <3>4, <3>5
  <2>6. QED
    BY <2>4, <2>5
<1>3. QED
  BY <1>1, <1>2

LEMMA InOrderNext ==
  ASSUME TypeOK, Untouched, Sized, InOrder, [Next]_vars
  PROVE  InOrder'
<1> SUFFICES ASSUME NEW j \in DOMAIN jobs'
             PROVE  /\ builds'[j].pc # "none" => \A i \in Earlier(j)' : builds'[i].pc \in Done
                    /\ \A i \in builds'[j].needs : jobs'[i].size # 0
  BY DEF InOrder
<1>1. CASE j \notin DOMAIN jobs
  BY <1>1, JobNew DEF NewBuild
<1>2. CASE j \in DOMAIN jobs
  <2>1. ~Restart
    BY NoJobs DEF Restart
  <2>2. Earlier(j)' = Earlier(j) /\ Earlier(j) \subseteq DOMAIN jobs
    BY <1>2, <2>1, EarlierKept DEF Earlier
  <2>3. ASSUME NEW i \in DOMAIN jobs, builds[i].pc \in Done PROVE builds'[i].pc \in Done
    <3>1. builds[i].pc # "none"
      BY <2>3 DEF Done
    <3>2. QED
      BY <2>1, <2>3, <3>1, BuildLater
  <2>4. ASSUME NEW i \in DOMAIN jobs, jobs[i].size # 0 PROVE jobs'[i].size # 0
    BY <2>1, <2>4, SizeStep DEF Sized
  <2>5. builds[j].needs \subseteq DOMAIN jobs
    BY <1>2 DEF TypeOK
  <2>6. CASE builds[j].pc # "none"
    BY <1>2, <2>1, <2>2, <2>3, <2>4, <2>5, <2>6, BuildLater DEF InOrder
  <2>7. ASSUME NEW n, HandOut(j, n)
        PROVE  /\ \A i \in Earlier(j) : builds[i].pc \in Done
               /\ \A i \in builds'[j].needs : i \in DOMAIN jobs /\ jobs[i].size # 0
    <3>1. builds[j] \in BuildRec /\ DOMAIN builds = DOMAIN jobs
      BY <1>2 DEF TypeOK
    <3>2. builds'[j].needs = Dependencies(j)
      BY <1>2, <2>7, <3>1 DEF HandOut, BuildRec
    <3>3. \A i \in Dependencies(j) : i \in DOMAIN jobs /\ jobs[i].size # 0
      BY DEF Dependencies, Earlier, TypeOK, JobRec
    <3>4. QED
      BY <2>7, <3>2, <3>3 DEF HandOut
  <2>8. CASE builds[j].pc = "none"
    <3>1. CASE builds'[j] = builds[j]
      BY <1>2, <2>8, <3>1 DEF Untouched
    <3>2. CASE \E n \in Sizes : HandOut(j, n)
      BY <2>2, <2>3, <2>4, <2>7, <3>2
    <3>3. QED
      BY <1>2, <2>1, <2>8, <3>1, <3>2, Fresh
  <2>9. QED
    BY <2>6, <2>8
<1>3. QED
  BY <1>1, <1>2

LEMMA NeedsNext ==
  ASSUME TypeOK, Untouched, Sized, InOrder, NeedsAreSettled, [Next]_vars
  PROVE  NeedsAreSettled'
<1> DEFINE Wanted(j) == {i \in Earlier(j) : Parsed(j).dependencies = NoList
                           \/ \E k \in DOMAIN Parsed(j).dependencies :
                                Parsed(j).dependencies[k] = <<Parsed(i).name>>}
<1>0. NeedsAreSettled <=> \A j \in DOMAIN jobs : builds[j].pc # "none" =>
        /\ builds[j].needs \subseteq Wanted(j)
        /\ \A i \in builds[j].needs : builds[i].pc \in Done /\ builds[i].size > 0
        /\ {i \in Wanted(j) : builds[i].acked /\ builds[i].size > 0} \subseteq builds[j].needs
  BY DEF NeedsAreSettled
<1> SUFFICES ASSUME NEW j \in DOMAIN jobs', builds'[j].pc # "none"
             PROVE  /\ builds'[j].needs \subseteq Wanted(j)'
                    /\ \A i \in builds'[j].needs : builds'[i].pc \in Done /\ builds'[i].size > 0
                    /\ {i \in Wanted(j)' : builds'[i].acked /\ builds'[i].size > 0} \subseteq builds'[j].needs
  BY DEF NeedsAreSettled
<1>1. ~Restart
  BY NoJobs DEF Restart
<1>2. j \in DOMAIN jobs
  BY JobNew DEF NewBuild
<1>3. Wanted(j) \subseteq Earlier(j) /\ Earlier(j) \subseteq DOMAIN jobs
  BY DEF Earlier
<1>4. Wanted(j)' = Wanted(j)
  BY <1>1, <1>2, <1>3, EarlierKept, PlaceKept
<1> HIDE DEF Wanted
<1>5. ASSUME NEW i \in DOMAIN jobs, builds[i].pc \in Done PROVE builds'[i] = builds[i]
  <2>1. builds[i].pc # "none"
    BY <1>5 DEF Done
  <2>2. QED
    BY <1>1, <1>5, <2>1, BuildLater
<1>6. CASE builds[j].pc # "none"
  <2>1. /\ builds[j].needs \subseteq Wanted(j)
        /\ \A i \in builds[j].needs : builds[i].pc \in Done /\ builds[i].size > 0
        /\ {i \in Wanted(j) : builds[i].acked /\ builds[i].size > 0} \subseteq builds[j].needs
    BY <1>0, <1>2, <1>6
  <2>2. \A i \in Wanted(j) : builds[i].pc \in Done /\ i \in DOMAIN jobs
    BY <1>2, <1>3, <1>6 DEF InOrder
  <2>3. builds'[j].needs = builds[j].needs /\ \A i \in Wanted(j) : builds'[i] = builds[i]
    BY <1>1, <1>2, <1>5, <1>6, <2>2, BuildLater
  <2>4. QED
    BY ONLY <1>4, <2>1, <2>3
<1>7. CASE builds[j].pc = "none"
  <2>1. PICK n \in Sizes : HandOut(j, n)
    BY <1>1, <1>2, <1>7, Fresh
  <2>2. builds'[j].needs = Dependencies(j)
    <3>1. builds[j] \in BuildRec /\ DOMAIN builds = DOMAIN jobs
      BY <1>2 DEF TypeOK
    <3>2. QED
      BY <1>2, <2>1, <3>1 DEF HandOut, BuildRec
  <2>3. \A i \in Wanted(j) : builds[i].pc \in Done /\ builds'[i] = builds[i]
    BY <1>3, <1>5, <2>1 DEF HandOut
  <2>4. Dependencies(j) = {i \in Wanted(j) : jobs[i].size > 0}
    BY DEF Dependencies, Wanted
  <2>5. \A i \in Wanted(j) : /\ jobs[i].size > 0 => builds[i].size > 0
                             /\ builds[i].acked /\ builds[i].size > 0 => jobs[i].size > 0
    BY <1>3 DEF Sized, TypeOK, JobRec
  <2>6. QED
    BY ONLY <1>4, <2>2, <2>3, <2>4, <2>5
<1>8. QED
  BY <1>6, <1>7

-----------------------------------------------------------------------------
(* The archives. *)

\* What the archive of a job is does not change once it was handed out.
LEMMA ArchiveKept ==
  ASSUME TypeOK, [Next]_vars, ~Restart, NEW j \in DOMAIN jobs, builds[j].pc # "none"
  PROVE  Archive(j)' = Archive(j)
<1>1. builds'[j].size = builds[j].size /\ life' = life
  BY BuildLater, JobKept
<1>2. QED
  BY <1>1 DEF Archive, Part

LEMMA WholeNext ==
  ASSUME TypeOK, Untouched, Whole, [Next]_vars, backend # "dir",
         \A u \in Uploads : uploads[u].pc # "write"
  PROVE  Whole' /\ \A u \in Uploads : uploads'[u].pc # "write"
<1>1. \A u \in Uploads : ~CreateFile(u) /\ ~WriteBlock(u) /\ ~CloseFile(u)
  BY DEF CreateFile, WriteBlock, CloseFile
<1>2. ASSUME NEW u \in Uploads, uploads'[u].pc = "write" PROVE FALSE
  <2>1. uploads'[u].pc # "idle"
    BY <1>2
  <2>2. TypeOK'
    BY TypeNext
  <2>3. PICK j : j = uploads'[u].job
    OBVIOUS
  <2>4. u \in InFlight(j)' /\ j \in DOMAIN jobs'
    BY <2>1, <2>2, <2>3 DEF InFlight, TypeOK
  <2>5. j \in DOMAIN jobs
    BY <2>4, JobNew
  <2>6. BeginUpload(u, j) \/ uploads'[u] = uploads[u] \/ OpenStore(u, "ok") \/ Put(u)
    BY <1>1, <2>4, <2>5, FlightStep
  <2>7. uploads[u] \in CallRec /\ DOMAIN uploads = Uploads
    BY DEF TypeOK
  <2>8. QED
    BY <1>2, <2>6, <2>7 DEF BeginUpload, OpenStore, Put, CallRec
<1>3. ASSUME NEW j \in DOMAIN jobs',
             jobs'[j].size # 0 \/ (\E u \in InFlight(j)' : uploads'[u].pc = "size")
      PROVE  store'[j] = Archive(j)'
  <2>1. ~Restart
    BY NoJobs DEF Restart
  <2>2. j \in DOMAIN jobs
    BY <1>3, JobNew
  <2>3. builds[j].pc # "none"
    BY <1>3, <2>1, <2>2, Fresh
  <2>4. Archive(j)' = Archive(j)
    BY <2>1, <2>2, <2>3, ArchiveKept
  <2>5. ASSUME NEW u \in InFlight(j), Put(u) PROVE store'[j] = Archive(j)
    BY <2>2, <2>5, Ids DEF Put, InFlight, TypeOK
  <2>6. store'[j] = store[j] \/ store'[j] = Archive(j)
    BY <1>1, <2>1, <2>2, <2>5, StoreStep
  <2>7. CASE jobs'[j].size # 0
    <3>1. ASSUME NEW u \in Uploads, NEW heard, SetSize(u, heard), uploads[u].job = j PROVE store[j] = Archive(j)
      BY <2>2, <3>1 DEF SetSize, InFlight, Whole
    <3>2. jobs[j].size # 0 => store[j] = Archive(j)
      BY <2>2 DEF Whole
    <3>3. QED
      BY <2>1, <2>2, <2>4, <2>6, <2>7, <3>1, <3>2, SizeStep
  <2>8. ASSUME NEW u \in InFlight(j)', uploads'[u].pc = "size" PROVE store'[j] = Archive(j)
    <3>1. uploads[u] \in CallRec /\ DOMAIN uploads = Uploads /\ u \in Uploads
      BY DEF TypeOK, InFlight
    <3>2. ~BeginUpload(u, j) /\ ~OpenStore(u, "ok")
      BY <2>8, <3>1 DEF BeginUpload, OpenStore, CallRec
    <3>3. u \in InFlight(j) /\ (uploads'[u] = uploads[u] \/ Put(u))
      BY <1>1, <2>2, <3>2, FlightStep
    <3>4. QED
      BY <2>2, <2>5, <2>6, <2>8, <3>3 DEF Whole
  <2>9. QED
    BY <1>3, <2>4, <2>7, <2>8
<1>4. QED
  BY <1>2, <1>3 DEF Whole

\* A job with one upload at work: what that upload does to the file.
LEMMA WriterStep ==
  ASSUME TypeOK, InPlace, [Next]_vars, ~Restart, backend = "dir", NEW j \in DOMAIN jobs, ~builds[j].overlap,
         NEW u \in InFlight(j), u \in InFlight(j)'
  PROVE  \/ uploads'[u] = uploads[u] /\ store'[j] = store[j]
         \/ uploads'[u].pc = "put" /\ uploads'[u].wrote = 0
         \/ uploads'[u].pc = "write" /\ uploads'[u].wrote = 0 /\ store'[j] = Part(j, {})
         \/ /\ uploads[u].pc = "write" /\ uploads[u].wrote < builds[j].size
            /\ uploads'[u].pc = "write" /\ uploads'[u].wrote = uploads[u].wrote + 1
            /\ store'[j] = Part(j, (1..uploads[u].wrote) \cup {uploads[u].wrote + 1})
         \/ /\ uploads[u].pc = "write" /\ uploads[u].wrote = builds[j].size
            /\ uploads'[u].pc = "size" /\ store'[j] = store[j]
<1>1. u \in Uploads /\ uploads[u].job = j /\ uploads[u] \in CallRec /\ DOMAIN uploads = Uploads
  BY DEF InFlight, TypeOK
<1>2. j \in 1..MaxID /\ DOMAIN store = 1..MaxID /\ store[j] \in Stored
  BY Ids DEF TypeOK
<1>3. /\ \A v \in InFlight(j) : v = u
      /\ uploads[u].pc \in {"open", "put"} => uploads[u].wrote = 0
      /\ uploads[u].pc = "write" => store[j] = Part(j, 1..uploads[u].wrote)
  BY DEF InPlace
<1>4. ~BeginUpload(u, j) /\ \A v \in Uploads : ~Put(v)
  BY <1>1 DEF Put, BeginUpload, InFlight
<1>5. store'[j] = store[j] \/ CreateFile(u) \/ WriteBlock(u)
  BY <1>3, <1>4, StoreStep
<1>6. ASSUME uploads'[u] = uploads[u] PROVE store'[j] = store[j]
  BY <1>1, <1>5, <1>6 DEF CreateFile, WriteBlock, CallRec
<1>7. ASSUME OpenStore(u, "ok") PROVE uploads'[u].pc = "put" /\ uploads'[u].wrote = 0
  BY <1>1, <1>3, <1>7 DEF OpenStore, CallRec
<1>8. ASSUME CreateFile(u) PROVE uploads'[u].pc = "write" /\ uploads'[u].wrote = 0 /\ store'[j] = Part(j, {})
  BY <1>1, <1>2, <1>3, <1>8 DEF CreateFile, CallRec
<1>9. ASSUME WriteBlock(u)
      PROVE  /\ uploads[u].pc = "write" /\ uploads[u].wrote < builds[j].size
             /\ uploads'[u].pc = "write" /\ uploads'[u].wrote = uploads[u].wrote + 1
             /\ store'[j] = Part(j, (1..uploads[u].wrote) \cup {uploads[u].wrote + 1})
  <2>1. /\ uploads[u].pc = "write" /\ uploads[u].wrote < builds[j].size
        /\ uploads'[u] = [uploads[u] EXCEPT !.wrote = uploads[u].wrote + 1]
        /\ store'[j] = [store[j] EXCEPT !.blocks = store[j].blocks \cup {uploads[u].wrote + 1}]
    BY <1>1, <1>2, <1>9 DEF WriteBlock
  <2>2. store[j] = Part(j, 1..uploads[u].wrote)
    BY <1>3, <2>1
  <2>3. uploads'[u].pc = "write" /\ uploads'[u].wrote = uploads[u].wrote + 1
    BY <1>1, <2>1 DEF CallRec
  <2>4. store'[j] = Part(j, (1..uploads[u].wrote) \cup {uploads[u].wrote + 1})
    <3>1. PICK file : file = store[j]
      OBVIOUS
    <3>2. PICK more : more = {uploads[u].wrote + 1}
      OBVIOUS
    <3>3. PICK had : had = 1..uploads[u].wrote
      OBVIOUS
    <3>4. [file EXCEPT !.blocks = file.blocks \cup more] = Part(j, had \cup more)
      <4>1. file = Part(j, had)
        BY ONLY <2>2, <3>1, <3>3
      <4>2. QED
        BY ONLY <4>1 DEF Part
    <3>5. store'[j] = [file EXCEPT !.blocks = file.blocks \cup more]
      BY ONLY <2>1, <3>1, <3>2
    <3>6. QED
      BY ONLY <3>2, <3>3, <3>4, <3>5
  <2>5. QED
    BY <2>1, <2>3, <2>4
<1>10. ASSUME CloseFile(u)
       PROVE  /\ uploads[u].pc = "write" /\ uploads[u].wrote = builds[j].size
              /\ uploads'[u].pc = "size" /\ store'[j] = store[j]
  BY <1>1, <1>10 DEF CloseFile, CallRec
<1>11. QED
  BY <1>4, <1>6, <1>7, <1>8, <1>9, <1>10, FlightStep

LEMMA InPlaceNext ==
  ASSUME TypeOK, Untouched, InPlace, [Next]_vars, backend = "dir"
  PROVE  InPlace'
<1> SUFFICES ASSUME NEW j \in DOMAIN jobs', ~builds'[j].overlap
             PROVE  /\ \A u, v \in InFlight(j)' : u = v
                    /\ \A u \in InFlight(j)' :
                         /\ uploads'[u].pc \in {"open", "put"} => uploads'[u].wrote = 0
                         /\ uploads'[u].pc = "write" => /\ uploads'[u].wrote <= builds'[j].size
                                                        /\ store'[j] = Part(j, 1..uploads[u].wrote)'
                         /\ uploads'[u].pc = "size" => store'[j] = Archive(j)'
                    /\ builds'[j].acked => InFlight(j)' = {} /\ store'[j] = Archive(j)'
  BY DEF InPlace
<1>1. CASE j \notin DOMAIN jobs
  BY <1>1, JobNew DEF NewBuild
<1>2. CASE j \in DOMAIN jobs
  <2>1. ~Restart
    BY NoJobs DEF Restart
  <2>2. CASE builds[j].pc = "none"
    BY <1>2, <2>1, <2>2, Fresh
  <2>3. CASE builds[j].pc # "none"
    <3>1. Archive(j)' = Archive(j) /\ builds'[j].size = builds[j].size /\ builds[j].size \in Nat
      BY <1>2, <2>1, <2>3, ArchiveKept, BuildLater DEF TypeOK, BuildRec
    <3>2. ~builds[j].overlap /\ life' = life
      BY <1>2, <2>1, FieldStep, JobKept
    <3>3. /\ \A u, v \in InFlight(j) : u = v
          /\ \A u \in InFlight(j) :
               /\ uploads[u].pc \in {"open", "put"} => uploads[u].wrote = 0
               /\ uploads[u].pc = "write" => /\ uploads[u].wrote <= builds[j].size
                                             /\ store[j] = Part(j, 1..uploads[u].wrote)
               /\ uploads[u].pc = "size" => store[j] = Archive(j)
          /\ builds[j].acked => InFlight(j) = {} /\ store[j] = Archive(j)
      BY <1>2, <3>2 DEF InPlace
    \* A first upload: there is no other.
    <3>4. ASSUME NEW u \in Uploads, BeginUpload(u, j)
          PROVE  /\ InFlight(j) = {} /\ InFlight(j)' = {u} /\ ~builds[j].acked
                 /\ uploads'[u].pc = "open" /\ uploads'[u].wrote = 0
      <4>1. uploads' = [uploads EXCEPT ![u] = [pc |-> "open", job |-> j, wrote |-> 0]] /\ ~builds[j].acked
        BY <3>4 DEF BeginUpload
      <4>2. InFlight(j) = {}
        <5>1. builds'[j] = [builds[j] EXCEPT !.overlap = builds[j].overlap \/ InFlight(j) # {}]
          BY <1>2, <3>4 DEF BeginUpload, TypeOK
        <5>2. builds[j] \in BuildRec
          BY <1>2 DEF TypeOK
        <5>3. QED
          BY <5>1, <5>2 DEF BuildRec
      <4>3. QED
        BY <4>1, <4>2 DEF InFlight, TypeOK
    <3>5. CASE \E u \in Uploads : BeginUpload(u, j)
      <4>1. PICK u \in Uploads : BeginUpload(u, j)
        BY <3>5
      <4>2. ~builds'[j].acked
        <5>1. ASSUME NEW v \in Uploads, NEW heard, SetSize(v, heard), uploads[v].job = j PROVE FALSE
          BY <3>4, <4>1, <5>1 DEF SetSize, InFlight
        <5>2. QED
          BY <1>2, <2>1, <3>4, <4>1, <5>1, FieldStep
      <4>3. QED
        BY <3>4, <4>1, <4>2
    <3>6. CASE \A u \in Uploads : ~BeginUpload(u, j)
      <4>1. InFlight(j)' \subseteq InFlight(j)
        BY <1>2, <3>6, FlightStep
      <4>2. \A u, v \in InFlight(j)' : u = v
        BY <3>3, <4>1
      <4>3. ASSUME NEW u \in InFlight(j)'
            PROVE  /\ uploads'[u].pc \in {"open", "put"} => uploads'[u].wrote = 0
                   /\ uploads'[u].pc = "write" => /\ uploads'[u].wrote <= builds'[j].size
                                                  /\ store'[j] = Part(j, 1..uploads[u].wrote)'
                   /\ uploads'[u].pc = "size" => store'[j] = Archive(j)'
        <5>0. u \in InFlight(j) /\ uploads[u].wrote \in Nat
          BY <4>1 DEF InFlight, TypeOK, CallRec
        <5> DEFINE w == uploads'[u].wrote
        <5>1. Part(j, 1..uploads[u].wrote)' = Part(j, 1..w)
          BY <3>2 DEF Part
        <5>2. CASE uploads'[u] = uploads[u] /\ store'[j] = store[j]
          BY <3>1, <3>3, <5>0, <5>1, <5>2
        <5>3. CASE uploads'[u].pc = "put" /\ uploads'[u].wrote = 0
          BY <5>3
        <5>4. CASE uploads'[u].pc = "write" /\ uploads'[u].wrote = 0 /\ store'[j] = Part(j, {})
          <6>1. {} = 1..0
            OBVIOUS
          <6>2. QED
            BY <3>1, <5>1, <5>4, <6>1
        <5>5. CASE /\ uploads[u].pc = "write" /\ uploads[u].wrote < builds[j].size
                   /\ uploads'[u].pc = "write" /\ uploads'[u].wrote = uploads[u].wrote + 1
                   /\ store'[j] = Part(j, (1..uploads[u].wrote) \cup {uploads[u].wrote + 1})
          <6>1. (1..uploads[u].wrote) \cup {uploads[u].wrote + 1} = 1..w
            BY <5>0, <5>5
          <6>2. w <= builds[j].size
            BY <3>1, <5>0, <5>5
          <6>3. QED
            BY <3>1, <5>1, <5>5, <6>1, <6>2
        <5>6. CASE /\ uploads[u].pc = "write" /\ uploads[u].wrote = builds[j].size
                   /\ uploads'[u].pc = "size" /\ store'[j] = store[j]
          BY <3>1, <3>3, <5>0, <5>6 DEF Archive
        <5>7. QED
          BY <1>2, <2>1, <3>2, <5>0, <5>2, <5>3, <5>4, <5>5, <5>6, WriterStep
      <4>4. ASSUME builds'[j].acked PROVE InFlight(j)' = {} /\ store'[j] = Archive(j)
        <5>1. CASE builds[j].acked
          BY <1>2, <2>1, <3>3, <4>1, <5>1, StoreStep
        <5>2. CASE ~builds[j].acked
          <6>1. PICK u \in Uploads, heard \in BOOLEAN : SetSize(u, heard) /\ uploads[u].job = j
            BY <1>2, <2>1, <4>4, <5>2, FieldStep
          <6>2. u \in InFlight(j) /\ store[j] = Archive(j) /\ store' = store
            BY <3>3, <6>1 DEF SetSize, InFlight
          <6>3. u \notin InFlight(j)'
            BY <6>1, IdleShape DEF SetSize, InFlight, TypeOK
          <6>4. QED
            BY <3>3, <4>1, <6>2, <6>3
        <5>3. QED
          BY <5>1, <5>2
      <4>5. QED
        BY <3>1, <4>2, <4>3, <4>4
    <3>7. QED
      BY <3>5, <3>6
  <2>4. QED
    BY <2>2, <2>3
<1>3. QED
  BY <1>1, <1>2

\* What was fetched came from a job that was over, and stays what it was.
LEMMA DownloadNext ==
  ASSUME TypeOK, Untouched, Sized, InOrder, NeedsAreSettled, DownloadIsWhole,
         backend = "dir" => InPlace, backend # "dir" => Whole, [Next]_vars
  PROVE  DownloadIsWhole'
<1> SUFFICES ASSUME NEW j \in DOMAIN jobs', NEW g \in builds'[j].got,
                    backend' = "dir" => builds'[g.job].pc = "success" /\ ~builds'[g.job].overlap
             PROVE  g.what = Archive(g.job)'
  BY DEF DownloadIsWhole
<1>1. ~Restart
  BY NoJobs DEF Restart
<1>2. j \in DOMAIN jobs
  BY JobNew DEF NewBuild
<1>3. ASSUME NEW i \in builds[j].needs
      PROVE  /\ i \in DOMAIN jobs /\ builds[i].pc \in Done /\ builds[i].pc # "none" /\ jobs[i].size # 0
             /\ builds'[i] = builds[i] /\ Archive(i)' = Archive(i)
  <2>1. builds[j].pc # "none"
    BY <1>2, <1>3 DEF Untouched
  <2>2. i \in DOMAIN jobs /\ builds[i].pc \in Done /\ jobs[i].size # 0
    BY <1>2, <1>3, <2>1 DEF TypeOK, InOrder, NeedsAreSettled
  <2>3. builds[i].pc # "none"
    BY <2>2 DEF Done
  <2>4. QED
    BY <1>1, <2>2, <2>3, BuildLater, ArchiveKept
<1>4. backend' = backend
  BY <1>1, <1>2, JobKept
<1>5. CASE g \in builds[j].got
  <2>1. g.job \in builds[j].needs
    BY <1>2, <1>5 DEF TypeOK, Got
  <2>2. g.what = Archive(g.job)
    BY <1>2, <1>3, <1>4, <1>5, <2>1 DEF DownloadIsWhole
  <2>3. QED
    BY <1>3, <2>1, <2>2
<1>6. CASE g \notin builds[j].got
  <2>1. PICK i \in DOMAIN jobs : Download(j, i) /\ g = [job |-> i, what |-> store[i]]
    BY <1>1, <1>2, <1>6, FieldStep
  <2>2. i \in builds[j].needs
    BY <2>1 DEF Download
  <2>3. store[i] = Archive(i)
    <3>1. CASE backend # "dir"
      BY <1>3, <2>2, <3>1 DEF Whole
    <3>2. CASE backend = "dir"
      <4>1. builds[i].pc = "success" /\ ~builds[i].overlap
        BY <1>3, <1>4, <2>1, <2>2, <3>2
      <4>2. builds[i].acked
        BY <1>3, <2>2, <4>1 DEF Sized
      <4>3. QED
        BY <1>3, <2>2, <3>2, <4>1, <4>2 DEF InPlace
    <3>3. QED
      BY <3>1, <3>2
  <2>4. QED
    BY <1>3, <2>1, <2>2, <2>3
<1>7. QED
  BY <1>5, <1>6

-----------------------------------------------------------------------------
LEMMA IInvInit == Init => IInv
<1> SUFFICES ASSUME Init PROVE IInv
  OBVIOUS
<1>1. DOMAIN jobs = {} /\ DOMAIN pipelines = {} /\ DOMAIN builds = {}
  BY NoJobs DEF Init
<1>2. Nothing \in Stored /\ IdleCall \in CallRec /\ IdleCall.pc = "idle"
  BY BoundsAssumption, IdleShape DEF Nothing, Stored
<1>3. TypeOK
  <2>1. store \in [1..MaxID -> Stored] /\ uploads \in [Uploads -> CallRec] /\ \A u \in Uploads : uploads[u].pc = "idle"
    BY <1>2 DEF Init
  <2>2. backend \in Backends /\ opened = "no" /\ life \in 1..MaxLives /\ nextID \in 1..(MaxID + 1)
    BY BoundsAssumption DEF Init
  <2>3. QED
    BY <1>1, <2>1, <2>2 DEF TypeOK
<1>4. \A u \in Uploads : uploads[u].pc # "write"
  BY <1>2 DEF Init
<1>5. QED
  BY <1>1, <1>3, <1>4 DEF IInv, Untouched, Sized, InOrder, Whole, InPlace, NeedsAreSettled, DownloadIsWhole

LEMMA IInvNext == IInv /\ [Next]_vars => IInv'
<1> SUFFICES ASSUME IInv, [Next]_vars PROVE IInv'
  OBVIOUS
<1>1. /\ TypeOK /\ Untouched /\ Sized /\ InOrder /\ NeedsAreSettled /\ DownloadIsWhole
      /\ backend = "dir" => InPlace
      /\ backend # "dir" => Whole /\ \A u \in Uploads : uploads[u].pc # "write"
  BY DEF IInv
<1>2. TypeOK' /\ Untouched' /\ Sized' /\ InOrder'
  BY <1>1, TypeNext, UntouchedNext, SizedNext, InOrderNext
<1>3. NeedsAreSettled' /\ DownloadIsWhole'
  BY <1>1, NeedsNext, DownloadNext
<1>4. backend' = backend
  BY Steps DEF CreatePipeline, HandOut, Finish, Download, BeginUpload, OpenStore, Put, CreateFile, WriteBlock,
     CloseFile, PutFails, SetSize, Restart, vars
<1>5. CASE backend = "dir"
  BY <1>1, <1>2, <1>3, <1>4, <1>5, InPlaceNext DEF IInv
<1>6. CASE backend # "dir"
  BY <1>1, <1>2, <1>3, <1>4, <1>6, WholeNext DEF IInv
<1>7. QED
  BY <1>5, <1>6

\* Reachable states satisfy the inductive invariant: whatever the runners, the
\* uploads and the restarts of the server do (artifacts.go, runner_api.go).
THEOREM ArtifactInvariance == Spec => []IInv
BY IInvInit, IInvNext, PTL DEF Spec

\* The records of jobs, uploads and files keep their shape, and nobody refers
\* to a job that is not there.
THEOREM TypeCorrect == Spec => []TypeOK
<1>1. IInv => TypeOK
  BY DEF IInv
<1>2. QED
  BY <1>1, ArtifactInvariance, PTL

\* What buildDependenciesLocked lists is every accepted archive of an earlier,
\* wanted job, and no job that still runs, for every configuration.
THEOREM NeedsSettled == Spec => []NeedsAreSettled
<1>1. IInv => NeedsAreSettled
  BY DEF IInv
<1>2. QED
  BY <1>1, ArtifactInvariance, PTL

\* What handleArtifactDownload answers is the whole archive of the job the
\* runner asked for, for every store, number of uploads and of restarts.
THEOREM DownloadsWhole == Spec => []DownloadIsWhole
<1>1. IInv => DownloadIsWhole
  BY DEF IInv
<1>2. QED
  BY <1>1, ArtifactInvariance, PTL

-----------------------------------------------------------------------------
(* What is needed is there. *)

\* An upload that writes has a store that is open, and an archive of its own
\* job in it; so has a job whose size is set.
Provided ==
  /\ \A u \in Uploads : uploads[u].pc \in {"put", "write", "size"} => opened = "ok"
  /\ \A j \in DOMAIN jobs :
       /\ jobs[j].size # 0 => opened = "ok" /\ store[j].of = <<j, life>>
       /\ \A u \in InFlight(j) : uploads[u].pc \in {"write", "size"} => store[j].of = <<j, life>>

\* A store that is open stays so while the server runs.
LEMMA OpenedStep ==
  ASSUME TypeOK, [Next]_vars, ~Restart, opened = "ok"
  PROVE  opened' = "ok"
BY Steps DEF CreatePipeline, HandOut, Finish, Download, BeginUpload, OpenStore, Put, CreateFile, WriteBlock,
   CloseFile, PutFails, SetSize, vars

\* What is stored under the number of a job stays of that job.
LEMMA OwnerStep ==
  ASSUME TypeOK, [Next]_vars, ~Restart, NEW j \in DOMAIN jobs
  PROVE  /\ store[j].of = <<j, life>> => store'[j].of = <<j, life>>
         /\ \A u \in InFlight(j) : Put(u) \/ CreateFile(u) => store'[j].of = <<j, life>>
<1>1. j \in 1..MaxID /\ store[j] \in Stored /\ DOMAIN store = 1..MaxID
  BY Ids DEF TypeOK
<1>2. ASSUME NEW u \in InFlight(j), Put(u) \/ CreateFile(u) PROVE store'[j].of = <<j, life>>
  <2>1. u \in Uploads /\ uploads[u].job = j
    BY DEF InFlight
  <2>2. \E blocks : store' = [store EXCEPT ![j] = Part(j, blocks)]
    BY <1>2, <2>1 DEF Put, CreateFile, Archive, Part
  <2>3. QED
    BY <1>1, <2>2 DEF Part
<1>3. ASSUME NEW u \in InFlight(j), WriteBlock(u) PROVE store'[j].of = store[j].of
  BY <1>1, <1>3 DEF WriteBlock, InFlight, Stored
<1>4. ASSUME store[j].of = <<j, life>> PROVE store'[j].of = <<j, life>>
  <2>1. CASE store'[j] = store[j]
    BY <1>4, <2>1
  <2>2. CASE \E u \in InFlight(j) : Put(u) \/ CreateFile(u) \/ WriteBlock(u)
    BY <1>2, <1>3, <1>4, <2>2
  <2>3. QED
    BY <2>1, <2>2, StoreStep
<1>5. QED
  BY ONLY <1>2, <1>4

LEMMA ProvidedNext == IInv /\ Provided /\ [Next]_vars => Provided'
<1> SUFFICES ASSUME IInv, Provided, [Next]_vars PROVE Provided'
  OBVIOUS
<1>0. TypeOK /\ Untouched /\ TypeOK'
  BY TypeNext DEF IInv
<1>1. ASSUME NEW u \in Uploads, uploads'[u].pc \in {"put", "write", "size"} PROVE opened' = "ok"
  <2>1. PICK j : j = uploads'[u].job
    OBVIOUS
  <2>2. u \in InFlight(j)' /\ j \in DOMAIN jobs'
    BY <1>0, <1>1, <2>1 DEF InFlight, TypeOK
  <2>3. j \in DOMAIN jobs
    BY <1>0, <2>2, JobNew
  <2>4. ~Restart /\ uploads[u] \in CallRec /\ DOMAIN uploads = Uploads
    BY <1>0, <2>2, <2>3, FlightStep DEF TypeOK
  <2>5. CASE BeginUpload(u, j)
    BY <1>1, <2>4, <2>5 DEF BeginUpload
  <2>6. CASE OpenStore(u, "ok")
    BY <2>6 DEF OpenStore
  <2>7. CASE uploads'[u] = uploads[u] \/ Put(u) \/ CreateFile(u) \/ WriteBlock(u) \/ CloseFile(u)
    <3>1. opened = "ok"
      BY <1>1, <2>7 DEF Provided, Put, CreateFile, WriteBlock, CloseFile
    <3>2. QED
      BY <1>0, <2>4, <3>1, OpenedStep
  <2>8. QED
    BY <1>0, <2>2, <2>3, <2>5, <2>6, <2>7, FlightStep
<1>2. ASSUME NEW j \in DOMAIN jobs', j \notin DOMAIN jobs PROVE jobs'[j].size = 0 /\ InFlight(j)' = {}
  BY <1>0, <1>2, JobNew
<1>3. ASSUME NEW j \in DOMAIN jobs, ~Restart, jobs'[j].size # 0
      PROVE  opened' = "ok" /\ store'[j].of = <<j, life'>>
  <2>1. opened = "ok" /\ store[j].of = <<j, life>>
    <3>1. CASE jobs[j].size # 0
      BY <3>1 DEF Provided
    <3>2. CASE \E u \in Uploads, heard \in BOOLEAN : SetSize(u, heard) /\ uploads[u].job = j
      BY <3>2 DEF Provided, SetSize, InFlight
    <3>3. QED
      BY <1>0, <1>3, <3>1, <3>2, SizeStep
  <2>2. QED
    BY <1>0, <1>3, <2>1, OpenedStep, OwnerStep, JobKept
<1>4. ASSUME NEW j \in DOMAIN jobs, ~Restart, NEW u \in InFlight(j)', uploads'[u].pc \in {"write", "size"}
      PROVE  store'[j].of = <<j, life'>>
  <2>1. uploads[u] \in CallRec /\ DOMAIN uploads = Uploads /\ life' = life
    BY <1>0, <1>4, JobKept DEF TypeOK, InFlight
  <2>2. CASE BeginUpload(u, j) \/ OpenStore(u, "ok")
    BY <1>4, <2>1, <2>2 DEF BeginUpload, OpenStore, CallRec, InFlight
  <2>3. CASE u \in InFlight(j) /\ (Put(u) \/ CreateFile(u))
    BY <1>0, <1>4, <2>1, <2>3, OwnerStep
  <2>4. CASE u \in InFlight(j) /\ (uploads'[u] = uploads[u] \/ WriteBlock(u) \/ CloseFile(u))
    <3>1. uploads[u].pc \in {"write", "size"}
      BY <1>4, <2>4 DEF WriteBlock, CloseFile
    <3>2. store[j].of = <<j, life>>
      BY <2>4, <3>1 DEF Provided
    <3>3. QED
      BY <1>0, <1>4, <2>1, <3>2, OwnerStep
  <2>5. QED
    BY <1>0, <1>4, <2>2, <2>3, <2>4, FlightStep
<1>5. CASE Restart
  BY <1>1, <1>5, NoJobs DEF Restart, Provided
<1>6. CASE ~Restart
  BY <1>1, <1>2, <1>3, <1>4, <1>6 DEF Provided
<1>7. QED
  BY <1>5, <1>6

\* A runner is only told of archives that are there to be downloaded, however
\* uploads fail, repeat and overlap and however often the server starts
\* (buildDependenciesLocked, handleArtifactUpload, getArtifactStore).
THEOREM NeedsThere == Spec => []NeedsAreThere
<1>1. Init => Provided
  BY NoJobs DEF Init, Provided, IdleCall
<1>2. IInv /\ Provided => NeedsAreThere
  BY DEF IInv, InOrder, Provided, NeedsAreThere, TypeOK
<1>3. QED
  BY <1>1, <1>2, ProvidedNext, ArtifactInvariance, PTL DEF Spec
=============================================================================
