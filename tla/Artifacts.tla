----------------------------- MODULE Artifacts -----------------------------
(***************************************************************************)
(* The artifacts of CI jobs: uploads by runners, the three kinds of store  *)
(* behind them, the dependencies a runner is told of with its job, and the *)
(* downloads (artifacts.go, runner_api.go).                                *)
(*                                                                         *)
(* Jobs are numbered from 1 by every server that starts, and an archive is *)
(* kept under the number of its job, so what a store holds is named by the *)
(* job and the life of the server that made it.  Module Pipelines has how  *)
(* jobs come to be offered; here a job may be taken as soon as all jobs of *)
(* earlier stages have a verdict, which Pipelines!StageOrder promises.     *)
(***************************************************************************)
EXTENDS Naturals, Sequences, FiniteSets

CONSTANTS
  Configs,   \* parsed configurations: [stages, jobs], see CIConfig
  NoList,    \* Go's nil slice: no dependencies keyword
  Backends,  \* the stores the deployment may have: "mem", "dir", "s3"
  Sizes,     \* the sizes an archive may have, in blocks
  Uploads,   \* upload handlers that may be in flight at once
  MaxLives,  \* bound: how often a server starts
  MaxID      \* bound on the ids the server hands out

ASSUME BackendsAssumption == Backends \subseteq {"mem", "dir", "s3"}
ASSUME SizesAssumption    == Sizes \subseteq Nat
ASSUME BoundsAssumption   == MaxLives \in Nat \ {0} /\ MaxID \in Nat
\* The jobs of a configuration are a slice.
ASSUME ConfigsAssumption  ==
  \A cfg \in Configs : Len(cfg.jobs) \in Nat /\ DOMAIN cfg.jobs = 1..Len(cfg.jobs)

VARIABLES
  backend,  \* which store the environment variables select
  life,     \* how often the server has started
  nextID,   \* s.nextID
  pipelines, \* s.pipelines: id -> the parsed configuration
  jobs,     \* s.jobs: id -> [pipeline, spec, size], spec its place in the configuration
  store,    \* the artifact store: id -> [of, blocks]
  opened,   \* s.artifactsOnce with its outcome: "no", "ok", "error"
  uploads,  \* the upload handlers: [pc, job, wrote]
  builds    \* what the runners know: id -> [pc, size, acked, overlap, needs, got]

vars == <<backend, life, nextID, pipelines, jobs, store, opened, uploads, builds>>

Done     == {"success", "failed"}
IdleCall == [pc |-> "idle", job |-> 0, wrote |-> 0]
Nothing  == [of |-> <<0, 0>>, blocks |-> {}]  \* no file under that number

\* Some blocks of the archive of job j, the others zeros or missing.
Part(j, blocks) == [of |-> <<j, life>>, blocks |-> blocks]
Archive(j)      == Part(j, 1..builds[j].size)

Stored   == [of : (0..MaxID) \X (0..MaxLives), blocks : SUBSET Nat]
JobRec   == [pipeline : 1..MaxID, spec : Nat \ {0}, size : Nat]
CallRec  == [pc : {"idle", "open", "put", "write", "size"}, job : 0..MaxID, wrote : Nat]
Fetched  == [job : 1..MaxID, what : Stored]
BuildRec == [pc : {"none", "running"} \cup Done, size : Nat, acked : BOOLEAN, overlap : BOOLEAN,
             needs : SUBSET (1..MaxID), got : SUBSET Fetched]

Got(j) == {g.job : g \in builds[j].got}  \* the dependencies that the runner of j has fetched

TypeOK ==
  /\ backend \in Backends /\ opened \in {"no", "ok", "error"}
  /\ life \in 1..MaxLives /\ nextID \in 1..(MaxID + 1)
  /\ DOMAIN jobs \subseteq 1..(nextID - 1) \ DOMAIN pipelines /\ DOMAIN builds = DOMAIN jobs
  /\ \A p \in DOMAIN pipelines : p \in 1..(nextID - 1) /\ pipelines[p] \in Configs
  /\ \A j \in DOMAIN jobs : /\ jobs[j] \in JobRec /\ jobs[j].pipeline \in DOMAIN pipelines
                            /\ jobs[j].spec \in DOMAIN pipelines[jobs[j].pipeline].jobs
  /\ store \in [1..MaxID -> Stored]
  /\ uploads \in [Uploads -> CallRec]
  /\ \A u \in Uploads : uploads[u].pc # "idle" => uploads[u].job \in DOMAIN jobs
  /\ \A j \in DOMAIN jobs : /\ builds[j] \in BuildRec /\ builds[j].needs \subseteq DOMAIN jobs
                            /\ Got(j) \subseteq builds[j].needs

Init ==
  /\ backend \in Backends
  /\ life = 1 /\ nextID = 1 /\ pipelines = << >> /\ jobs = << >> /\ builds = << >> /\ opened = "no"
  /\ store = [j \in 1..MaxID |-> Nothing]
  /\ uploads = [u \in Uploads |-> IdleCall]

Parsed(j)   == pipelines[jobs[j].pipeline].jobs[jobs[j].spec]  \* the parsed job that j was made of
InFlight(j) == {u \in Uploads : uploads[u].pc # "idle" /\ uploads[u].job = j}

\* stageIndex: the first place of a stage in the order of the pipeline's, 0 for none.
StageIndex(stages, stage) ==
  IF \E i \in DOMAIN stages : stages[i] = stage
  THEN CHOOSE i \in DOMAIN stages : stages[i] = stage /\ \A k \in 1..(i - 1) : stages[k] # stage
  ELSE 0
MyStage(j) == StageIndex(pipelines[jobs[j].pipeline].stages, Parsed(j).stage)

Earlier(j) == {i \in DOMAIN jobs : /\ jobs[i].pipeline = jobs[j].pipeline
                                   /\ 0 < MyStage(i) /\ MyStage(i) < MyStage(j)}

\* Faulty variant of Dependencies: jobs of the own stage count too.
DependenciesOfStage(j) ==
  LET listed == Parsed(j).dependencies IN
    {i \in DOMAIN jobs : /\ jobs[i].pipeline = jobs[j].pipeline /\ i # j
                         /\ 0 < MyStage(i) /\ MyStage(i) <= MyStage(j)
                         /\ listed # NoList => \E k \in DOMAIN listed : listed[k] = <<Parsed(i).name>>
                         /\ jobs[i].size > 0}

\* buildDependenciesLocked: earlier jobs with an archive, those of the list if
\* there is one, even if it is empty.
Dependencies(j) ==
  LET listed == Parsed(j).dependencies IN
    {i \in Earlier(j) : /\ listed # NoList => \E k \in DOMAIN listed : listed[k] = <<Parsed(i).name>>
                        /\ jobs[i].size > 0}

-----------------------------------------------------------------------------
(* Jobs, as far as artifacts depend on them *)

\* createPipelineLocked
CreatePipeline(cfg) ==
  LET ids == (nextID + 1)..(nextID + Len(cfg.jobs)) IN
    /\ nextID + Len(cfg.jobs) <= MaxID
    /\ nextID' = nextID + Len(cfg.jobs) + 1
    /\ pipelines' = [p \in DOMAIN pipelines \cup {nextID} |->
                       IF p = nextID THEN cfg ELSE pipelines[p]]
    /\ jobs' = [j \in DOMAIN jobs \cup ids |->
                  IF j \in ids THEN [pipeline |-> nextID, spec |-> j - nextID, size |-> 0]
                  ELSE jobs[j]]
    /\ builds' = [j \in DOMAIN jobs \cup ids |->
                    IF j \in ids THEN [pc |-> "none", size |-> 0, acked |-> FALSE,
                                       overlap |-> FALSE, needs |-> {}, got |-> {}]
                    ELSE builds[j]]
    /\ UNCHANGED <<backend, life, store, opened, uploads>>

\* A runner is given job j; it will produce an archive of n blocks.
HandOut(j, n) ==
  /\ builds[j].pc = "none"
  /\ MyStage(j) # 0
  /\ Parsed(j).artifacts = << >> => n = 0
  /\ \A i \in Earlier(j) : builds[i].pc \in Done
  /\ builds' = [builds EXCEPT ![j].pc = "running", ![j].size = n, ![j].needs = Dependencies(j)]
  /\ UNCHANGED <<backend, life, nextID, pipelines, jobs, store, opened, uploads>>

\* The runner reports its verdict: a job whose dependencies did not all come,
\* or whose archive was not taken, fails.
Finish(j, verdict) ==
  /\ builds[j].pc = "running"
  /\ verdict = "success" => Got(j) = builds[j].needs
                            /\ (Parsed(j).artifacts # << >> => builds[j].acked)
  /\ builds' = [builds EXCEPT ![j].pc = verdict]
  /\ UNCHANGED <<backend, life, nextID, pipelines, jobs, store, opened, uploads>>

-----------------------------------------------------------------------------
(* handleArtifactUpload *)

\* The job is looked up, its token compared and the body read.  The runner
\* tries again when no answer comes, and the first request may still be at work.
BeginUpload(u, j) ==
  /\ uploads[u].pc = "idle"
  /\ builds[j].pc = "running" /\ ~builds[j].acked
  /\ Parsed(j).artifacts # << >>
  /\ uploads' = [uploads EXCEPT ![u] = [pc |-> "open", job |-> j, wrote |-> 0]]
  /\ builds' = [builds EXCEPT ![j].overlap = @ \/ InFlight(j) # {}]
  /\ UNCHANGED <<backend, life, nextID, pipelines, jobs, store, opened>>

\* Faulty variant of OpenStore: only the first use is told that it failed.
OpenStoreOnce(u, outcome) ==
  /\ uploads[u].pc = "open"
  /\ IF opened = "no" THEN backend = "mem" => outcome = "ok" ELSE outcome = "ok"
  /\ opened' = IF opened = "no" THEN outcome ELSE opened
  /\ uploads' = [uploads EXCEPT ![u] = IF outcome = "ok" THEN [@ EXCEPT !.pc = "put"] ELSE IdleCall]
  /\ UNCHANGED <<backend, life, nextID, pipelines, jobs, store, builds>>

\* getArtifactStore: the first use decides for all.
OpenStore(u, outcome) ==
  /\ uploads[u].pc = "open"
  /\ IF opened = "no" THEN backend = "mem" => outcome = "ok" ELSE outcome = opened
  /\ opened' = outcome
  /\ uploads' = [uploads EXCEPT ![u] = IF outcome = "ok" THEN [@ EXCEPT !.pc = "put"] ELSE IdleCall]
  /\ UNCHANGED <<backend, life, nextID, pipelines, jobs, store, builds>>

\* Faulty variant of Put: what is there already is not written again.
PutOnce(u) ==
  LET j == uploads[u].job IN
    /\ uploads[u].pc = "put" /\ backend \in {"mem", "s3"}
    /\ store' = IF store[j] = Nothing THEN [store EXCEPT ![j] = Archive(j)] ELSE store
    /\ uploads' = [uploads EXCEPT ![u].pc = "size"]
    /\ UNCHANGED <<backend, life, nextID, pipelines, jobs, opened, builds>>

\* A map entry, or an object that appears whole when the file is closed.
Put(u) ==
  LET j == uploads[u].job IN
    /\ uploads[u].pc = "put" /\ backend \in {"mem", "s3"}
    /\ store' = [store EXCEPT ![j] = Archive(j)]
    /\ uploads' = [uploads EXCEPT ![u].pc = "size"]
    /\ UNCHANGED <<backend, life, nextID, pipelines, jobs, opened, builds>>

\* Faulty variant of CreateFile: a file that is there keeps what it has.
CreateFileKept(u) ==
  LET j == uploads[u].job IN
    /\ uploads[u].pc = "put" /\ backend = "dir"
    /\ store' = IF store[j] = Nothing THEN [store EXCEPT ![j] = Part(j, {})] ELSE store
    /\ uploads' = [uploads EXCEPT ![u].pc = "write"]
    /\ UNCHANGED <<backend, life, nextID, pipelines, jobs, opened, builds>>

\* In a directory the file is truncated and then written in place.
CreateFile(u) ==
  LET j == uploads[u].job IN
    /\ uploads[u].pc = "put" /\ backend = "dir"
    /\ store' = [store EXCEPT ![j] = Part(j, {})]
    /\ uploads' = [uploads EXCEPT ![u].pc = "write"]
    /\ UNCHANGED <<backend, life, nextID, pipelines, jobs, opened, builds>>

WriteBlock(u) ==
  LET j == uploads[u].job IN
    /\ uploads[u].pc = "write" /\ uploads[u].wrote < builds[j].size
    /\ store' = [store EXCEPT ![j].blocks = @ \cup {uploads[u].wrote + 1}]
    /\ uploads' = [uploads EXCEPT ![u].wrote = @ + 1]
    /\ UNCHANGED <<backend, life, nextID, pipelines, jobs, opened, builds>>

CloseFile(u) ==
  /\ uploads[u].pc = "write" /\ uploads[u].wrote = builds[uploads[u].job].size
  /\ uploads' = [uploads EXCEPT ![u].pc = "size"]
  /\ UNCHANGED <<backend, life, nextID, pipelines, jobs, store, opened, builds>>

\* The store fails: 500, and what was written stays.
PutFails(u) ==
  /\ uploads[u].pc \in {"put", "write"} /\ backend # "mem"
  /\ uploads' = [uploads EXCEPT ![u] = IdleCall]
  /\ UNCHANGED <<backend, life, nextID, pipelines, jobs, store, opened, builds>>

\* The size is set; the 201 reaches the runner, or is lost.
SetSize(u, heard) ==
  LET j == uploads[u].job IN
    /\ uploads[u].pc = "size"
    /\ jobs' = [jobs EXCEPT ![j].size = builds[j].size]
    /\ builds' = [builds EXCEPT ![j].acked = @ \/ (heard /\ builds[j].pc = "running")]
    /\ uploads' = [uploads EXCEPT ![u] = IdleCall]
    /\ UNCHANGED <<backend, life, nextID, pipelines, store, opened>>

-----------------------------------------------------------------------------
\* handleArtifactDownload, with the token and the number that the runner of j
\* was given for its dependency i.
Download(j, i) ==
  /\ builds[j].pc = "running"
  /\ i \in builds[j].needs \ Got(j)
  /\ opened = "ok"
  /\ builds' = [builds EXCEPT ![j].got = @ \cup {[job |-> i, what |-> store[i]]}]
  /\ UNCHANGED <<backend, life, nextID, pipelines, jobs, store, opened, uploads>>

\* The server stops at any point and starts again.  Runners that still hold
\* jobs of it are refused from now on: tokens are not kept.
Restart ==
  /\ life < MaxLives
  /\ life' = life + 1 /\ nextID' = 1 /\ pipelines' = << >> /\ jobs' = << >> /\ builds' = << >> /\ opened' = "no"
  /\ store' = IF backend = "mem" THEN [j \in 1..MaxID |-> Nothing] ELSE store
  /\ uploads' = [u \in Uploads |-> IdleCall]
  /\ UNCHANGED backend

Upload(u) ==
  \/ \E j \in DOMAIN jobs : BeginUpload(u, j)
  \/ \E outcome \in {"ok", "error"} : OpenStore(u, outcome)
  \/ Put(u) \/ CreateFile(u) \/ WriteBlock(u) \/ CloseFile(u) \/ PutFails(u)
  \/ \E heard \in BOOLEAN : SetSize(u, heard)

Next ==
  \/ \E cfg \in Configs : CreatePipeline(cfg)
  \/ \E j \in DOMAIN jobs :
       \/ \E n \in Sizes : HandOut(j, n)
       \/ \E verdict \in Done : Finish(j, verdict)
       \/ \E i \in DOMAIN jobs : Download(j, i)
  \/ \E u \in Uploads : Upload(u)
  \/ Restart

Spec == Init /\ [][Next]_vars

-----------------------------------------------------------------------------
(* Properties *)

\* A runner that fetches a dependency gets the whole archive of that very job:
\* not nothing, not a part, and not what a server that ran before kept under
\* the same number (artifacts.go:63,170-176,206, runner_api.go:266-268).  In a
\* directory, where archives are written in place, this takes a job that has
\* succeeded and whose uploads did not overlap.
DownloadIsWhole ==
  \A j \in DOMAIN jobs : \A g \in builds[j].got :
    (backend = "dir" => builds[g.job].pc = "success" /\ ~builds[g.job].overlap)
      => g.what = Archive(g.job)

\* What a runner is told to fetch is settled when it is told: every archive of
\* an earlier, wanted job that the job's runner saw accepted, and none of a job
\* that may still run (runner_api.go:224-230,245-272).
NeedsAreSettled ==
  \A j \in DOMAIN jobs : builds[j].pc # "none" =>
    LET listed == Parsed(j).dependencies
        wanted == {i \in Earlier(j) : listed = NoList
                                        \/ \E k \in DOMAIN listed : listed[k] = <<Parsed(i).name>>}
    IN /\ builds[j].needs \subseteq wanted
       /\ \A i \in builds[j].needs : builds[i].pc \in Done /\ builds[i].size > 0
       /\ {i \in wanted : builds[i].acked /\ builds[i].size > 0} \subseteq builds[j].needs

\* What a runner is told to fetch is there: the store is open and has, under the
\* number of the job, an archive of that very job, whole or, in a directory that
\* a later upload writes to, in part.  So a download is not answered with 404 or
\* 500 for want of it, whatever uploads fail, repeat or overlap (artifacts.go:34,
\* 165-176,199-212).
NeedsAreThere ==
  \A j \in DOMAIN jobs : \A i \in builds[j].needs : opened = "ok" /\ store[i].of = <<i, life>>

(* Why these hold: an inductive invariant. *)

\* A job that was not handed out has nothing yet.
Untouched == \A j \in DOMAIN jobs : builds[j].pc = "none" =>
  /\ jobs[j].size = 0 /\ ~builds[j].acked /\ InFlight(j) = {} /\ builds[j].needs = {}

\* The size the server has, none before an upload came through, is that of the
\* archive, and the runner has seen no answer before; only a job with artifacts
\* has any; one that succeeded has.
Sized == \A j \in DOMAIN jobs :
  /\ jobs[j].size = 0 \/ jobs[j].size = builds[j].size
  /\ builds[j].acked => jobs[j].size = builds[j].size
  /\ jobs[j].size # 0 => Parsed(j).artifacts # << >>
  /\ \A u \in InFlight(j) : Parsed(j).artifacts # << >>
  /\ builds[j].pc = "success" /\ Parsed(j).artifacts # << >> => builds[j].acked

\* Jobs of earlier stages are over, and what is needed of them is there.
InOrder == \A j \in DOMAIN jobs :
  /\ builds[j].pc # "none" => \A i \in Earlier(j) : builds[i].pc \in Done
  /\ \A i \in builds[j].needs : jobs[i].size # 0

\* Where an archive appears whole, it is there before its size is set.
Whole == \A j \in DOMAIN jobs :
  jobs[j].size # 0 \/ (\E u \in InFlight(j) : uploads[u].pc = "size") => store[j] = Archive(j)

\* In a directory, the upload of a job whose uploads do not overlap is alone in
\* its file, and none comes after one that was answered.
InPlace == \A j \in DOMAIN jobs : ~builds[j].overlap =>
  /\ \A u, v \in InFlight(j) : u = v
  /\ \A u \in InFlight(j) :
       /\ uploads[u].pc \in {"open", "put"} => uploads[u].wrote = 0
       /\ uploads[u].pc = "write" => /\ uploads[u].wrote <= builds[j].size
                                     /\ store[j] = Part(j, 1..uploads[u].wrote)
       /\ uploads[u].pc = "size" => store[j] = Archive(j)
  /\ builds[j].acked => InFlight(j) = {} /\ store[j] = Archive(j)

IInv ==
  /\ TypeOK /\ Untouched /\ Sized /\ InOrder
  /\ IF backend = "dir" THEN InPlace ELSE Whole /\ \A u \in Uploads : uploads[u].pc # "write"
  /\ NeedsAreSettled /\ DownloadIsWhole

=============================================================================
