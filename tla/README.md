# A TLA+ verification of bleeplab

bleeplab is a small GitLab: it accepts commits and `.gitlab-ci.yml` files, turns
them into pipelines, and drives real `gitlab-runner` processes through GitLab's
runner API. It serves the git repositories the runners clone, stores artifacts,
and protects its pages with an OpenID Connect provider (SHAUTH). This directory
holds TLA+ models of it, the TLC configurations that check them on small
instances, and TLAPS proofs for all instances. `PROJECT.json` is the index: the
components, the runs, the source lines of every definition, the findings, the
hazards and the theorems.

Run TLC as `tlc -workers 2 -config <run>.cfg <MC module>` and the provers as
`tlapm <module>.tla`.

## 1. Inventory

| component | state | operations | what is hard |
|---|---|---|---|
| job engine (`pipeline.go`, `store.go`) | pipelines with a stage index and a status; jobs with a status; the queue; one counter for all ids | create a pipeline, enqueue a stage, dequeue a job, a job has ended | the state is behind `s.mu`, a job's status behind the job's mutex, and a handler takes them one after the other |
| runner API (`runner_api.go`) | the runners' tokens | register, unregister, poll for a job, report a status, send the trace | many runners at once; repeated and lost requests |
| build log (`runner_api.go`, `store.go`) | a buffer per job | append a chunk, replace the log, read its length | retries of chunks; check and append under different locks |
| projects and commits (`projects_api.go`) | projects: configuration, branch, SHA | create a project, a commit, a pipeline | a commit writes the project twice, with git work in between |
| git server (`git.go`) | a storer per project path | seed a commit, clone, push, check a job's token | commits share the index of one storer; projects may share a path |
| git storage, S3 filesystem (`git_storage.go`, `s3fs.go`) | objects in a bucket; a cached client | create, write, rename, list | nothing is atomic but a single request; a failed first use is cached |
| artifacts (`artifacts.go`) | archives by job number; name and size in the job | upload, download | retries; archives outlive the jobs of a restarted server |
| CI configuration (`ciyaml.go`) | none | parse and normalize YAML | many shapes of values |
| SHAUTH state (`shauth_state.go`) | a file per session and per used logout token, on a directory all replicas share | create, look up, delete sessions; claim a logout token | no locks at all; replicas die; files expire |
| SHAUTH handlers (`shauth.go`) | signed cookies in the browser | login, callback, logout, front- and back-channel logout | logouts race logins and pages; tokens are replayed |
| routing (`server.go`, `authentication.go`) | none | which request needs which credential | overlap of path patterns |
| internal API, web UI | none | views | none: they only read |

How they interact: an API client creates projects, commits and pipelines;
`createPipelineLocked` parses the configuration and queues the first stage;
runners poll `/api/v4/jobs/request`, which pops the queue; they clone from the
git server with the job's token, PATCH the trace, upload artifacts and PUT the
status; `onJobTerminal` enqueues the next stage or ends the pipeline. Browsers
reach the UI through `shauthMiddleware`, which reads the session directory; the
provider calls the logout endpoints.

What makes each one right: no job is lost or handed out twice, stages run in
order, the status of a pipeline says what its jobs did, and it ends (engine,
runner API); the log is complete and has nothing twice (trace); a pipeline runs
what was committed at its SHA and no commit undoes another (commits, git); a
download is the archive its job uploaded (artifacts); a reader sees a whole file
(S3); a logged-out session stays out and a logout token counts once (SHAUTH);
nothing is served without the credential it needs (routing).

## 2. What is modelled

### Pipelines.tla: the job engine and the runner API

`runners`, `pipelines`, `jobs`, `queue` and `nextID` are the maps and fields of
`Server` of the same names. An action is one critical section, so that handlers
interleave as goroutines do:

| code | actions |
|---|---|
| `handlePipelineCreate`, `createPipelineLocked` | `CreatePipeline` |
| `handleRunnerRegister`, `handleRunnerUnregister` | `Register`, `Unregister` |
| `handleJobRequest`: pop under `s.mu`; mark under the job's mutex; roll up under `s.mu`; answer | `ClaimDequeue`, `ClaimMark`, `ClaimRollUp`, `ClaimRespond` |
| `handleJobUpdate`: look up the job; store the status under the job's mutex; `onJobTerminal` under `s.mu` | `UpdateCall`, `UpdateStatus`, `UpdateTerminal` |

`EnqueueStage` is the loop of `enqueueStageLocked`: it skips stages without
created jobs, and after the last one completes the pipeline. `calls` says where
each handler in flight stands, `exec` what the runners know of each job. The
constants `Overlap` (a runner sends a PUT while an earlier one of that job is
unanswered) and `Lossy` (the answer that carries a job is lost) switch the
misbehaviour of clients and network on.

`StagedJobs.tla` is the promise with no queue, locks or handlers: jobs appear
with what they need, are offered when that is done, are taken once and end once.
`Pipelines` implements it (`RefinesStagedJobs`): a job is *offered* while it is
in the queue and *taken* from the moment it is popped.

### JobTrace.tla: the build log of a job

The k-th byte of the log is the number k, so that a right trace is 1, 2, 3, ...
Every access of `handleJobTrace` to the buffer takes the job's mutex for itself:
`ReadFirst` and `ReadSecond` are the two comparisons, `ReadThird` the length the
overlap is computed from, `Extend` the append, `Answer` the length in the 202.
The runner (`Write`, `SendPatch`, `SendPut`, `Timeout`) resends from the offset
it last saw acknowledged; bodies break off (`BodyLost`) and answers get lost.

### ShauthState.tla: sessions and logout tokens

The replicas share a directory and no lock. An action is one access to a file or
a listing. Requests (`Begin`, `List`, `Scan`, `Purge`, `InForce`, `Drop`) read
the session, list the claims and read them one by one, and delete what has
expired or is revoked; logout pages and front-channel logouts go on with
`DeleteSession` or with `ListFront`, `ScanFront`. The back-channel handler is
`Receive`, `ReadClaim`, `RemoveClaim`, `LinkClaim`, `Accept`, the login callback
`Verify`, `Stamp`, `LinkSession`. Every handler may stop after any of them: its
replica dies, or an access fails and it answers 503. Files appear whole, since
they are written under a temporary name that no listing considers and linked to
their own. Expiry is against the time the handler read from the clock when it
began, as in the code. `accepted`, `grants` and `ended` are history variables:
which logouts have been answered, against which the properties compare what is
served afterwards.

### Commits.tla: projects, commits and the git repository

`projects`, `stores` and `pipelines` are maps of `Server`; `repos` is what the
go-git storer of a path holds: HEAD, branches, index. A commit is named by the
request that made it, which is also the content of the files it writes.

| code | actions |
|---|---|
| `handleProjectCreate` | `ProjectCreate` |
| `handlePipelineCreate` | `PipelineCreate` |
| `handleCommitCreate` before and after `seedCommit` | `Begin`; `Answer`, `Fail` |
| `seedCommit`: storer, `git.Init`, hard reset, adds, commit | `Open`, `InitHead`, `SkipReset`/`ResetHead`, `ResetIndex`, `AddFile`, `ReadParent`, `BuildTree`, `UpdateHead` |
| `handleGitReceivePack` | `PushBranch`, `PushDelete`; `PushFails`, or `ReadHead`, `SetHead` |
| `NewServer` on an old directory or bucket | `Restart` |

A step reads any number of things and writes at most one, since the storer has no
lock. What go-git does inside a call is taken from how `git.go` uses it. `Fail`
may come before or after any step of `seedCommit`, `UpdateHead` too: an error that is
reported after the branch has moved, as when the object store's answer is lost, is a 500
with the commit in place and the SHA not set. `PushFails` is the same for a push.
`Serial` says that callers commit to one repository one after the other, `Durable` that
the repository survives a restart.

`Repositories.tla` is the promise with no storer, index, branches or handlers: a
repository is what its files hold and the requests it was made by, a commit changes
both in one step and on top of what was there. A 201 comes after that step; a 500 may
come before it or after, and then the commit never will be, or is there as a whole. Files the request does not name stay, or take what a request that made no
commit has left behind (the first commit, and one to another branch, are not reset), but
never a content that was replaced before. `Commits` implements it
(`RefinesRepositories`, while callers take turns): the files are those at HEAD, the
requests those below it, `UpdateHead` is the commit and all other steps of `seedCommit`
are invisible. A repository that jobs have pushed to is out of sight.

### Artifacts.tla and CIConfig.tla: archives, dependencies, configurations

`Artifacts` has the three stores: a map, a directory in which `Put` creates the
file and writes it block by block, and a bucket in which an archive appears whole
at `Close`. `BeginUpload` begins a request, after it has stored the archive's name, which the model
does not hold; `SetSize` sets the size at the end, under a lock of its own; `PutFails` is a 500 at any point; `OpenStore` decides once
whether there is a store. `HandOut` computes the dependencies of a claimed job as
`buildDependenciesLocked` does, `Download` is what the runner then fetches.
`Restart` empties the engine, numbers jobs from 1 again and keeps the store; an
archive is therefore named by its job and the life of the server that made it.
`builds` is what the runners know, `got` in it what they have fetched.

`CIConfig` has the parser as operators: a node is a scalar, a list, a mapping or
an alias, `Decode...` are the functions of `ciyaml.go`, `Parse` is its two passes,
`PayloadVariables` the order in which variables are sent. `MCArtifacts` takes its
configurations from `Parse`, so that what one module says a document means is what
the other runs.

### S3FS.tla: the file system on an object store

Every file is fetched whole when it is opened (`OpenFile`), changed in memory
(`Write`, `Seek`, `Truncate`), and put whole by `Close`. `CloseFails` is a request
that fails before or after it took effect. `Rename` is `Copy` and `DeleteOld` or
`RenameFails`, `ReadDir` is `StartListing`, any number of `Page` and `LastPage`;
the store decides how many keys a page has. `Crash` forgets all that is in memory.
The history fields: `plain`, what an ordinary file would hold; `content` and
`steady`, what a rename moves and which names have been there all along; `mode`, the
access a file was opened for, which the code drops; `calm`, nobody else has stored to
the names concerned, and the file has seen none of the three calls that the code answers
otherwise than `os.File` does (`Strays`, `StraysCut`, section 4). `FlagSets` are the
flags a client may open with. One that writes also reads (`O_RDWR`): what `Read` answers
is not compared.

## 3. The runs

| run | instance | what it shows |
|---|---|---|
| `handlers` | 2 handlers, 1 runner, ids up to 7, three shapes of configuration, overlapping PUTs, lost answers | one holder per job, stage order, pending and success accounted for, the inductive invariant; the engine implements `StagedJobs` |
| `sequential` | 2 handlers, 2 runners, ids up to 6, one PUT per job at a time, fairness | a running pipeline has work; verdicts are final; every pipeline ends |
| `failed_sibling` | two jobs side by side | **violation**: a failed pipeline is revived |
| `trace_sequential` | log of 6 bytes, 2 handlers, PATCH and PUT | log stored whole, in order, in the end all of it |
| `trace_resend` | log of 2 bytes, overlapping requests | **violation**: a chunk is appended twice |
| `shauth_backchannel` | 1 session, 2 requests, 1 token delivered by 2 handlers, short and long tokens, lifetime 3, clock to 4 | an answered back-channel logout stays in force; a token is accepted once; the inductive invariant |
| `shauth_logout` | 2 sessions, 2 requests of all kinds, or 1 token handler with 2 jtis that are given to new tokens | what a logout ended is not served again; one handler with no page beside it replaces an expired claim and accepts each token once |
| `shauth_late_session` | 1 session, 1 token, 1 request | **violation**: a revoked session comes back |
| `commits` | 1 project, 2 branches, 2 files, 3 commit requests in turn or 2 and a push, failures and restarts at every step | what was answered stays below HEAD; each commit has its files and its parent's others; a pipeline's configuration is the one at its SHA; a push that is alone on its repository leaves HEAD resolving; the inductive invariant; the handlers implement `Repositories`: a 500 leaves a whole commit or none |
| `commits_branch` | 1 project, 2 branches, 2 requests | **violation**: a commit to a second branch goes to the first |
| `artifacts` | 3 stores, 3 configurations, ids up to 4, empty and one-block archives, 2 uploads, 2 lives of the server; documents of up to 3 entries | needs are settled and complete, and their archives there; downloads are whole; the inductive invariant, types included; global keys count everywhere; own variables win |
| `s3fs` | 2 names, 2 open files of any access mode, writes of no byte or one, length up to 2, a rename, a listing | a closed file is what an ordinary one would be, three calls excepted; renames lose nothing; listings miss nothing |

Why the bounds suffice. Two handlers are the least that can interleave, and the
races of this code are between two: pops, reports of the last two jobs of a
stage, a request and its retry, two deletions. Seven ids make a runner and one
pipeline with a stage of two jobs, an unused stage and a last one, or a runner
and two pipelines of two jobs; six ids two runners and one pipeline. So all
branches of `enqueueStageLocked` and `onJobTerminal` occur. Six bytes of log let a chunk lie before, across, at and
beyond the end of the trace. Three requests to one repository are a first commit, one that fails and one that
starts from what it left; a push takes the place of
one of them (`ThreeWriters`), and a fourth has nothing new to find, as the proofs of
`CommitsStay` and `PipelinesFit` say for any number. Two uploads are a request and its repetition,
two lives a job and its successor under one number, four ids a pipeline of three
jobs or one in each life and more. Archives of one block are enough to be there in
part, since the file is created before the block is written. Uploads under way at
once are of one job (`OneJobUploads`), as those of two write to no common file or
field, and in a behaviour those of one job overlap (`OneOverlaps`). The theorems
of `ArtifactsProofs` do without these bounds. Length 2 lets a write go into, across, at and,
with a gap, beyond the end; two names make two pages; the theorems of `S3FSProofs`
do without these bounds. `TwoAtATime` (`MCS3FS`) keeps at most two of open files,
rename and listing under way at once, `OneAppends` one file opened with `O_APPEND`,
`UsualFlags` the sets of flags to those in use (no `O_EXCL` without `O_CREATE`, no
`O_TRUNC` or `O_APPEND` without write access), and `OneName` gives two files that are open at once one name, with no other in the
store: what else they do to each other would need a common name.
`OneKindOfLogout` (`MCShauthState`) lets a
behaviour have either back-channel or front-channel logouts, `TwoAtATime` and
`ThreeAtATime` are the handlers under way at once in `shauth_logout` and in
`shauth_backchannel`: two that race, and for a claim, its handlers or a login, and a
page that reads it. For SHAUTH, 8 hours are three ticks of the clock,
the 5 minutes of freshness one, and a clock up to 4 lets a session and a
claim be created one tick apart and both expire. Symmetry is used for handlers,
runners, files and jtis, in runs that check no liveness property. Deadlock is
not checked because the bounds (`MaxID`, `LogLen`, `MaxTime`, the number of
commit requests) end every behaviour.

Fairness. Handlers run to their end (weak fairness per handler step): goroutines
are scheduled. A registered runner keeps polling and reporting the end of a
build it holds; in the model it competes for the few `Calls`, which the server
does not limit, hence strong fairness there. `PipelinesFinish` assumes that
answers with jobs arrive (`Lossy = FALSE`) and that a runner stays registered,
since the code never requeues a job. `LogDelivered` assumes the runner resends
as long as it has unacknowledged bytes and that not every body is lost; every
answer may be. The SHAUTH model has no liveness property.

## 4. The findings

1. A failed job does not fail its pipeline if a sibling succeeds after it:
   `onJobTerminal` counts `failed` as done for the stage, enqueues the next one
   and sets the pipeline back to running. A repeated `success` of a job of an earlier
   stage, sent when a later job has failed, revives the pipeline in the same way.
2. A chunk of the trace that is resent while its first request still runs is
   appended twice.
3. A logout claim runs from the token's `iat`, a session's 8 hours from its
   creation: a session created between `iat` and the arrival of the token is
   revoked until the claim expires and then in force again.
4. A commit to a branch other than the repository's first is made on the first:
   `seedCommit` never moves HEAD, although its comment says "a single commit on
   `branch`".

Remarks, where no sentence of the repository promises the contrary:

* A job whose stage is not declared never runs, and its pipeline succeeds.
* Overlapping commits to one repository may take each other's files or drop each
  other's commit: with `Serial = FALSE` TLC finds `AckedCommitsStay`,
  `CommitIsAdditive` and `PipelineFitsCommit` violated.
* In a directory, an upload truncates the archive in place: one that fails or is
  given up destroys what a former one stored. After a restart a job that has not
  uploaded anything has the archive of its predecessor under its number; runners
  are never told to fetch it, but the internal API serves it on request.
* An image with a registry port is cut at the colon of the port for its service
  alias (`ServiceAlias`), and YAML aliases decode to nothing.
* A storage error that `wt.Commit` reports after the branch has moved is answered with
  500: the commit is there and the next one builds on it, but the project keeps its
  former SHA, and a caller that repeats the request makes a second commit.
* On the object store git's lock files do not lock: `O_EXCL` is a GET and a later
  PUT, and the last `Close` wins.
* An S3 file departs from an `os.File` in three ways, which `SessionIsPlain` leaves
  out (`Strays`, `StraysCut`). It asks for no access mode: a file from `Open` can be
  written and cut, and `Close` stores it. `O_APPEND` only sets the position a file is
  opened with: after a `Seek` or a `Truncate` a write goes elsewhere than to the end.
  And a write of no bytes beyond the end fills the gap and marks the file to be put,
  where an `os.File` does nothing; the comment at `s3fs.go:345` says of writes past
  the end that they match "os.File semantics".

One more takes a provider that gives one `jti` to two
tokens: when the claim of the first has expired, two replicas may both accept the
second, because the old claim is removed by name and the new one linked in
another step (`ReuseJti = TRUE` with two `Notices` shows it); and a request that
purges the old claim may hit the new one. So no theorem speaks of reused jtis.
Back-channel handlers that do not overlap, with no page that purges beside them,
replace an expired claim rightly, which `shauth_logout` checks as a case of its
own; tokens with their own jtis are accepted once by any number of handlers beside
any number of pages (`TokenAcceptedOnce`).

## 5. What is proved

For all values of the constants that meet the named assumptions:

* `PipelinesProofs`: `Invariance` (the inductive invariant `IInv`),
  `TypeCorrect`, `JobsHaveOneHolder`, `StagesInOrder`, `SuccessIsAccounted`, for
  any number of runners, handlers and pipelines, with overlapping PUTs and lost
  answers. Neither `StageOrder` nor `OneHolder` is inductive: a pop needs to know
  that what is queued is pending (`JobFacts`), a report that its job has been
  given to a runner and what its verdict is (`CallFacts`), and a stage is only
  enqueued in order because all jobs of stages before `stageIdx` have verdicts
  and no job after it has left `created` (`StageFacts`). One step per action
  re-establishes these; helper lemmas say what `EnqueueStage` and
  `OnJobTerminal` do to the records.
* `PipelinesRefinement`: `ImplementsStagedJobs`, the refinement of `StagedJobs`.
  `View` says what the abstract engine sees of a job; under the invariant every
  action either leaves all views and needs alone (`HandlerStutters`: marking a
  job, rolling a pipeline up and storing a status are invisible), moves one job
  on (`ClaimTakes`, `UpdateFinishes`), releases a batch whose needs are done
  (`TerminalReleases`, `BatchIsOffered`, by the stage order of the state after
  the step), or adds a pipeline (`CreateEffect`, `CreateIsCreate`).
* `PipelinesSequential`: `PendingIsAccounted` without any assumption;
  `VerdictsAreFinal` under `~Overlap`, because then a handler that reports on a
  job is the job's only handler and the state it was sent agrees with what the
  runner knows (`Sequential`); and `PipelinesNeverWedge` under `~Overlap` and
  `~Lossy`. `RunningHasWork` alone is not inductive: when a verdict leaves its
  stage incomplete, the job that holds the stage up must be on its way, which it
  is because the current stage of a running pipeline has been released
  (`StageReleased`) and a job marked running is with a handler or a runner
  (`RunningHeld`).
* `JobTraceProofs`: under `~Overlap`, `SequentialInvariance`, `TracePrefix`,
  `NothingAckedIsLost`, `TypeCorrect`, `ChecksHold` and `TraceGrows`, for a log of
  any length. The strengthening says that one
  handler is in flight and that its chunk fits (`OneInFlight`, `ChunkFits`), which
  makes the length it read still the length when it appends (`CheckStillHolds`).
  Without the assumption the property is false (`trace_resend`).
* `ShauthStateProofs`: `TypeCorrect`, and under `~ReuseJti` `ClaimInvariance` and
  `TokenAcceptedOnce`. The argument: a handler that holds a token fresh read the
  clock at most `Window` after the `iat` and is at most `Patience` old
  (`NoticesFresh`), so now is before `iat + Lifetime` (`RetentionAssumption`:
  `Window + Patience < Lifetime`, in the deployment 5 minutes and the time of a
  request against 8 hours). Claims last at least to `iat + Lifetime`
  (`ClaimsKept`), purges only remove them later (`PurgesExpired`), so whoever won
  the link (`WinnersClaim`) left a file that makes all others fail.
  `EndedSessionsStayEnded` needs no assumption, `LogoutsAreFinal` holds under
  `~ReuseJti`. A session file only ever vanishes (`SessionStays`), and what a
  front-channel logout is about is gone or still to be scanned (`RequestFacts`). For
  the back channel, the claim of an answered logout is there until `iat + Lifetime`
  (`AcceptedKept`, from `WinnersLinked`), and a request that looks for a reason to
  drop its session has that claim still before it, or `iat + Lifetime` has passed
  (`Sought`); by then a session no younger than the token is over
  (`SessionTimes`). That the session may be younger than the `iat` and older than
  the arrival is finding `shauth_late_session`.
* `CommitsProofs`: `TypeCorrect`, `CommitInvariance`, `CommitsStay`, `CommitsAdd`,
  `PipelinesFit`, `HeadRepaired` and `ImplementsRepositories`, for any number of
  requests, branches, files and paths, with failures and restarts anywhere. All but
  `TypeCorrect` and `HeadRepaired` speak of callers that take turns (`Serial`), and
  `CommitsStay` of a server that keeps its repositories (`Durable`). None of the properties is inductive. A commit hangs on the
  parent its handler has read, which must still be the tip when the branch moves: that
  takes one handler per path (`TakeTurns`). A hard reset could move HEAD's branch
  elsewhere if there were another branch (`OneBranch`: nothing but HEAD's branch
  ever exists in a repository nobody pushes to, which is finding 4 in other
  words). `Reached` then says that whatever was answered is below the tip. For
  `CommitIsAdditive`, `Underway` says at every place of `seedCommit` what the index
  and the new tree have over the tip: what failed requests have left in the index
  is gone after the reset. For `PipelineFitsCommit`, `ConfigKept` follows the
  configuration of a project: at rest it is in the commit of its SHA, in the tip and in
  the index; while a commit brings a new one it is with the handler, in the index or in
  the commit that is about to become the tip (`Brings`). A request that has failed may
  leave its configuration in the project and not in the repository, so the property
  is about projects with none since the server started (`Calm`). `PastMade` (what
  a commit reaches was made before it) keeps old pasts as they are. `HeadRepaired`
  rests on `GoalsThere`: the branch a push has found is still there when HEAD is
  pointed at it. Commits never remove a branch, but a second push may, so the
  property is about a push that is alone on its repository (`Alone`).
  For `ImplementsRepositories`, `ViewStep` says that a path looks the same until a
  commit is made there or a first push, `CommitSeen` what the one visible step shows
  (`Indexed`: the index has the files the handler has added, and besides them the
  tip's or what requests without a commit left), `AnswerShown` that the 201 comes
  after it, `RequestEnded` that a 500, before it or after it, changes nothing but the
  request, `CrashShown` that a restart takes nothing but the requests under way,
  or the whole repository when it is not durable.
* `ArtifactsProofs`: `TypeCorrect`, `ArtifactInvariance`, `NeedsSettled`,
  `NeedsThere` and `DownloadsWhole`, for all configurations, sizes, numbers of uploads and restarts.
  The way from a download back to the upload: what is needed was settled when the
  job was handed out (`NeedsAreSettled`), by jobs that were over (`InOrder`) and so
  do not change any more (`BuildLater`); a size that is not 0 is that of the archive
  (`Sized`). Where an archive appears whole, it was there before the size and a
  repetition stores the same (`Whole`). In a directory this is not so: a success has
  seen an answer, and `InPlace` says that an upload with no other beside it has
  written exactly its first blocks, is over when it is answered, and that none
  begins afterwards. That a restart gives the numbers out again does no harm, since
  nothing is known of a job before its own upload (`Untouched`). `NeedsThere` says
  that a fetch never misses: a size that is set, or an upload that has begun to write,
  means that the store is open and has an archive of that job (`Provided`), which only
  an upload of the same job replaces (`OwnerStep`), until a restart that forgets both.
* `S3FSProofs`: `ClosedFilesArePlain`, `RenamesLoseNothing`,
  `ListingsAreComplete`, `TypeCorrect`, for any number of names, files and bytes.
  `WrittenIsPlain` and `TruncatedIsPlain` say of the byte operations what an
  ordinary file would do, for all data and positions but a write of no bytes beyond
  the end; a file that has seen one of the three calls above is not followed (`LostShape`); the invariant carries it
  over the calls on a file (`FileIsPlain`), and `ListedSoFar` that the pages have
  everything up to their last key.

Only model-checked: the properties of `CIConfig` (`GlobalsAnywhere`,
`OwnVariableWins`), and the liveness properties, which are beyond the prover, as is
anything with ENABLED. The parser and the YAML nodes are finite data, and what they
compute for all documents would need induction over data, which is beyond it too.

## 6. What is not modelled

* Routing and access control: which request needs which credential is decided by
  one pass over the URL, with no state; `Commits` has the one decision that
  depends on state (`MayPush`).
* The git protocol for clones (`info/refs`, `upload-pack`), which reads what
  `Commits` has; and go-git on top of `S3FS`: a storer is taken to write a
  reference or the index in one step.
* Fields of the job payload that are copied, URLs, tokens and JSON.
* In the engine, `OnJobTerminal` reads the statuses of a stage in one step, while the
  code takes the mutex of each job in turn under `s.mu`. A PATCH without a proper
  `Content-Range`, which the code takes to start at the present length
  (`runner_api.go:195-202`), is left out: `gitlab-runner` always sends one.
* The `ref` a pipeline request may name (`projects_api.go:108-111`) only appears in
  the pipeline's record, the payload and the answer. A push carries one command. A request to a store takes effect before
  its error is reported or not at all, never later.
* The choice of stores from environment variables, except that a store that
  cannot be opened stays so (`OpenStore`).
* In SHAUTH: the OpenID exchange, cookies and URLs, clocks that differ, and loss
  of power between a link and the sync of its directory. A login that was
  verified before its logout arrives and is stored after it stays in force; the
  code means to leave sessions younger than the claim alone, so no property
  forbids it.
* Reads: the internal API and the web UI change nothing. Start-up, the release
  revision, the back-channel forwarder of the tests and packaging have no state.

## 7. What could come next

1. `Routes` and `ShauthLogin`: which request reaches which handler with which
   credential; the login transaction in its signed cookie.
2. go-git's files on `S3FS`: references and lock files of two commits at once,
   as a level below `Commits`.
3. Proofs: that `S3FS` implements a plain file system, and that the sessions of
   `ShauthState` implement a table of sessions with one step per logout, as refinements.
