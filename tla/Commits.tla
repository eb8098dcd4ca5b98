------------------------------ MODULE Commits ------------------------------
(***************************************************************************)
(* The commits API, the repositories behind it, the pipelines that name    *)
(* their commits and the pushes of CI jobs (projects_api.go, git.go).      *)
(*                                                                         *)
(* seedCommit works on a go-git storer that every handler of one path      *)
(* shares (HEAD, branches, index) with no lock, so each of its storage     *)
(* steps is an action: one action is at most one write.  The storer        *)
(* outlives the server when it is a directory or an object store; projects *)
(* and pipelines never do.                                                 *)
(*                                                                         *)
(* A commit is named by the request that made it, and that request's name  *)
(* is also the content it gives to each file it writes.                    *)
(***************************************************************************)
EXTENDS FiniteSets

CONSTANTS
  Projects,  \* project ids
  Paths,     \* repository paths
  PathOf,    \* the path of a project: "root/" and its name, names may repeat
  Branches,  \* branch names
  Files,     \* file names
  CIFile,    \* .gitlab-ci.yml
  FileSets,  \* the sets of files a request may carry
  Calls,     \* commit requests
  Pushes,    \* git pushes of CI jobs
  None,      \* no commit, no content, no branch
  Pseudo,    \* the SHA commitSHA makes of a configuration; no repository holds it
  Serial,    \* callers commit to a repository one after the other
  Durable    \* the storer is a directory or an object store

Commit == Calls \cup Pushes

ASSUME PathsAssumption  == PathOf \in [Projects -> Paths]
ASSUME NamesAssumption  == /\ "main" \in Branches
                           /\ None \notin Commit \cup Branches \cup Paths /\ Pseudo \notin Commit
ASSUME PushesAssumption == Calls \cap Pushes = {}
ASSUME FilesAssumption  == CIFile \in Files /\ FileSets \subseteq SUBSET Files
ASSUME FlagsAssumption  == Serial \in BOOLEAN /\ Durable \in BOOLEAN

VARIABLES
  projects,  \* s.projects: [created, config, ref, sha]
  stores,    \* s.gitStorages: the paths whose storer is cached
  repos,     \* what each storer holds: [head, refs, index]
  commits,   \* the commit objects: [path, tree, past], past the commits it reaches
  pipelines, \* s.pipelines: [project, config, sha], and whether commits were at rest
  calls,     \* the handlers of commit requests
  pushes     \* the handlers of pushes

vars == <<projects, stores, repos, commits, pipelines, calls, pushes>>

Tree      == [Files -> Commit \cup {None}]
EmptyTree == [f \in Files |-> None]
EmptyRepo == [head |-> None, refs |-> [b \in Branches |-> None], index |-> EmptyTree]
NoProject == [created |-> FALSE, config |-> None, ref |-> None, sha |-> None]

Storing  == {"open", "init", "reset", "index", "add", "tree", "update"}  \* inside seedCommit
InFlight == Storing \cup {"answer"}

\* A handler that is over has no locals; of a failed one the project is kept
\* (for the properties only).
Idle == [pc |-> "idle", project |-> None, branch |-> None, files |-> {}, todo |-> {},
         at |-> None, tree |-> EmptyTree]

Path(c)   == PathOf[calls[c].project]
Repo(c)   == repos[Path(c)]
TreeOf(x) == IF x = None THEN EmptyTree ELSE commits[x].tree
Past(x)   == IF x = None THEN {} ELSE commits[x].past

\* The commit HEAD resolves to.
Tip(repo) == IF repo.head = None THEN None ELSE repo.refs[repo.head]

ProjectRec  == [created : BOOLEAN, config : Calls \cup {None}, ref : Branches \cup {None},
                sha : Calls \cup {None}]
RepoRec     == [head : Branches \cup {None}, refs : [Branches -> Commit \cup {None}], index : Tree]
CommitRec   == [path : Paths, tree : Tree, past : SUBSET Commit]
PipelineRec == [project : Projects, config : Calls, sha : Calls \cup {Pseudo}, calm : BOOLEAN]
CallRec     == [pc : InFlight \cup {"idle", "done", "failed", "lost"},
                project : Projects \cup {None}, branch : Branches \cup {None},
                files : SUBSET Files, todo : SUBSET Files, at : Commit \cup {None}, tree : Tree]
PushRec     == [pc : {"idle", "head", "sethead", "done", "lost"}, path : Paths \cup {None},
                goal : Branches \cup {None}]

\* No object is no commit.
ASSUME NoneAssumption == None \notin CommitRec

TypeOK ==
  /\ projects \in [Projects -> ProjectRec]
  /\ stores \subseteq Paths
  /\ repos \in [Paths -> RepoRec]
  /\ commits \in [Commit -> CommitRec \cup {None}]
  /\ pipelines \subseteq PipelineRec
  /\ calls \in [Calls -> CallRec]
  /\ pushes \in [Pushes -> PushRec]

Init ==
  /\ projects = [p \in Projects |-> NoProject]
  /\ stores = {}
  /\ repos = [path \in Paths |-> EmptyRepo]
  /\ commits = [x \in Commit |-> None]
  /\ pipelines = {}
  /\ calls = [c \in Calls |-> Idle]
  /\ pushes = [k \in Pushes |-> [pc |-> "idle", path |-> None, goal |-> None]]

-----------------------------------------------------------------------------
(* Projects and pipelines. *)

\* A project starts on main without a configuration or a commit, whatever the
\* repository of its path may hold.
ProjectCreate(p) ==
  /\ ~projects[p].created
  /\ projects' = [projects EXCEPT ![p] = [NoProject EXCEPT !.created = TRUE, !.ref = "main"]]
  /\ UNCHANGED <<stores, repos, commits, pipelines, calls, pushes>>

\* No commit request of p is in flight and none has failed since the server
\* started (for the properties only).
Calm(p) == \A c \in Calls : calls[c].project = p => calls[c].pc \notin InFlight \cup {"failed"}

\* Mutant: no stand-in for the SHA of a project without a commit.
PipelineCreateBare(p) ==
  /\ projects[p].config # None
  /\ pipelines' = pipelines \cup
       {[project |-> p, config |-> projects[p].config, calm |-> Calm(p), sha |-> projects[p].sha]}
  /\ UNCHANGED <<projects, stores, repos, commits, calls, pushes>>

\* An empty configuration is refused.  The job engine takes over from here
\* (module Pipelines).
PipelineCreate(p) ==
  /\ projects[p].config # None
  /\ pipelines' = pipelines \cup
       {[project |-> p, config |-> projects[p].config, calm |-> Calm(p),
         sha |-> IF projects[p].sha = None THEN Pseudo ELSE projects[p].sha]}
  /\ UNCHANGED <<projects, stores, repos, commits, calls, pushes>>

-----------------------------------------------------------------------------
(* handleCommitCreate and seedCommit. *)

\* Mutant: the configuration is only taken once.
BeginKeepsConfig(c, p, b, files) ==
  /\ calls[c].pc = "idle"
  /\ projects[p].created
  /\ Serial => \A d \in Calls : calls[d].pc \in InFlight => Path(d) # PathOf[p]
  /\ projects' = [projects EXCEPT ![p].config = IF CIFile \in files /\ @ = None THEN c ELSE @,
                                  ![p].ref = b]
  /\ calls' = [calls EXCEPT ![c] = [Idle EXCEPT !.pc = "open", !.project = p, !.branch = b,
                                                !.files = files, !.todo = files]]
  /\ UNCHANGED <<stores, repos, commits, pipelines, pushes>>

\* The first critical section of handleCommitCreate.
Begin(c, p, b, files) ==
  /\ calls[c].pc = "idle"
  /\ projects[p].created
  /\ Serial => \A d \in Calls : calls[d].pc \in InFlight => Path(d) # PathOf[p]
  /\ projects' = [projects EXCEPT ![p].config = IF CIFile \in files THEN c ELSE @,
                                  ![p].ref = b]
  /\ calls' = [calls EXCEPT ![c] = [Idle EXCEPT !.pc = "open", !.project = p, !.branch = b,
                                                !.files = files, !.todo = files]]
  /\ UNCHANGED <<stores, repos, commits, pipelines, pushes>>

\* The storer is cached under s.mu; git.Init finds HEAD there, or not.
Open(c) ==
  /\ calls[c].pc = "open"
  /\ stores' = stores \cup {Path(c)}
  /\ calls' = [calls EXCEPT ![c].pc = IF Repo(c).head = None THEN "init" ELSE "reset"]
  /\ UNCHANGED <<projects, repos, commits, pipelines, pushes>>

\* git.Init points HEAD at the branch of the request.
InitHead(c) ==
  /\ calls[c].pc = "init"
  /\ repos' = [repos EXCEPT ![Path(c)].head = calls[c].branch]
  /\ calls' = [calls EXCEPT ![c].pc = "reset"]
  /\ UNCHANGED <<projects, stores, commits, pipelines, pushes>>

\* The branch of the request does not exist: no reset, and the index stays as
\* the last commit, or the last failed request, left it.
SkipReset(c) ==
  /\ calls[c].pc = "reset"
  /\ Repo(c).refs[calls[c].branch] = None
  /\ calls' = [calls EXCEPT ![c].pc = "add"]
  /\ UNCHANGED <<projects, stores, repos, commits, pipelines, pushes>>

\* A hard reset moves the branch of HEAD to the commit of the branch of the
\* request; it fails when the branch of HEAD does not exist.
ResetHead(c) ==
  LET ref == Repo(c).refs[calls[c].branch]
  IN  /\ calls[c].pc = "reset"
      /\ ref # None
      /\ Tip(Repo(c)) # None
      /\ repos' = [repos EXCEPT ![Path(c)].refs[Repo(c).head] = ref]
      /\ calls' = [calls EXCEPT ![c].pc = "index", ![c].at = ref]
      /\ UNCHANGED <<projects, stores, commits, pipelines, pushes>>

\* Mutant: a soft reset.
ResetSoft(c) ==
  /\ calls[c].pc = "index"
  /\ calls' = [calls EXCEPT ![c].pc = "add"]
  /\ UNCHANGED <<projects, stores, repos, commits, pipelines, pushes>>

\* ... and makes the index the tree of that commit.
ResetIndex(c) ==
  /\ calls[c].pc = "index"
  /\ repos' = [repos EXCEPT ![Path(c)].index = TreeOf(calls[c].at)]
  /\ calls' = [calls EXCEPT ![c].pc = "add"]
  /\ UNCHANGED <<projects, stores, commits, pipelines, pushes>>

\* One turn of the loop over the files, in the order of a Go map.
AddFile(c, f) ==
  /\ calls[c].pc = "add"
  /\ f \in calls[c].todo
  /\ repos' = [repos EXCEPT ![Path(c)].index[f] = c]
  /\ calls' = [calls EXCEPT ![c].todo = @ \ {f}]
  /\ UNCHANGED <<projects, stores, commits, pipelines, pushes>>

\* wt.Commit first resolves HEAD for the parent ...
ReadParent(c) ==
  /\ calls[c].pc = "add"
  /\ calls[c].todo = {}
  /\ calls' = [calls EXCEPT ![c].pc = "tree", ![c].at = Tip(Repo(c))]
  /\ UNCHANGED <<projects, stores, repos, commits, pipelines, pushes>>

\* ... then builds the tree of the index ...
BuildTree(c) ==
  /\ calls[c].pc = "tree"
  /\ calls' = [calls EXCEPT ![c].pc = "update", ![c].tree = Repo(c).index]
  /\ UNCHANGED <<projects, stores, repos, commits, pipelines, pushes>>

\* Mutant: the branch of the request is moved, and HEAD is not.
UpdateBranch(c) ==
  /\ calls[c].pc = "update"
  /\ commits' = [commits EXCEPT ![c] = [path |-> Path(c), tree |-> calls[c].tree,
                                        past |-> Past(calls[c].at) \cup {c}]]
  /\ repos' = [repos EXCEPT ![Path(c)].refs[calls[c].branch] = c]
  /\ calls' = [calls EXCEPT ![c].pc = "answer"]
  /\ UNCHANGED <<projects, stores, pipelines, pushes>>

\* ... then moves the branch of HEAD, not that of the request, to the new commit.
UpdateHead(c) ==
  /\ calls[c].pc = "update"
  /\ commits' = [commits EXCEPT ![c] = [path |-> Path(c), tree |-> calls[c].tree,
                                        past |-> Past(calls[c].at) \cup {c}]]
  /\ repos' = [repos EXCEPT ![Path(c)].refs[Repo(c).head] = c]
  /\ calls' = [calls EXCEPT ![c].pc = "answer"]
  /\ UNCHANGED <<projects, stores, pipelines, pushes>>

\* The second critical section: the SHA, then the 201.
Answer(c) ==
  /\ calls[c].pc = "answer"
  /\ projects' = [projects EXCEPT ![calls[c].project].sha = c]
  /\ calls' = [calls EXCEPT ![c] = [Idle EXCEPT !.pc = "done"]]
  /\ UNCHANGED <<stores, repos, commits, pipelines, pushes>>

\* A storage error, the reset of a dangling HEAD among them, ends the request
\* with a 500.  Nothing is undone: the last step may have taken effect and only
\* its answer been lost, the move of the branch too, and then the commit is there
\* and the project has no SHA of it.
Fail(c) ==
  /\ calls[c].pc \in InFlight
  /\ calls' = [calls EXCEPT ![c] = [Idle EXCEPT !.pc = "failed", !.project = calls[c].project]]
  /\ UNCHANGED <<projects, stores, repos, commits, pipelines, pushes>>

CommitStep(c) ==
  \/ \E p \in Projects, b \in Branches, files \in FileSets : Begin(c, p, b, files)
  \/ Open(c) \/ InitHead(c) \/ SkipReset(c) \/ ResetHead(c) \/ ResetIndex(c)
  \/ \E f \in Files : AddFile(c, f)
  \/ ReadParent(c) \/ BuildTree(c) \/ UpdateHead(c) \/ Answer(c) \/ Fail(c)

-----------------------------------------------------------------------------
(* handleGitReceivePack. *)

\* A cached storer, and the token of a job of the project that the search by
\* path finds.  The token of a finished job is as good.
MayPush(path) ==
  /\ path \in stores
  /\ \E q \in Projects : PathOf[q] = path /\ \E pl \in pipelines : pl.project = q

\* A job commits one file on top of a commit it has cloned, or on nothing, and
\* creates or updates a branch: the old value it names is not compared.
PushBranch(k, path, b, base, f) ==
  /\ pushes[k].pc = "idle"
  /\ MayPush(path)
  /\ base # None => commits[base] # None /\ commits[base].path = path
  /\ commits' = [commits EXCEPT ![k] = [path |-> path, tree |-> [TreeOf(base) EXCEPT ![f] = k],
                                        past |-> Past(base) \cup {k}]]
  /\ repos' = [repos EXCEPT ![path].refs[b] = k]
  /\ pushes' = [pushes EXCEPT ![k].pc = "head", ![k].path = path]
  /\ UNCHANGED <<projects, stores, pipelines, calls>>

PushDelete(k, path, b) ==
  /\ pushes[k].pc = "idle"
  /\ MayPush(path)
  /\ repos[path].refs[b] # None
  /\ repos' = [repos EXCEPT ![path].refs[b] = None]
  /\ pushes' = [pushes EXCEPT ![k].pc = "head", ![k].path = path]
  /\ UNCHANGED <<projects, stores, commits, pipelines, calls>>

\* The branch a dangling HEAD is pointed at: main, else master, else none.
Fallback(refs) ==
  LET there == {b \in {"main", "master"} \cap Branches : refs[b] # None}
  IN  IF "main" \in there THEN "main" ELSE IF "master" \in there THEN "master" ELSE None

\* Mutant: only a repository without a HEAD is given one.
ReadHeadAbsent(k) ==
  LET repo == repos[pushes[k].path]
      goal == IF repo.head = None THEN Fallback(repo.refs) ELSE None
  IN  /\ pushes[k].pc = "head"
      /\ pushes' = [pushes EXCEPT ![k].pc = IF goal = None THEN "done" ELSE "sethead",
                                  ![k].goal = goal]
      /\ UNCHANGED <<projects, stores, repos, commits, pipelines, calls>>

\* The error of a push is a 500, whether or not the branch was changed; HEAD is not
\* looked at.
PushFails(k) ==
  /\ pushes[k].pc = "head"
  /\ pushes' = [pushes EXCEPT ![k].pc = "lost"]
  /\ UNCHANGED <<projects, stores, repos, commits, pipelines, calls>>

\* After the push HEAD is read ...
ReadHead(k) ==
  LET repo == repos[pushes[k].path]
      goal == IF Tip(repo) = None THEN Fallback(repo.refs) ELSE None
  IN  /\ pushes[k].pc = "head"
      /\ pushes' = [pushes EXCEPT ![k].pc = IF goal = None THEN "done" ELSE "sethead",
                                  ![k].goal = goal]
      /\ UNCHANGED <<projects, stores, repos, commits, pipelines, calls>>

\* ... and repaired.
SetHead(k) ==
  /\ pushes[k].pc = "sethead"
  /\ repos' = [repos EXCEPT ![pushes[k].path].head = pushes[k].goal]
  /\ pushes' = [pushes EXCEPT ![k].pc = "done"]
  /\ UNCHANGED <<projects, stores, commits, pipelines, calls>>

PushStep(k) ==
  \/ \E path \in Paths, b \in Branches :
       \/ \E base \in Commit \cup {None}, f \in Files : PushBranch(k, path, b, base, f)
       \/ PushDelete(k, path, b)
  \/ PushFails(k) \/ ReadHead(k) \/ SetHead(k)

-----------------------------------------------------------------------------
\* The server stops between any two steps and starts again.
Restart ==
  /\ projects' = [p \in Projects |-> NoProject]
  /\ stores' = {}
  /\ pipelines' = {}
  /\ repos' = IF Durable THEN repos ELSE [path \in Paths |-> EmptyRepo]
  /\ calls' = [c \in Calls |-> IF calls[c].pc \in InFlight \cup {"failed"}
                               THEN [Idle EXCEPT !.pc = "lost"] ELSE calls[c]]
  /\ pushes' = [k \in Pushes |-> IF pushes[k].pc \in {"head", "sethead"}
                                 THEN [pushes[k] EXCEPT !.pc = "lost"] ELSE pushes[k]]
  /\ UNCHANGED commits

Next ==
  \/ \E p \in Projects : ProjectCreate(p) \/ PipelineCreate(p)
  \/ \E c \in Calls : CommitStep(c)
  \/ \E k \in Pushes : PushStep(k)
  \/ Restart

Spec == Init /\ [][Next]_vars

-----------------------------------------------------------------------------
(* Properties. *)

Unpushed(path) == \A k \in Pushes : pushes[k].path # path
Sole(p)        == \A q \in Projects : PathOf[q] = PathOf[p] /\ projects[q].created => q = p

\* A commit that was answered with 201 is reached from HEAD ever after,
\* whatever branch, failure or restart follows (projects_api.go:78-88,
\* git.go:82-114): while callers take turns and no job rewrites a branch.
AckedCommitsStay ==
  Serial /\ Durable =>
    \A c \in Calls : calls[c].pc = "done" /\ Unpushed(commits[c].path)
                       => c \in Past(Tip(repos[commits[c].path]))

\* A commit is the commit below it with exactly the files of its request
\* replaced (git.go:56-59,82-111): nothing that failed or fell to a crash is
\* taken along.  The first commit, and one to a branch other than HEAD's, are
\* not reset and may take along the rest of the index.
CommitIsAdditive ==
  Serial => \A c \in Calls :
    LET call == calls[c] IN
      call.pc = "answer" /\ Unpushed(Path(c))
        /\ call.at # None /\ call.branch = Repo(c).head
      => commits[c].tree = [f \in Files |-> IF f \in call.files THEN c ELSE TreeOf(call.at)[f]]

\* A pipeline created while the project's commits are at rest runs the
\* configuration of the commit its jobs clone, and HEAD still reaches that
\* commit (projects_api.go:54,84,112): for a path of one project.
PipelineFitsCommit ==
  Serial => \A pl \in pipelines :
    LET path == PathOf[pl.project] IN
      pl.calm /\ Sole(pl.project) /\ Unpushed(path)
      => /\ pl.sha # Pseudo
         /\ commits[pl.sha].tree[CIFile] = pl.config
         /\ pl.sha \in Past(Tip(repos[path]))

\* No other job has pushed to the repository of k: one that deletes the branch
\* k has found, before k points HEAD there, may leave it dangling.
Alone(k) == \A l \in Pushes : pushes[l].path = pushes[k].path => l = k

\* When a push is answered HEAD resolves, if main or master exists
\* (git.go:327-336), whatever commits run beside the push.
PushLeavesHead ==
  [][\A k \in Pushes :
       LET repo == repos'[pushes'[k].path] IN
         pushes[k].pc \in {"head", "sethead"} /\ pushes'[k].pc = "done" /\ Alone(k)
         => Tip(repo) # None \/ Fallback(repo.refs) = None]_vars

\* What callers see: the files at HEAD, the requests below it, and the answers.
Pushed   == {path \in Paths : ~Unpushed(path)}
Content  == [path \in Paths |-> IF path \in Pushed THEN EmptyTree ELSE TreeOf(Tip(repos[path]))]
History  == [path \in Paths |-> IF path \in Pushed THEN {} ELSE Past(Tip(repos[path]))]
Outcome(pc) ==
  CASE pc \in Storing -> "open"
    [] pc = "answer" -> "committed"
    [] pc = "done" -> "answered"
    [] pc \in {"failed", "lost"} -> "over"
    [] OTHER -> "idle"
Requests == [c \in Calls |-> [state |-> Outcome(calls[c].pc), files |-> calls[c].files]]

Promised == INSTANCE Repositories WITH
  Contents <- Commit \cup {None},
  content <- Content, history <- History, pushed <- Pushed, requests <- Requests

\* While callers take turns, every step of seedCommit is invisible but one, in
\* which the whole commit appears on top of all that were answered; a request that
\* fails, before that step or after it, changes nothing more
\* (projects_api.go:45-125, git.go:56-118).
RefinesRepositories == Promised!Spec

(* Why these hold: an inductive invariant. *)

\* A handler in flight has its project and its branch.
Located == \A c \in Calls : calls[c].pc \in InFlight
                              => calls[c].project \in Projects /\ calls[c].branch \in Branches

\* Branches and handlers only name commits that were made, and a handler that
\* has not moved a branch has made none.
CommitsMade ==
  /\ \A path \in Paths, b \in Branches :
       repos[path].refs[b] # None => commits[repos[path].refs[b]] # None
  /\ \A c \in Calls : calls[c].at # None => commits[calls[c].at] # None
  /\ \A c \in Calls : calls[c].pc \in {"idle"} \cup Storing => commits[c] = None
  /\ \A k \in Pushes : pushes[k].pc = "idle" => commits[k] = None
  /\ \A k \in Pushes : pushes[k].pc = "idle" <=> pushes[k].path = None

Answerable == \A c \in Calls :
  /\ calls[c].pc \in {"answer", "done"} => commits[c] # None
  /\ calls[c].pc = "answer" => commits[c].path = Path(c)

\* What a commit reaches was made before it.
PastMade == \A x \in Commit : commits[x] # None => \A y \in commits[x].past : commits[y] # None

\* What a push has found for HEAD stays there while no other push comes.
GoalsThere == \A k \in Pushes : pushes[k].pc = "sethead" /\ Alone(k)
                => pushes[k].goal \in Branches /\ repos[pushes[k].path].refs[pushes[k].goal] # None

\* The files a handler has yet to add.
FilesToAdd == \A c \in Calls :
  /\ calls[c].todo \subseteq calls[c].files
  /\ calls[c].pc \in {"open", "init", "reset", "index"} => calls[c].todo = calls[c].files
  /\ calls[c].pc \in {"tree", "update", "answer"} => calls[c].todo = {}
  /\ calls[c].pc = "failed" => calls[c].files = {}

\* Requests belong to projects of this life of the server.
ProjectsThere == \A c \in Calls : calls[c].pc \in InFlight \cup {"failed"}
                   => calls[c].project \in Projects /\ projects[calls[c].project].created

TakeTurns == \A c, d \in Calls : calls[c].pc \in InFlight /\ calls[d].pc \in InFlight
                                   /\ Path(c) = Path(d) => c = d

\* No branch but HEAD's exists, and HEAD is set once.
OneBranch(path) ==
  /\ \A b \in Branches : repos[path].refs[b] # None => b = repos[path].head
  /\ \A c \in Calls : calls[c].pc = "init" /\ Path(c) = path => repos[path].head = None
  /\ \A c \in Calls : calls[c].pc \in Storing \ {"open", "init"} /\ Path(c) = path
                         => repos[path].head # None

\* The parent a handler has read is still the tip, and what was answered, or is
\* about to be, is below the tip.
Reached(path) ==
  LET tip == Tip(repos[path]) IN
    /\ \A c \in Calls : calls[c].pc \in {"index", "tree", "update"} /\ Path(c) = path => calls[c].at = tip
    /\ \A c \in Calls : calls[c].pc = "answer" /\ Path(c) = path => c \in Past(tip)
    /\ Durable => \A c \in Calls : calls[c].pc = "done" /\ commits[c].path = path => c \in Past(tip)

\* The tree of the commit x with the given files replaced by those of c.
Onto(c, x, files) == [f \in Files |-> IF f \in files THEN c ELSE TreeOf(x)[f]]

\* How far the commit of c is, on the branch HEAD names.
Underway(c) ==
  LET call == calls[c]  repo == Repo(c)  tip == Tip(repo) IN
    call.branch = repo.head =>
      /\ call.pc = "add" /\ tip # None => repo.index = Onto(c, tip, call.files \ call.todo)
      /\ call.pc = "tree" /\ tip # None => repo.index = Onto(c, tip, call.files)
      /\ call.pc = "update" /\ tip # None => call.tree = Onto(c, tip, call.files)
      /\ call.pc = "answer" /\ call.at # None => commits[c].tree = Onto(c, call.at, call.files)

\* The tip has the configuration.
Holds(repo, config) == Tip(repo) # None /\ commits[Tip(repo)].tree[CIFile] = config

\* A handler has yet to add a configuration, which is then its own, or has it in
\* the index and in all it makes of the index.
Brings(c, config) ==
  LET call == calls[c]  repo == Repo(c) IN
    /\ CIFile \in call.todo => config = c
    /\ CIFile \notin call.todo =>
         /\ repo.index[CIFile] = config
         /\ call.pc \in {"open", "init", "reset", "index"} => Holds(repo, config)
         /\ call.pc = "update" => call.tree[CIFile] = config
         /\ call.pc = "answer" => Tip(repo) = c /\ Holds(repo, config)

\* Where the configuration of a project is, unless a request has failed: at
\* rest in the commit of its SHA, which is the tip, and in the index; else with
\* the request that brings it.
ConfigKept(p) ==
  LET repo == repos[PathOf[p]]  config == projects[p].config
      mine == {c \in Calls : calls[c].project = p}
  IN  config # None /\ Sole(p) /\ (\A c \in mine : calls[c].pc # "failed") =>
        /\ Calm(p) => /\ projects[p].sha = Tip(repo) /\ projects[p].sha \in Past(Tip(repo))
                      /\ Holds(repo, config) /\ repo.index[CIFile] = config
        /\ \A c \in mine : calls[c].pc \in InFlight => Brings(c, config)

\* The index holds what is below HEAD, or what requests have left in it that
\* made no commit of it; and what a handler has added so far.
Indexed(path) ==
  LET index == repos[path].index  tip == Tip(repos[path]) IN
    /\ \A f \in Files : index[f] = TreeOf(tip)[f] \/ index[f] \in Calls \ Past(tip)
    /\ \A c \in Calls : calls[c].pc \in {"add", "tree", "update"} /\ Path(c) = path =>
         /\ \A f \in calls[c].files \ calls[c].todo : index[f] = c
         /\ calls[c].pc = "update" => calls[c].tree = index

Undisturbed(path) ==
  /\ OneBranch(path) /\ Reached(path) /\ Indexed(path)
  /\ \A c \in Calls : calls[c].pc \in InFlight /\ Path(c) = path => Underway(c)
  /\ \A p \in Projects : PathOf[p] = path => ConfigKept(p)

IInv ==
  /\ TypeOK /\ Located /\ CommitsMade /\ Answerable /\ PastMade
  /\ GoalsThere /\ FilesToAdd /\ ProjectsThere
  /\ Serial => TakeTurns /\ \A path \in Paths : Unpushed(path) => Undisturbed(path)
  /\ PipelineFitsCommit

\* seedCommit applies the files "as a single commit on `branch`" (git.go:56-57):
\* when the handler is about to answer, the branch of the request is at the new
\* commit.
CommitOnBranch ==
  Serial => \A c \in Calls : calls[c].pc = "answer" /\ Unpushed(Path(c))
                               => Repo(c).refs[calls[c].branch] = c

=============================================================================
