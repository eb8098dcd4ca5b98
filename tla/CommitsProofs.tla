--------------------------- MODULE CommitsProofs ---------------------------
(***************************************************************************)
(* Proofs about Commits: the state stays well formed, a push leaves a HEAD *)
(* that resolves, and while callers take turns commits add up, pipelines   *)
(* fit them and the handlers implement Repositories.                       *)
(***************************************************************************)
EXTENDS Commits, TLAPS

\* A record keeps its shape when a field is given a value of its kind.
LEMMA CallShape ==
  ASSUME NEW r \in CallRec
  PROVE  /\ \A x \in InFlight \cup {"idle", "done", "failed", "lost"} : [r EXCEPT !.pc = x] \in CallRec
         /\ \A x \in Commit \cup {None} : [r EXCEPT !.at = x] \in CallRec
         /\ \A x \in SUBSET Files : [r EXCEPT !.todo = x] \in CallRec
         /\ \A x \in Tree : [r EXCEPT !.tree = x] \in CallRec
  BY DEF CallRec

LEMMA RepoShape ==
  ASSUME NEW r \in RepoRec
  PROVE  /\ \A x \in Branches \cup {None} : [r EXCEPT !.head = x] \in RepoRec
         /\ \A x \in Tree : [r EXCEPT !.index = x] \in RepoRec
         /\ \A x \in [Branches -> Commit \cup {None}] : [r EXCEPT !.refs = x] \in RepoRec
  BY DEF RepoRec

LEMMA IdleShape == Idle \in CallRec /\ EmptyTree \in Tree
  BY DEF Idle, CallRec, EmptyTree, Tree

\* Every handler keeps the state well formed.
LEMMA TypeNext == TypeOK /\ Located /\ CommitsMade /\ [Next]_vars => TypeOK'
<1> SUFFICES ASSUME TypeOK, Located, CommitsMade, [Next]_vars PROVE TypeOK'
  OBVIOUS
<1> USE DEF TypeOK
<1>1. ASSUME NEW p \in Projects, ProjectCreate(p) PROVE TypeOK'
  BY <1>1, NamesAssumption DEF ProjectCreate, NoProject, ProjectRec
<1>2. ASSUME NEW p \in Projects, PipelineCreate(p) PROVE TypeOK'
  <2> DEFINE new == [project |-> p, config |-> projects[p].config, calm |-> Calm(p),
                     sha |-> IF projects[p].sha = None THEN Pseudo ELSE projects[p].sha]
  <2>1. Calm(p) \in BOOLEAN
    BY DEF Calm
  <2>2. projects[p].config \in Calls /\ projects[p].sha \in Calls \cup {None}
    BY <1>2 DEF PipelineCreate, ProjectRec
  <2>3. new \in PipelineRec
    BY <2>1, <2>2 DEF PipelineRec
  <2>4. pipelines' = pipelines \cup {new} /\ UNCHANGED <<projects, stores, repos, commits, calls, pushes>>
    BY <1>2 DEF PipelineCreate
  <2>5. QED
    BY <2>3, <2>4
<1>3. ASSUME NEW c \in Calls, CommitStep(c) PROVE TypeOK'
  <2> calls[c] \in CallRec
    OBVIOUS
  <2> calls[c].pc \in InFlight => Path(c) \in Paths /\ Repo(c) \in RepoRec
    BY PathsAssumption DEF Located, Path, Repo
  <2>1. ASSUME NEW p \in Projects, NEW b \in Branches, NEW files \in FileSets,
               Begin(c, p, b, files)
        PROVE  TypeOK'
    <3> DEFINE new == [Idle EXCEPT !.pc = "open", !.project = p, !.branch = b,
                                   !.files = files, !.todo = files]
               prj == [projects[p] EXCEPT !.config = IF CIFile \in files THEN c ELSE @, !.ref = b]
    <3>1. new \in CallRec
      BY IdleShape, FilesAssumption DEF Idle, InFlight, Storing, CallRec
    <3>2. prj \in ProjectRec
      BY DEF ProjectRec
    <3>3. calls' = [calls EXCEPT ![c] = new] /\ projects' = [projects EXCEPT ![p] = prj]
      BY <2>1 DEF Begin
    <3>4. QED
      BY <2>1, <3>1, <3>2, <3>3 DEF Begin
  <2>2. CASE Open(c)
    BY <2>2, CallShape DEF Open, InFlight, Storing
  <2>3. CASE InitHead(c)
    BY <2>3, CallShape, RepoShape DEF InitHead, Located, InFlight, Storing
  <2>4. CASE SkipReset(c)
    BY <2>4, CallShape DEF SkipReset, InFlight, Storing
  <2>5. CASE ResetHead(c)
    <3> DEFINE path == Path(c)
               ref  == repos[path].refs[calls[c].branch]
               refs == [repos[path].refs EXCEPT ![repos[path].head] = ref]
    <3>1. path \in Paths /\ calls[c].branch \in Branches
      BY <2>5 DEF ResetHead, Located, InFlight, Storing
    <3>2. ref \in Commit /\ refs \in [Branches -> Commit \cup {None}]
      BY <2>5, <3>1 DEF ResetHead, RepoRec, Repo
    <3>3. [repos[path] EXCEPT !.refs = refs] \in RepoRec
      BY <3>1, <3>2, RepoShape
    <3>4. [calls[c] EXCEPT !.pc = "index", !.at = ref] \in CallRec
      BY <3>2 DEF CallRec, InFlight, Storing
    <3>5. /\ repos' = [repos EXCEPT ![path] = [repos[path] EXCEPT !.refs = refs]]
          /\ calls' = [calls EXCEPT ![c] = [calls[c] EXCEPT !.pc = "index", !.at = ref]]
      BY <2>5 DEF ResetHead, Repo
    <3>6. UNCHANGED <<projects, stores, commits, pipelines, pushes>>
      BY <2>5 DEF ResetHead
    <3> HIDE DEF path, ref, refs
    <3>7. QED
      BY <3>1, <3>3, <3>4, <3>5, <3>6
  <2>6. CASE ResetIndex(c)
    <3>1. Path(c) \in Paths
      BY <2>6 DEF ResetIndex, InFlight, Storing
    <3>2. TreeOf(calls[c].at) \in Tree
      BY IdleShape DEF CommitsMade, TreeOf, CallRec, CommitRec
    <3>3. [repos[Path(c)] EXCEPT !.index = TreeOf(calls[c].at)] \in RepoRec
      BY <3>1, <3>2, RepoShape
    <3>4. [calls[c] EXCEPT !.pc = "add"] \in CallRec
      BY CallShape DEF InFlight, Storing
    <3>5. QED
      BY <2>6, <3>1, <3>3, <3>4 DEF ResetIndex
  <2>7. ASSUME NEW f \in Files, AddFile(c, f) PROVE TypeOK'
    <3>1. Path(c) \in Paths
      BY <2>7 DEF AddFile, InFlight, Storing
    <3>2. [repos[Path(c)].index EXCEPT ![f] = c] \in Tree
      BY <3>1 DEF RepoRec, Tree, Commit
    <3>3. [repos[Path(c)] EXCEPT !.index[f] = c] \in RepoRec
      BY <3>1, <3>2, RepoShape
    <3>4. [calls[c] EXCEPT !.todo = calls[c].todo \ {f}] \in CallRec
      BY DEF CallRec
    <3>5. QED
      BY <2>7, <3>1, <3>3, <3>4 DEF AddFile
  <2>8. CASE ReadParent(c)
    <3>1. Repo(c) \in RepoRec
      BY <2>8 DEF ReadParent, InFlight, Storing
    <3>2. Tip(Repo(c)) \in Commit \cup {None}
      BY <3>1 DEF Tip, RepoRec
    <3>3. [calls[c] EXCEPT !.pc = "tree", !.at = Tip(Repo(c))] \in CallRec
      BY <3>2 DEF CallRec, InFlight, Storing
    <3>4. QED
      BY <2>8, <3>3 DEF ReadParent
  <2>9. CASE BuildTree(c)
    <3>1. Repo(c).index \in Tree
      BY <2>9 DEF BuildTree, InFlight, Storing, RepoRec
    <3>2. [calls[c] EXCEPT !.pc = "update", !.tree = Repo(c).index] \in CallRec
      BY <3>1 DEF CallRec, InFlight, Storing
    <3>3. QED
      BY <2>9, <3>2 DEF BuildTree
  <2>10. CASE UpdateHead(c)
    <3> DEFINE path == Path(c)
               new  == [path |-> path, tree |-> calls[c].tree, past |-> Past(calls[c].at) \cup {c}]
               refs == [repos[path].refs EXCEPT ![repos[path].head] = c]
    <3>1. path \in Paths /\ c \in Commit
      BY <2>10 DEF UpdateHead, InFlight, Storing, Commit
    <3>2. Past(calls[c].at) \subseteq Commit
      BY DEF CommitsMade, Past, CallRec, CommitRec
    <3>3. new \in CommitRec
      BY <3>1, <3>2 DEF CommitRec, CallRec
    <3>4. refs \in [Branches -> Commit \cup {None}]
      BY <3>1 DEF RepoRec
    <3>5. [repos[path] EXCEPT !.refs = refs] \in RepoRec
      BY <3>1, <3>4, RepoShape
    <3>6. [calls[c] EXCEPT !.pc = "answer"] \in CallRec
      BY CallShape DEF InFlight
    <3>7. /\ commits' = [commits EXCEPT ![c] = new]
          /\ repos' = [repos EXCEPT ![path] = [repos[path] EXCEPT !.refs = refs]]
          /\ calls' = [calls EXCEPT ![c] = [calls[c] EXCEPT !.pc = "answer"]]
          /\ UNCHANGED <<projects, stores, pipelines, pushes>>
      BY <2>10 DEF UpdateHead, Repo
    <3> HIDE DEF path, new, refs
    <3>8. QED
      BY <3>1, <3>3, <3>5, <3>6, <3>7
  <2>11. CASE Answer(c)
    <3>1. [Idle EXCEPT !.pc = "done"] \in CallRec
      BY IdleShape, CallShape
    <3>2. [projects[calls[c].project] EXCEPT !.sha = c] \in ProjectRec
      <4>1. projects[calls[c].project] \in ProjectRec
        BY <2>11 DEF Answer, Located, InFlight
      <4>2. QED
        BY ONLY <4>1, c \in Calls DEF ProjectRec
    <3>3. QED
      BY <2>11, <3>1, <3>2 DEF Answer
  <2>12. CASE Fail(c)
    <3>1. [Idle EXCEPT !.pc = "failed", !.project = calls[c].project] \in CallRec
      BY IdleShape DEF Idle, CallRec
    <3>2. QED
      BY <2>12, <3>1 DEF Fail
  <2>13. QED
    BY <1>3, <2>1, <2>2, <2>3, <2>4, <2>5, <2>6, <2>7, <2>8, <2>9, <2>10, <2>11, <2>12 DEF CommitStep
<1>4. ASSUME NEW k \in Pushes, PushStep(k) PROVE TypeOK'
  <2>1. ASSUME NEW path \in Paths, NEW b \in Branches, NEW base \in Commit \cup {None},
               NEW f \in Files, PushBranch(k, path, b, base, f)
        PROVE  TypeOK'
    <3> DEFINE new  == [path |-> path, tree |-> [TreeOf(base) EXCEPT ![f] = k],
                        past |-> Past(base) \cup {k}]
               refs == [repos[path].refs EXCEPT ![b] = k]
    <3>1. k \in Commit
      BY DEF Commit
    <3>2. TreeOf(base) \in Tree /\ Past(base) \subseteq Commit
      BY <2>1, IdleShape DEF PushBranch, TreeOf, Past, CommitRec
    <3>3. [TreeOf(base) EXCEPT ![f] = k] \in Tree
      BY <3>1, <3>2 DEF Tree
    <3>4. new \in CommitRec
      BY <3>1, <3>2, <3>3 DEF CommitRec
    <3>5. refs \in [Branches -> Commit \cup {None}]
      BY <3>1 DEF RepoRec
    <3>6. [repos[path] EXCEPT !.refs = refs] \in RepoRec
      BY <3>5, RepoShape
    <3>7. [pushes[k] EXCEPT !.pc = "head", !.path = path] \in PushRec
      BY DEF PushRec
    <3>8. /\ commits' = [commits EXCEPT ![k] = new]
          /\ repos' = [repos EXCEPT ![path] = [repos[path] EXCEPT !.refs = refs]]
          /\ pushes' = [pushes EXCEPT ![k] = [pushes[k] EXCEPT !.pc = "head", !.path = path]]
          /\ UNCHANGED <<projects, stores, pipelines, calls>>
      BY <2>1 DEF PushBranch
    <3> HIDE DEF new, refs
    <3>9. QED
      BY <3>1, <3>4, <3>6, <3>7, <3>8
  <2>2. ASSUME NEW path \in Paths, NEW b \in Branches, PushDelete(k, path, b) PROVE TypeOK'
    <3>1. [repos[path].refs EXCEPT ![b] = None] \in [Branches -> Commit \cup {None}]
      BY DEF RepoRec
    <3>2. [repos[path] EXCEPT !.refs[b] = None] \in RepoRec
      BY <3>1, RepoShape
    <3>3. [pushes[k] EXCEPT !.pc = "head", !.path = path] \in PushRec
      BY DEF PushRec
    <3>4. QED
      BY <2>2, <3>2, <3>3 DEF PushDelete
  <2>3. CASE ReadHead(k)
    <3>1. Fallback(repos[pushes[k].path].refs) \in Branches \cup {None}
      BY DEF Fallback
    <3> DEFINE goal == IF Tip(repos[pushes[k].path]) = None
                       THEN Fallback(repos[pushes[k].path].refs) ELSE None
    <3>2. [pushes[k] EXCEPT !.pc = IF goal = None THEN "done" ELSE "sethead", !.goal = goal] \in PushRec
      BY <3>1 DEF PushRec
    <3>3. QED
      BY <2>3, <3>2 DEF ReadHead
  <2>4. CASE SetHead(k)
    <3>1. pushes[k].path \in Paths /\ pushes[k].goal \in Branches \cup {None}
      BY <2>4 DEF SetHead, CommitsMade, PushRec
    <3>2. [repos[pushes[k].path] EXCEPT !.head = pushes[k].goal] \in RepoRec
      BY <3>1, RepoShape
    <3>3. [pushes[k] EXCEPT !.pc = "done"] \in PushRec
      BY DEF PushRec
    <3>4. QED
      BY <2>4, <3>1, <3>2, <3>3 DEF SetHead
  <2>5. CASE PushFails(k)
    <3>1. [pushes[k] EXCEPT !.pc = "lost"] \in PushRec
      BY DEF PushRec
    <3>2. QED
      BY <2>5, <3>1 DEF PushFails
  <2>6. QED
    BY <1>4, <2>1, <2>2, <2>3, <2>4, <2>5 DEF PushStep
<1>5. CASE Restart
  <2>1. NoProject \in ProjectRec /\ EmptyRepo \in RepoRec /\ [Idle EXCEPT !.pc = "lost"] \in CallRec
    BY IdleShape, CallShape DEF NoProject, ProjectRec, EmptyRepo, RepoRec
  <2>2. \A k \in Pushes : [pushes[k] EXCEPT !.pc = "lost"] \in PushRec
    BY DEF PushRec
  <2>3. QED
    BY <1>5, <2>1, <2>2 DEF Restart
<1>6. CASE UNCHANGED vars
  BY <1>6 DEF vars
<1>7. QED
  BY <1>1, <1>2, <1>3, <1>4, <1>5, <1>6 DEF Next

-----------------------------------------------------------------------------
\* The steps, one by one, for the proofs that follow.
LEMMA Steps ==
  ASSUME [Next]_vars
  PROVE  \/ \E p \in Projects : ProjectCreate(p) \/ PipelineCreate(p)
         \/ \E c \in Calls, p \in Projects, b \in Branches, files \in FileSets : Begin(c, p, b, files)
         \/ \E c \in Calls : Open(c) \/ InitHead(c) \/ SkipReset(c) \/ ResetHead(c) \/ ResetIndex(c)
         \/ \E c \in Calls, f \in Files : AddFile(c, f)
         \/ \E c \in Calls : ReadParent(c) \/ BuildTree(c) \/ UpdateHead(c) \/ Answer(c) \/ Fail(c)
         \/ \E k \in Pushes, path \in Paths, b \in Branches, base \in Commit \cup {None}, f \in Files :
              PushBranch(k, path, b, base, f)
         \/ \E k \in Pushes, path \in Paths, b \in Branches : PushDelete(k, path, b)
         \/ \E k \in Pushes : PushFails(k) \/ ReadHead(k) \/ SetHead(k)
         \/ Restart
         \/ UNCHANGED vars
<1>1. ASSUME NEW c \in Calls, CommitStep(c)
      PROVE  \/ \E p \in Projects, b \in Branches, files \in FileSets : Begin(c, p, b, files)
             \/ Open(c) \/ InitHead(c) \/ SkipReset(c) \/ ResetHead(c) \/ ResetIndex(c)
             \/ \E f \in Files : AddFile(c, f)
             \/ ReadParent(c) \/ BuildTree(c) \/ UpdateHead(c) \/ Answer(c) \/ Fail(c)
  BY <1>1 DEF CommitStep
<1>2. ASSUME NEW k \in Pushes, PushStep(k)
      PROVE  \/ \E path \in Paths, b \in Branches, base \in Commit \cup {None}, f \in Files :
                  PushBranch(k, path, b, base, f)
             \/ \E path \in Paths, b \in Branches : PushDelete(k, path, b)
             \/ PushFails(k) \/ ReadHead(k) \/ SetHead(k)
  BY <1>2 DEF PushStep
<1>3. \/ \E p \in Projects : ProjectCreate(p) \/ PipelineCreate(p)
      \/ \E c \in Calls : CommitStep(c)
      \/ \E k \in Pushes : PushStep(k)
      \/ Restart
      \/ UNCHANGED vars
  BY DEF Next
<1>4. CASE \E c \in Calls : CommitStep(c)
  BY <1>1, <1>4
<1>5. CASE \E k \in Pushes : PushStep(k)
  BY <1>2, <1>5
<1>6. QED
  BY <1>3, <1>4, <1>5

\* A commit object never changes once it is made.
LEMMA CommitsGrow ==
  ASSUME TypeOK, CommitsMade, [Next]_vars, NEW x \in Commit, commits[x] # None
  PROVE  commits'[x] = commits[x]
<1>1. ASSUME NEW c \in Calls, UpdateHead(c) PROVE commits'[x] = commits[x]
  BY <1>1 DEF UpdateHead, CommitsMade, Storing, TypeOK
<1>2. ASSUME NEW k \in Pushes, NEW path, NEW b, NEW base, NEW f, PushBranch(k, path, b, base, f)
      PROVE  commits'[x] = commits[x]
  BY <1>2 DEF PushBranch, CommitsMade, TypeOK
<1>3. QED
  BY <1>1, <1>2, Steps DEF ProjectCreate, PipelineCreate, Begin, Open, InitHead, SkipReset, ResetHead,
     ResetIndex, AddFile, ReadParent, BuildTree, Answer, Fail, PushDelete, PushFails, ReadHead, SetHead, Restart, vars

\* The object a handler or a push makes.
LEMMA NewCommit ==
  ASSUME TypeOK, Located, CommitsMade, [Next]_vars
  PROVE  /\ \A c \in Calls : UpdateHead(c) => commits'[c] # None
         /\ \A k \in Pushes, path \in Paths, b \in Branches, base \in Commit \cup {None}, f \in Files :
              PushBranch(k, path, b, base, f) => commits'[k] # None
<1> TypeOK'
  BY TypeNext
<1>1. ASSUME NEW c \in Calls, UpdateHead(c) PROVE commits'[c] # None
  <2> DEFINE new == [path |-> Path(c), tree |-> calls[c].tree, past |-> Past(calls[c].at) \cup {c}]
  <2>1. commits'[c] = new
    BY <1>1 DEF UpdateHead, TypeOK, Commit
  <2>3. new \in CommitRec
    <3>1. Path(c) \in Paths
      BY <1>1, PathsAssumption DEF UpdateHead, Located, InFlight, Storing, Path
    <3>2. Past(calls[c].at) \subseteq Commit
      BY DEF CommitsMade, Past, CallRec, CommitRec, TypeOK
    <3>3. QED
      BY <3>1, <3>2 DEF CommitRec, CallRec, TypeOK, Commit
  <2>4. QED
    BY <2>1, <2>3, NoneAssumption
<1>2. ASSUME NEW k \in Pushes, NEW path \in Paths, NEW b \in Branches,
             NEW base \in Commit \cup {None}, NEW f \in Files, PushBranch(k, path, b, base, f)
      PROVE  commits'[k] # None
  <2> DEFINE new == [path |-> path, tree |-> [TreeOf(base) EXCEPT ![f] = k], past |-> Past(base) \cup {k}]
  <2>1. commits'[k] = new
    BY <1>2 DEF PushBranch, TypeOK, Commit
  <2>2. TreeOf(base) \in Tree /\ Past(base) \subseteq Commit
    BY <1>2, IdleShape DEF PushBranch, TreeOf, Past, CommitRec, TypeOK
  <2>3. [TreeOf(base) EXCEPT ![f] = k] \in Tree
    BY <2>2 DEF Tree, Commit
  <2>4. new \in CommitRec
    BY <2>2, <2>3 DEF CommitRec, Commit
  <2>5. QED
    BY <2>1, <2>4, NoneAssumption
<1>3. QED
  BY <1>1, <1>2

\* Handlers in flight keep their project and their branch.
LEMMA LocatedNext == TypeOK /\ Located /\ [Next]_vars => Located'
<1> SUFFICES ASSUME TypeOK, Located, [Next]_vars, NEW c \in Calls, calls'[c].pc \in InFlight
             PROVE  calls'[c].project \in Projects /\ calls'[c].branch \in Branches
  BY DEF Located
<1> calls \in [Calls -> CallRec] /\ calls[c] \in CallRec
  BY DEF TypeOK
<1>1. ASSUME NEW d \in Calls, NEW p \in Projects, NEW b \in Branches, NEW files, Begin(d, p, b, files)
      PROVE  calls'[c].project \in Projects /\ calls'[c].branch \in Branches
  BY <1>1 DEF Begin, Located, Idle
<1>2. ASSUME NEW d \in Calls,
             Open(d) \/ InitHead(d) \/ SkipReset(d) \/ ResetHead(d) \/ ResetIndex(d)
               \/ ReadParent(d) \/ BuildTree(d) \/ UpdateHead(d)
      PROVE  calls'[c].project \in Projects /\ calls'[c].branch \in Branches
  BY <1>2 DEF Located, CallRec, InFlight, Storing, Open, InitHead, SkipReset, ResetHead, ResetIndex,
     ReadParent, BuildTree, UpdateHead
<1>3. ASSUME NEW d \in Calls, NEW f, AddFile(d, f)
      PROVE  calls'[c].project \in Projects /\ calls'[c].branch \in Branches
  BY <1>3 DEF Located, CallRec, AddFile
<1>4. ASSUME NEW d \in Calls, Answer(d) \/ Fail(d)
      PROVE  calls'[c].project \in Projects /\ calls'[c].branch \in Branches
  <2>1. c # d
    <3>1. ~ (Answer(c) \/ Fail(c))
      <4>1. Answer(c) \/ Fail(c) => calls'[c].pc \in {"done", "failed"}
        BY DEF Answer, Fail, Idle
      <4>2. QED
        BY <4>1 DEF InFlight, Storing
    <3>2. QED
      BY <1>4, <3>1
  <2>2. calls'[c] = calls[c]
    BY <1>4, <2>1 DEF Answer, Fail
  <2>3. QED
    BY <2>2 DEF Located
<1>5. CASE Restart
  <2>1. calls'[c] = calls[c] \/ calls'[c].pc = "lost"
    BY <1>5 DEF Restart, Idle
  <2>2. calls'[c] = calls[c]
    BY <2>1 DEF InFlight, Storing
  <2>3. QED
    BY <2>2 DEF Located
<1>6. QED
  BY ZenonT(60), <1>1, <1>2, <1>3, <1>4, <1>5, Steps DEF Located, ProjectCreate, PipelineCreate, PushBranch, PushDelete,
     PushFails, ReadHead, SetHead, vars

\* Only commits that exist are named.
LEMMA CommitsMadeNext == TypeOK /\ Located /\ CommitsMade /\ [Next]_vars => CommitsMade'
<1> SUFFICES ASSUME TypeOK, Located, CommitsMade, [Next]_vars PROVE CommitsMade'
  OBVIOUS
<1> USE DEF Commit
<1> TypeOK'
  BY TypeNext
<1>1. ASSUME NEW path \in Paths, NEW b \in Branches, repos'[path].refs[b] # None
      PROVE  commits'[repos'[path].refs[b]] # None
  <2> DEFINE x == repos'[path].refs[b]
  <2>1. x \in Commit
    BY <1>1 DEF TypeOK, RepoRec
  <2>2. ASSUME commits[x] # None PROVE commits'[x] # None
    BY <2>1, <2>2, CommitsGrow
  <2>3. ASSUME \E bb \in Branches : x = repos[path].refs[bb]
        PROVE  commits'[x] # None
    BY <1>1, <2>2, <2>3 DEF CommitsMade
  <2>4. ASSUME NEW c \in Calls, ResetHead(c) PROVE commits'[x] # None
    <3>1. calls[c].branch \in Branches /\ Path(c) \in Paths
      BY <2>4, PathsAssumption DEF ResetHead, Located, InFlight, Storing, Path
    <3>2. QED
      BY <2>3, <2>4, <3>1 DEF ResetHead, Repo, TypeOK, RepoRec
  <2>5. ASSUME NEW c \in Calls, UpdateHead(c) PROVE commits'[x] # None
    <3>1. Path(c) \in Paths
      BY <2>5, PathsAssumption DEF UpdateHead, Located, InFlight, Storing, Path
    <3>2. commits'[c] # None
      BY <2>5, NewCommit
    <3>3. CASE x = c
      BY <3>2, <3>3
    <3>4. CASE x # c
      BY <2>3, <2>5, <3>1, <3>4 DEF UpdateHead, Repo, TypeOK, RepoRec
    <3>5. QED
      BY <3>3, <3>4
  <2>6. ASSUME NEW k \in Pushes, NEW path2 \in Paths, NEW b2 \in Branches,
               NEW base \in Commit \cup {None}, NEW f \in Files, PushBranch(k, path2, b2, base, f)
        PROVE  commits'[x] # None
    <3>1. commits'[k] # None
      BY <2>6, NewCommit
    <3>2. CASE x = k
      BY <3>1, <3>2
    <3>3. CASE x # k
      BY <2>3, <2>6, <3>3 DEF PushBranch, TypeOK, RepoRec
    <3>4. QED
      BY <3>2, <3>3
  <2>7. ASSUME NEW k \in Pushes, NEW path2 \in Paths, NEW b2 \in Branches, PushDelete(k, path2, b2)
        PROVE  commits'[x] # None
    BY <1>1, <2>3, <2>7 DEF PushDelete, TypeOK, RepoRec
  <2>8. CASE Restart
    BY <1>1, <2>3, <2>8 DEF Restart, EmptyRepo
  <2>9. ASSUME repos'[path].refs = repos[path].refs PROVE commits'[x] # None
    BY <2>3, <2>9
  <2>10. ASSUME NEW c \in Calls, InitHead(c) \/ ResetIndex(c) PROVE commits'[x] # None
    <3>1. CASE InitHead(c)
      BY <2>9, <3>1 DEF InitHead, TypeOK, RepoRec
    <3>2. CASE ResetIndex(c)
      BY <2>9, <3>2 DEF ResetIndex, TypeOK, RepoRec
    <3>3. QED
      BY <2>10, <3>1, <3>2
  <2>11. ASSUME NEW c \in Calls, NEW f \in Files, AddFile(c, f) PROVE commits'[x] # None
    BY <2>9, <2>11 DEF AddFile, TypeOK, RepoRec
  <2>12. ASSUME NEW k \in Pushes, SetHead(k) PROVE commits'[x] # None
    BY <2>9, <2>12 DEF SetHead, TypeOK, RepoRec
  <2>13. QED
    BY ZenonT(60), <2>4, <2>5, <2>6, <2>7, <2>8, <2>9, <2>10, <2>11, <2>12, Steps DEF ProjectCreate, PipelineCreate,
       Begin, Open, SkipReset, ReadParent, BuildTree, Answer, Fail, PushFails, ReadHead, vars
<1>2. ASSUME NEW c \in Calls, calls'[c].at # None
      PROVE  commits'[calls'[c].at] # None
  <2>1. calls'[c].at \in Commit
    BY <1>2 DEF TypeOK, CallRec
  <2>2. ASSUME commits[calls'[c].at] # None PROVE commits'[calls'[c].at] # None
    BY <2>1, <2>2, CommitsGrow
  <2>3. ASSUME calls'[c].at = calls[c].at PROVE commits'[calls'[c].at] # None
    BY <1>2, <2>2, <2>3 DEF CommitsMade
  <2>4. ASSUME NEW d \in Calls, ResetHead(d) PROVE commits'[calls'[c].at] # None
    <3>1. calls[d].branch \in Branches /\ Path(d) \in Paths
      BY <2>4, PathsAssumption DEF ResetHead, Located, InFlight, Storing, Path
    <3>2. CASE c = d
      BY <2>2, <2>4, <3>1, <3>2 DEF ResetHead, Repo, TypeOK, CallRec, CommitsMade
    <3>3. CASE c # d
      BY <2>3, <2>4, <3>3 DEF ResetHead, TypeOK
    <3>4. QED
      BY <3>2, <3>3
  <2>5. ASSUME NEW d \in Calls, ReadParent(d) PROVE commits'[calls'[c].at] # None
    <3>1. Path(d) \in Paths
      BY <2>5, PathsAssumption DEF ReadParent, Located, InFlight, Storing, Path
    <3>2. CASE c = d
      <4>1. calls'[c].at = Tip(Repo(d))
        BY <2>5, <3>2 DEF ReadParent, TypeOK, CallRec
      <4>2. QED
        BY <1>2, <2>2, <3>1, <4>1 DEF Tip, Repo, TypeOK, RepoRec, CommitsMade
    <3>3. CASE c # d
      BY <2>3, <2>5, <3>3 DEF ReadParent, TypeOK
    <3>4. QED
      BY <3>2, <3>3
  <2>6. ASSUME NEW d \in Calls, NEW p, NEW b, NEW files, Begin(d, p, b, files)
        PROVE  commits'[calls'[c].at] # None
    BY <1>2, <2>3, <2>6 DEF Begin, Idle, TypeOK
  <2>7. ASSUME NEW d \in Calls,
               Open(d) \/ InitHead(d) \/ SkipReset(d) \/ ResetIndex(d) \/ BuildTree(d) \/ UpdateHead(d)
                 \/ Answer(d) \/ Fail(d)
        PROVE  commits'[calls'[c].at] # None
    <3>1. calls'[c].at = calls[c].at \/ calls'[c].at = None
      <4>1. CASE Answer(d) \/ Fail(d)
        <5>1. Idle.at = None
          BY DEF Idle
        <5>2. c = d => calls'[c].at = None
          <6>1. CASE Answer(d)
            BY <6>1, <5>1 DEF Answer, TypeOK, Idle
          <6>2. CASE Fail(d)
            BY <6>2, <5>1 DEF Fail, TypeOK, Idle
          <6>3. QED
            BY <4>1, <6>1, <6>2
        <5>3. c # d => calls'[c] = calls[c]
          BY <4>1 DEF Answer, Fail, TypeOK
        <5>4. QED
          BY <5>2, <5>3
      <4> calls \in [Calls -> CallRec] /\ calls[d] \in CallRec
        BY DEF TypeOK
      <4>2. CASE Open(d) \/ InitHead(d) \/ SkipReset(d)
        BY <4>2 DEF Open, InitHead, SkipReset, CallRec
      <4>3. CASE ResetIndex(d) \/ BuildTree(d) \/ UpdateHead(d)
        BY <4>3 DEF ResetIndex, BuildTree, UpdateHead, CallRec
      <4>4. QED
        BY <2>7, <4>1, <4>2, <4>3
    <3>2. QED
      BY <1>2, <2>3, <3>1
  <2>8. ASSUME NEW d \in Calls, NEW f, AddFile(d, f) PROVE commits'[calls'[c].at] # None
    BY <2>3, <2>8 DEF AddFile, TypeOK, CallRec
  <2>9. CASE Restart
    BY <1>2, <2>3, <2>9 DEF Restart, Idle
  <2>10. QED
    BY ZenonT(60), <2>3, <2>4, <2>5, <2>6, <2>7, <2>8, <2>9, Steps DEF ProjectCreate, PipelineCreate,
       PushBranch, PushDelete, PushFails, ReadHead, SetHead, vars
<1>3. ASSUME NEW c \in Calls, calls'[c].pc \in {"idle"} \cup Storing PROVE commits'[c] = None
  <2>1. calls[c].pc \in {"idle"} \cup Storing /\ commits'[c] = commits[c]
    <3> calls[c] \in CallRec /\ calls \in [Calls -> CallRec] /\ commits \in [Commit -> CommitRec \cup {None}]
      BY DEF TypeOK
    <3>1. ASSUME NEW d \in Calls, NEW p, NEW b, NEW files, Begin(d, p, b, files)
          PROVE  calls[c].pc \in {"idle"} \cup Storing /\ commits'[c] = commits[c]
      BY <1>3, <3>1 DEF Begin, Idle, Storing
    <3>2. ASSUME NEW d \in Calls,
                 Open(d) \/ InitHead(d) \/ SkipReset(d) \/ ResetHead(d) \/ ResetIndex(d)
                   \/ ReadParent(d) \/ BuildTree(d)
          PROVE  calls[c].pc \in {"idle"} \cup Storing /\ commits'[c] = commits[c]
      BY <1>3, <3>2 DEF Open, InitHead, SkipReset, ResetHead, ResetIndex, ReadParent, BuildTree,
         CallRec, Storing
    <3>3. ASSUME NEW d \in Calls, NEW f, AddFile(d, f)
          PROVE  calls[c].pc \in {"idle"} \cup Storing /\ commits'[c] = commits[c]
      BY <1>3, <3>3 DEF AddFile, CallRec
    <3>4. ASSUME NEW d \in Calls, UpdateHead(d) \/ Answer(d) \/ Fail(d)
          PROVE  calls[c].pc \in {"idle"} \cup Storing /\ commits'[c] = commits[c]
      <4>1. CASE UpdateHead(d)
        BY <1>3, <4>1 DEF UpdateHead, CallRec, Storing
      <4>2. CASE Answer(d) \/ Fail(d)
        <5>1. calls'[d].pc \in {"done", "failed"} /\ commits' = commits
          BY <4>2 DEF Answer, Fail, Idle
        <5>2. c # d
          BY <1>3, <5>1 DEF Storing
        <5>3. calls'[c] = calls[c]
          BY <4>2, <5>2 DEF Answer, Fail
        <5>4. QED
          BY <1>3, <5>1, <5>3
      <4>3. QED
        BY <3>4, <4>1, <4>2
    <3>5. ASSUME NEW k \in Pushes, NEW path, NEW b, NEW base, NEW f, PushBranch(k, path, b, base, f)
          PROVE  calls[c].pc \in {"idle"} \cup Storing /\ commits'[c] = commits[c]
      BY <1>3, <3>5, PushesAssumption DEF PushBranch
    <3>6. CASE Restart
      <4>1. calls'[c] = calls[c] \/ calls'[c].pc = "lost"
        BY <3>6 DEF Restart, Idle
      <4>2. QED
        BY <1>3, <3>6, <4>1 DEF Restart, Storing
    <3>7. QED
      BY <1>3, <3>1, <3>2, <3>3, <3>4, <3>5, <3>6, Steps DEF ProjectCreate, PipelineCreate, PushDelete,
         PushFails, ReadHead, SetHead, vars
  <2>2. QED
    BY <2>1 DEF CommitsMade
<1>4. ASSUME NEW k \in Pushes
      PROVE  /\ pushes'[k].pc = "idle" => commits'[k] = None
             /\ pushes'[k].pc = "idle" <=> pushes'[k].path = None
  <2> pushes[k] \in PushRec /\ pushes \in [Pushes -> PushRec] /\ commits \in [Commit -> CommitRec \cup {None}]
    BY DEF TypeOK
  <2>1. /\ pushes[k].pc = "idle" => commits[k] = None
        /\ pushes[k].pc = "idle" <=> pushes[k].path = None
    BY DEF CommitsMade
  <2>2. ASSUME NEW l \in Pushes, NEW path \in Paths, NEW b, NEW base, NEW f, PushBranch(l, path, b, base, f)
        PROVE  /\ pushes'[k].pc = "idle" => commits'[k] = None
               /\ pushes'[k].pc = "idle" <=> pushes'[k].path = None
    BY <2>1, <2>2, NamesAssumption DEF PushBranch, PushRec
  <2>3. ASSUME NEW l \in Pushes, NEW path \in Paths, NEW b, PushDelete(l, path, b)
        PROVE  /\ pushes'[k].pc = "idle" => commits'[k] = None
               /\ pushes'[k].pc = "idle" <=> pushes'[k].path = None
    BY <2>1, <2>3, NamesAssumption DEF PushDelete, PushRec
  <2>4. ASSUME NEW l \in Pushes, PushFails(l) \/ ReadHead(l) \/ SetHead(l)
        PROVE  /\ pushes'[k].pc = "idle" => commits'[k] = None
               /\ pushes'[k].pc = "idle" <=> pushes'[k].path = None
    BY <2>1, <2>4 DEF PushFails, ReadHead, SetHead, PushRec
  <2>5. CASE Restart
    BY <2>1, <2>5 DEF Restart, PushRec
  <2>6. ASSUME NEW c \in Calls, UpdateHead(c)
        PROVE  /\ pushes'[k].pc = "idle" => commits'[k] = None
               /\ pushes'[k].pc = "idle" <=> pushes'[k].path = None
    BY <2>1, <2>6, PushesAssumption DEF UpdateHead
  <2>7. QED
    BY ZenonT(60), <2>1, <2>2, <2>3, <2>4, <2>5, <2>6, Steps DEF ProjectCreate, PipelineCreate,
       Begin, Open, InitHead, SkipReset, ResetHead, ResetIndex, AddFile, ReadParent, BuildTree, Answer, Fail, vars
<1>5. QED
  BY <1>1, <1>2, <1>3, <1>4 DEF CommitsMade

\* An answer is about the commit the handler made, in its project's repository.
LEMMA AnswerableNext == TypeOK /\ Located /\ CommitsMade /\ Answerable /\ [Next]_vars => Answerable'
<1> SUFFICES ASSUME TypeOK, Located, CommitsMade, Answerable, [Next]_vars, NEW c \in Calls
             PROVE  /\ calls'[c].pc \in {"answer", "done"} => commits'[c] # None
                    /\ calls'[c].pc = "answer" => commits'[c].path = Path(c)'
  BY DEF Answerable
<1> calls \in [Calls -> CallRec] /\ c \in Commit
  BY DEF TypeOK, Commit
<1>1. ASSUME UpdateHead(c)
      PROVE  /\ commits'[c] # None
             /\ commits'[c].path = Path(c)'
  <2>1. commits'[c].path = Path(c)
    BY <1>1 DEF UpdateHead, TypeOK
  <2>2. Path(c)' = Path(c)
    BY <1>1 DEF UpdateHead, Path, CallRec
  <2>3. QED
    BY <1>1, <2>1, <2>2, NewCommit
<1>2. ASSUME Answer(c)
      PROVE  calls'[c].pc = "done" /\ commits'[c] # None
  BY <1>2 DEF Answer, Answerable, Idle
<1>3. ASSUME ~UpdateHead(c), ~Answer(c), calls'[c].pc \in {"answer", "done"}
      PROVE  calls'[c] = calls[c]
  <2>1. ASSUME NEW d \in Calls, NEW p, NEW b, NEW files, Begin(d, p, b, files) PROVE calls'[c] = calls[c]
    BY <1>3, <2>1 DEF Begin, Idle
  <2>2. ASSUME NEW d \in Calls, d # c,
               Open(d) \/ InitHead(d) \/ SkipReset(d) \/ ResetHead(d) \/ ResetIndex(d)
                 \/ ReadParent(d) \/ BuildTree(d) \/ UpdateHead(d) \/ Answer(d) \/ Fail(d)
        PROVE  calls'[c] = calls[c]
    BY <2>2 DEF Open, InitHead, SkipReset, ResetHead, ResetIndex, ReadParent, BuildTree, UpdateHead, Answer, Fail
  <2>3. ASSUME Open(c) \/ InitHead(c) \/ SkipReset(c) \/ ResetHead(c) \/ ResetIndex(c)
                 \/ ReadParent(c) \/ BuildTree(c) \/ Fail(c)
        PROVE  FALSE
    <3> calls[c] \in CallRec
      OBVIOUS
    <3>1. CASE Open(c) \/ InitHead(c) \/ SkipReset(c)
      BY <1>3, <3>1 DEF Open, InitHead, SkipReset, CallRec
    <3>2. CASE ResetHead(c) \/ ResetIndex(c)
      BY <1>3, <3>2 DEF ResetHead, ResetIndex, CallRec
    <3>3. CASE ReadParent(c) \/ BuildTree(c)
      BY <1>3, <3>3 DEF ReadParent, BuildTree, CallRec
    <3>4. CASE Fail(c)
      BY <1>3, <3>4 DEF Fail, Idle
    <3>5. QED
      BY <2>3, <3>1, <3>2, <3>3, <3>4
  <2>4. ASSUME NEW d \in Calls, NEW f, AddFile(d, f) PROVE calls'[c] = calls[c]
    BY <1>3, <2>4 DEF AddFile, CallRec
  <2>5. CASE Restart
    BY <1>3, <2>5 DEF Restart, Idle
  <2>6. QED
    BY ZenonT(60), <1>3, <2>1, <2>2, <2>3, <2>4, <2>5, Steps DEF ProjectCreate, PipelineCreate,
       PushBranch, PushDelete, PushFails, ReadHead, SetHead, vars
<1>4. ASSUME calls'[c] = calls[c]
      PROVE  /\ calls'[c].pc \in {"answer", "done"} => commits'[c] # None
             /\ calls'[c].pc = "answer" => commits'[c].path = Path(c)'
  <2>1. commits[c] # None => commits'[c] = commits[c]
    BY CommitsGrow
  <2>2. Path(c)' = Path(c)
    BY <1>4 DEF Path
  <2>3. QED
    BY <1>4, <2>1, <2>2 DEF Answerable
<1>5. QED
  BY <1>1, <1>2, <1>3, <1>4

-----------------------------------------------------------------------------
Base == TypeOK /\ Located /\ CommitsMade /\ Answerable

LEMMA BaseNext == Base /\ [Next]_vars => Base'
BY TypeNext, LocatedNext, CommitsMadeNext, AnswerableNext DEF Base

LEMMA BaseInit == Init => Base
<1> SUFFICES ASSUME Init PROVE Base
  OBVIOUS
<1>1. TypeOK
  <2>1. NoProject \in ProjectRec /\ EmptyRepo \in RepoRec
    BY IdleShape DEF NoProject, ProjectRec, EmptyRepo, RepoRec
  <2>2. [pc |-> "idle", path |-> None, goal |-> None] \in PushRec
    BY DEF PushRec
  <2>3. QED
    BY <2>1, <2>2, IdleShape DEF Init, TypeOK
<1>2. Located /\ Answerable
  BY DEF Init, Located, Answerable, Idle, InFlight, Storing
<1>3. CommitsMade
  BY DEF Init, CommitsMade, Idle, EmptyRepo, Commit
<1>4. QED
  BY <1>1, <1>2, <1>3 DEF Base

\* Projects, repositories, commit objects, pipelines and the handlers that
\* share them stay well formed (projects_api.go, git.go).
THEOREM TypeCorrect == Spec => []TypeOK
<1>1. Base => TypeOK
  BY DEF Base
<1>2. QED
  BY <1>1, BaseInit, BaseNext, PTL DEF Spec

-----------------------------------------------------------------------------
(* Callers that take turns. *)

\* A handler's record changes by its own steps, or by a restart that ends it.
LEMMA CallStep ==
  ASSUME TypeOK, [Next]_vars, NEW c \in Calls
  PROVE  \/ calls'[c] = calls[c]
         \/ \E p \in Projects, b \in Branches, files \in FileSets : Begin(c, p, b, files)
         \/ Open(c) \/ InitHead(c) \/ SkipReset(c) \/ ResetHead(c) \/ ResetIndex(c)
         \/ \E f \in Files : AddFile(c, f)
         \/ ReadParent(c) \/ BuildTree(c) \/ UpdateHead(c) \/ Answer(c) \/ Fail(c)
         \/ Restart /\ calls'[c] = [Idle EXCEPT !.pc = "lost"] /\ calls'[c].pc = "lost"
<1> calls \in [Calls -> CallRec]
  BY DEF TypeOK
<1>1. ASSUME NEW d \in Calls, d # c, NEW p, NEW b, NEW files, Begin(d, p, b, files) PROVE calls'[c] = calls[c]
  BY <1>1 DEF Begin
<1>2. ASSUME NEW d \in Calls, d # c,
             Open(d) \/ InitHead(d) \/ SkipReset(d) \/ ResetHead(d) \/ ResetIndex(d)
               \/ ReadParent(d) \/ BuildTree(d) \/ UpdateHead(d) \/ Answer(d) \/ Fail(d)
      PROVE  calls'[c] = calls[c]
  BY <1>2 DEF Open, InitHead, SkipReset, ResetHead, ResetIndex, ReadParent, BuildTree, UpdateHead, Answer, Fail
<1>3. ASSUME NEW d \in Calls, d # c, NEW f, AddFile(d, f) PROVE calls'[c] = calls[c]
  BY <1>3 DEF AddFile
<1>4. ASSUME Restart
      PROVE  calls'[c] = calls[c] \/ (calls'[c] = [Idle EXCEPT !.pc = "lost"] /\ calls'[c].pc = "lost")
  BY <1>4 DEF Restart, Idle
<1>5. \/ calls' = calls
      \/ \E d \in Calls, p \in Projects, b \in Branches, files \in FileSets : Begin(d, p, b, files)
      \/ \E d \in Calls : Open(d) \/ InitHead(d) \/ SkipReset(d) \/ ResetHead(d) \/ ResetIndex(d)
            \/ ReadParent(d) \/ BuildTree(d) \/ UpdateHead(d) \/ Answer(d) \/ Fail(d)
      \/ \E d \in Calls, f \in Files : AddFile(d, f)
      \/ Restart
  BY ZenonT(60), Steps DEF ProjectCreate, PipelineCreate, PushBranch, PushDelete, PushFails, ReadHead, SetHead, vars
<1>6. QED
  BY <1>1, <1>2, <1>3, <1>4, <1>5

\* Inside seedCommit past git.Init, a handler came there by its own steps.
LEMMA StoringStep ==
  ASSUME TypeOK, [Next]_vars, NEW c \in Calls, calls'[c].pc \in Storing \ {"open", "init"}, ~Open(c), ~InitHead(c)
  PROVE  calls[c].pc \in Storing \ {"open", "init"} /\ calls'[c].project = calls[c].project
<1> calls \in [Calls -> CallRec] /\ calls[c] \in CallRec
  BY DEF TypeOK
<1>1. ASSUME NEW p \in Projects, NEW b \in Branches, NEW files, Begin(c, p, b, files) PROVE FALSE
  BY <1>1 DEF Begin, Idle, CallRec, Storing
<1>2. CASE SkipReset(c) \/ ResetHead(c) \/ ResetIndex(c)
  BY <1>2 DEF SkipReset, ResetHead, ResetIndex, CallRec, Storing
<1>3. ASSUME NEW f, AddFile(c, f)
      PROVE  calls[c].pc \in Storing \ {"open", "init"} /\ calls'[c].project = calls[c].project
  BY <1>3 DEF AddFile, CallRec, Storing
<1>4. CASE ReadParent(c) \/ BuildTree(c)
  BY <1>4 DEF ReadParent, BuildTree, CallRec, Storing
<1>5. ASSUME UpdateHead(c) PROVE FALSE
  BY <1>5 DEF UpdateHead, CallRec, Storing
<1>6. ASSUME Answer(c) \/ Fail(c) PROVE FALSE
  <2>1. calls'[c].pc \in {"done", "failed"}
    BY <1>6 DEF Answer, Fail, Idle
  <2>2. QED
    BY <2>1 DEF Storing
<1>7. calls'[c].pc # "lost"
  BY DEF Storing
<1>8. QED
  BY <1>1, <1>2, <1>3, <1>4, <1>5, <1>6, <1>7, CallStep

\* A handler in flight has just begun, or was in flight for the same project
\* and branch.
LEMMA FlightStep ==
  ASSUME TypeOK, [Next]_vars, NEW c \in Calls, calls'[c].pc \in InFlight
  PROVE  \/ \E p \in Projects, b \in Branches, files \in FileSets : Begin(c, p, b, files)
         \/ /\ calls[c].pc \in InFlight
            /\ calls'[c].project = calls[c].project
            /\ calls'[c].branch = calls[c].branch
<1> calls \in [Calls -> CallRec] /\ calls[c] \in CallRec
  BY DEF TypeOK
<1> DEFINE Same == /\ calls[c].pc \in InFlight
                   /\ calls'[c].project = calls[c].project
                   /\ calls'[c].branch = calls[c].branch
<1>1. calls'[c] = calls[c] => Same
  OBVIOUS
<1>2. ASSUME NEW f, AddFile(c, f) PROVE Same
  BY <1>2 DEF AddFile, CallRec, InFlight, Storing
<1>3. ASSUME Open(c) \/ InitHead(c) \/ SkipReset(c) PROVE Same
  BY <1>3 DEF Open, InitHead, SkipReset, CallRec, InFlight, Storing
<1>4. ASSUME ResetHead(c) \/ ResetIndex(c) PROVE Same
  BY <1>4 DEF ResetHead, ResetIndex, CallRec, InFlight, Storing
<1>5. ASSUME ReadParent(c) \/ BuildTree(c) \/ UpdateHead(c) PROVE Same
  BY <1>5 DEF ReadParent, BuildTree, UpdateHead, CallRec, InFlight, Storing
<1>6. ASSUME Answer(c) PROVE FALSE
  BY <1>6 DEF Answer, Idle, InFlight, Storing
<1>7. ASSUME Fail(c) PROVE FALSE
  BY <1>7 DEF Fail, Idle, InFlight, Storing
<1>8. calls'[c].pc # "lost"
  BY DEF InFlight, Storing
<1> HIDE DEF Same
<1>9. Same \/ \E p \in Projects, b \in Branches, files \in FileSets : Begin(c, p, b, files)
  BY <1>1, <1>2, <1>3, <1>4, <1>5, <1>6, <1>7, <1>8, CallStep
<1>10. QED
  BY <1>9 DEF Same

LEMMA TakeTurnsNext == ASSUME Serial, TypeOK, TakeTurns, [Next]_vars PROVE TakeTurns'
<1> SUFFICES ASSUME NEW c \in Calls, NEW d \in Calls, calls'[c].pc \in InFlight, calls'[d].pc \in InFlight,
                    Path(c)' = Path(d)'
             PROVE  c = d
  BY DEF TakeTurns
<1> calls \in [Calls -> CallRec]
  BY DEF TypeOK
<1>1. ASSUME NEW x \in Calls, NEW y \in Calls, x # y, calls'[x].pc \in InFlight, calls'[y].pc \in InFlight,
             NEW p \in Projects, NEW b \in Branches, NEW files, Begin(x, p, b, files)
      PROVE  Path(x)' # Path(y)'
  <2>1. calls'[y] = calls[y] /\ calls[y].pc \in InFlight
    BY <1>1 DEF Begin
  <2>2. Path(y) # PathOf[p] /\ Path(x)' = PathOf[p] /\ Path(y)' = Path(y)
    BY <1>1, <2>1 DEF Begin, Path, Idle
  <2>3. QED
    BY <2>2
<1>2. ASSUME NEW x \in Calls, calls[x].pc \in InFlight, calls'[x].project = calls[x].project
      PROVE  Path(x)' = Path(x)
  BY <1>2 DEF Path
<1>3. CASE \E p \in Projects, b \in Branches, files \in FileSets : Begin(c, p, b, files) \/ Begin(d, p, b, files)
  BY <1>1, <1>3
<1>4. CASE ~ \E p \in Projects, b \in Branches, files \in FileSets : Begin(c, p, b, files) \/ Begin(d, p, b, files)
  <2>1. /\ calls[c].pc \in InFlight /\ calls'[c].project = calls[c].project
        /\ calls[d].pc \in InFlight /\ calls'[d].project = calls[d].project
    BY <1>4, FlightStep
  <2>2. QED
    BY <1>2, <2>1 DEF TakeTurns
<1>5. QED
  BY <1>3, <1>4

\* A push that is not idle keeps its path.
LEMMA PushPath ==
  ASSUME TypeOK, [Next]_vars, NEW k \in Pushes, pushes[k].pc # "idle"
  PROVE  pushes'[k].path = pushes[k].path
<1> pushes \in [Pushes -> PushRec] /\ pushes[k] \in PushRec
  BY DEF TypeOK
<1>1. ASSUME NEW l \in Pushes, NEW r, NEW b, NEW base, NEW f, PushBranch(l, r, b, base, f)
      PROVE  pushes'[k].path = pushes[k].path
  BY <1>1 DEF PushBranch
<1>2. ASSUME NEW l \in Pushes, NEW r, NEW b, PushDelete(l, r, b) PROVE pushes'[k].path = pushes[k].path
  BY <1>2 DEF PushDelete
<1>3. ASSUME NEW l \in Pushes, PushFails(l) \/ ReadHead(l) \/ SetHead(l) PROVE pushes'[k].path = pushes[k].path
  BY <1>3 DEF PushFails, ReadHead, SetHead, PushRec
<1>4. CASE Restart
  BY <1>4 DEF Restart, PushRec
<1>5. QED
  BY ZenonT(60), <1>1, <1>2, <1>3, <1>4, Steps DEF ProjectCreate, PipelineCreate,
     Begin, Open, InitHead, SkipReset, ResetHead, ResetIndex, AddFile, ReadParent, BuildTree, Answer, Fail,
     UpdateHead, vars

\* A repository once pushed to stays so.
LEMMA UnpushedStep ==
  ASSUME TypeOK, CommitsMade, [Next]_vars, NEW path \in Paths, Unpushed(path)'
  PROVE  Unpushed(path)
<1> SUFFICES ASSUME NEW k \in Pushes, pushes[k].path = path PROVE pushes'[k].path = path
  BY DEF Unpushed
<1>1. pushes[k].pc # "idle"
  BY NamesAssumption DEF CommitsMade
<1>2. QED
  BY <1>1, PushPath

\* What a step does to HEAD and the branches of a repository no job has pushed
\* to: nothing, the HEAD of a first commit, or the next commit on the tip.
SameHeads(path) == repos'[path].head = repos[path].head /\ repos'[path].refs = repos[path].refs

LEMMA HeadsStep ==
  ASSUME Base, Durable \/ ~Restart, [Next]_vars, NEW path \in Paths, Unpushed(path)', OneBranch(path)
  PROVE  \/ SameHeads(path)
         \/ \E c \in Calls : /\ InitHead(c) /\ Path(c) = path
                            /\ repos'[path].head = calls[c].branch /\ repos'[path].refs = repos[path].refs
         \/ \E c \in Calls : /\ UpdateHead(c) /\ Path(c) = path
                            /\ repos'[path].head = repos[path].head
                            /\ repos'[path].refs = [repos[path].refs EXCEPT ![repos[path].head] = c]
<1> USE DEF Base
<1> repos \in [Paths -> RepoRec] /\ repos[path] \in RepoRec
  BY DEF TypeOK
<1> Unpushed(path)
  BY UnpushedStep
<1>1. ASSUME NEW c \in Calls, InitHead(c) \/ UpdateHead(c), Path(c) # path PROVE SameHeads(path)
  BY <1>1 DEF InitHead, UpdateHead, SameHeads
<1>2. ASSUME NEW c \in Calls, InitHead(c), Path(c) = path
      PROVE  repos'[path].head = calls[c].branch /\ repos'[path].refs = repos[path].refs
  BY <1>2 DEF InitHead, RepoRec
<1>3. ASSUME NEW c \in Calls, UpdateHead(c), Path(c) = path
      PROVE  /\ repos'[path].head = repos[path].head
             /\ repos'[path].refs = [repos[path].refs EXCEPT ![repos[path].head] = c]
  BY <1>3 DEF UpdateHead, Repo, RepoRec
<1>4. ASSUME NEW c \in Calls, ResetHead(c) PROVE SameHeads(path)
  <2>1. CASE Path(c) # path
    BY <1>4, <2>1 DEF ResetHead, SameHeads
  <2>2. CASE Path(c) = path
    <3>1. calls[c].branch \in Branches
      BY <1>4 DEF ResetHead, Located, InFlight, Storing
    <3>2. calls[c].branch = repos[path].head
      BY <1>4, <2>2, <3>1 DEF ResetHead, OneBranch, Repo
    <3>3. [repos[path].refs EXCEPT ![repos[path].head] = repos[path].refs[calls[c].branch]] = repos[path].refs
      BY <3>1, <3>2 DEF RepoRec
    <3>4. repos' = [repos EXCEPT ![path] = [repos[path] EXCEPT !.refs = repos[path].refs]]
      BY <1>4, <2>2, <3>3 DEF ResetHead, Repo
    <3>5. QED
      BY <3>4 DEF SameHeads, RepoRec
  <2>3. QED
    BY <2>1, <2>2
<1>5. ASSUME NEW c \in Calls, ResetIndex(c) PROVE SameHeads(path)
  BY <1>5 DEF ResetIndex, SameHeads, RepoRec
<1>6. ASSUME NEW c \in Calls, NEW f, AddFile(c, f) PROVE SameHeads(path)
  BY <1>6 DEF AddFile, SameHeads, RepoRec
<1>7. ASSUME NEW k \in Pushes, NEW r \in Paths, NEW b, NEW base, NEW f, PushBranch(k, r, b, base, f)
      PROVE  SameHeads(path)
  <2>1. r # path
    BY <1>7 DEF PushBranch, Unpushed, TypeOK, PushRec
  <2>2. QED
    BY <1>7, <2>1 DEF PushBranch, SameHeads
<1>8. ASSUME NEW k \in Pushes, NEW r \in Paths, NEW b, PushDelete(k, r, b) PROVE SameHeads(path)
  <2>1. r # path
    BY <1>8 DEF PushDelete, Unpushed, TypeOK, PushRec
  <2>2. QED
    BY <1>8, <2>1 DEF PushDelete, SameHeads
<1>9. ASSUME NEW k \in Pushes, SetHead(k) PROVE SameHeads(path)
  BY <1>9 DEF SetHead, SameHeads, Unpushed
<1>10. CASE Restart
  BY <1>10 DEF Restart, SameHeads
<1>11. CASE repos' = repos
  BY <1>11 DEF SameHeads
<1>12. QED
  BY <1>1, <1>2, <1>3, <1>4, <1>5, <1>6, <1>7, <1>8, <1>9, <1>10, <1>11, Steps DEF ProjectCreate, PipelineCreate,
     Begin, Open, SkipReset, ReadParent, BuildTree, Answer, Fail, PushFails, ReadHead, vars

\* What HEAD reaches only grows.
LEMMA TipStep ==
  ASSUME Base, Durable \/ ~Restart, [Next]_vars, NEW path \in Paths, Unpushed(path)', OneBranch(path), Reached(path),
         NEW x \in Past(Tip(repos[path]))
  PROVE  x \in Past(Tip(repos[path]))'
<1> USE DEF Base
<1> repos \in [Paths -> RepoRec] /\ repos[path] \in RepoRec /\ repos' \in [Paths -> RepoRec]
  BY BaseNext DEF TypeOK
<1> DEFINE tip == Tip(repos[path])
<1>1. tip # None /\ repos[path].head \in Branches /\ tip = repos[path].refs[repos[path].head] /\ tip \in Commit
  BY DEF Past, Tip, RepoRec
<1>2. commits[tip] # None /\ Past(tip) = commits[tip].past
  BY <1>1 DEF CommitsMade, Past
<1>3. commits'[tip] = commits[tip]
  BY <1>1, <1>2, CommitsGrow
<1>4. ASSUME SameHeads(path) PROVE x \in Past(Tip(repos[path]))'
  <2>1. Tip(repos[path])' = tip
    BY <1>4 DEF SameHeads, Tip
  <2>2. QED
    BY <1>1, <1>2, <1>3, <2>1 DEF Past
<1>5. ASSUME NEW c \in Calls, InitHead(c), Path(c) = path PROVE FALSE
  <2>1. repos[path].head = None
    BY <1>5 DEF InitHead, OneBranch
  <2>2. QED
    BY <1>1, <2>1, NamesAssumption
<1>6. ASSUME NEW c \in Calls, UpdateHead(c), Path(c) = path, repos'[path].head = repos[path].head,
             repos'[path].refs = [repos[path].refs EXCEPT ![repos[path].head] = c]
      PROVE  x \in Past(Tip(repos[path]))'
  <2>1. Tip(repos[path])' = c
    BY <1>1, <1>6, NamesAssumption DEF Tip, RepoRec
  <2>2. calls[c].at = tip
    BY <1>6 DEF UpdateHead, Reached
  <2>3. commits'[c].past = Past(tip) \cup {c}
    BY <1>6, <2>2 DEF UpdateHead, TypeOK, Commit
  <2>4. Past(c)' = commits'[c].past
    BY NamesAssumption DEF Past, Commit
  <2>5. QED
    BY <2>1, <2>3, <2>4
<1>7. QED
  BY <1>4, <1>5, <1>6, HeadsStep

LEMMA OneBranchNext ==
  ASSUME Base, Durable \/ ~Restart, TakeTurns, [Next]_vars, NEW path \in Paths, Unpushed(path)', OneBranch(path)
  PROVE  OneBranch(path)'
<1> USE DEF Base
<1> repos \in [Paths -> RepoRec] /\ repos[path] \in RepoRec /\ repos' \in [Paths -> RepoRec]
  BY BaseNext DEF TypeOK
<1> calls \in [Calls -> CallRec]
  BY DEF TypeOK
<1> DEFINE head == repos[path].head
\* HEAD is set once.
<1>1. head # None => repos'[path].head = head
  <2>1. ASSUME NEW c \in Calls, InitHead(c), Path(c) = path PROVE head = None
    BY <2>1 DEF InitHead, OneBranch
  <2>2. QED
    BY <2>1, HeadsStep DEF SameHeads
<1>2. ASSUME NEW b \in Branches, repos'[path].refs[b] # None PROVE b = repos'[path].head
  <2>1. CASE SameHeads(path)
    BY <1>2, <2>1 DEF SameHeads, OneBranch
  <2>2. ASSUME NEW c \in Calls, InitHead(c), Path(c) = path, repos'[path].refs = repos[path].refs
        PROVE  FALSE
    <3>1. head = None
      BY <2>2 DEF InitHead, OneBranch
    <3>2. QED
      BY <1>2, <2>2, <3>1, NamesAssumption DEF OneBranch
  <2>3. ASSUME NEW c \in Calls, repos'[path].head = head,
               repos'[path].refs = [repos[path].refs EXCEPT ![head] = c]
        PROVE  b = repos'[path].head
    BY <1>2, <2>3 DEF OneBranch, RepoRec
  <2>4. QED
    BY <2>1, <2>2, <2>3, HeadsStep
<1>3. ASSUME NEW c \in Calls, calls'[c].pc = "init", Path(c)' = path PROVE repos'[path].head = None
  <2>1. ASSUME Open(c) PROVE repos'[path].head = None
    <3>1. Path(c) = path
      BY <1>3, <2>1 DEF Open, Path, CallRec
    <3>2. QED
      BY <1>3, <2>1, <3>1 DEF Open, Repo, CallRec
  <2>2. ASSUME ~Open(c) PROVE calls'[c] = calls[c]
    <3>1. ASSUME InitHead(c) \/ SkipReset(c) \/ ResetHead(c) \/ ResetIndex(c) PROVE FALSE
      BY <1>3, <3>1 DEF InitHead, SkipReset, ResetHead, ResetIndex, CallRec
    <3>2. ASSUME ReadParent(c) \/ BuildTree(c) \/ UpdateHead(c) PROVE FALSE
      BY <1>3, <3>2 DEF ReadParent, BuildTree, UpdateHead, CallRec
    <3>3. ASSUME Answer(c) \/ Fail(c) PROVE FALSE
      BY <1>3, <3>3 DEF Answer, Fail, Idle
    <3>4. ASSUME NEW p, NEW b, NEW files, Begin(c, p, b, files) PROVE FALSE
      BY <1>3, <3>4 DEF Begin, Idle
    <3>5. ASSUME NEW f, AddFile(c, f) PROVE FALSE
      BY <1>3, <3>5 DEF AddFile, CallRec
    <3>6. QED
      BY <1>3, <2>2, <3>1, <3>2, <3>3, <3>4, <3>5, CallStep
  <2>3. ASSUME calls'[c] = calls[c] PROVE repos'[path].head = None
    <3>1. Path(c) = path /\ calls[c].pc = "init" /\ head = None
      BY <1>3, <2>3 DEF Path, OneBranch
    <3>2. ASSUME NEW d \in Calls, InitHead(d), Path(d) = path PROVE FALSE
      <4>1. d = c
        BY <3>1, <3>2 DEF InitHead, TakeTurns, InFlight, Storing
      <4>2. QED
        BY <1>3, <3>2, <4>1 DEF InitHead, CallRec
    <3>3. QED
      BY <3>1, <3>2, HeadsStep DEF SameHeads
  <2>4. QED
    BY <2>1, <2>2, <2>3
<1>4. ASSUME NEW c \in Calls, calls'[c].pc \in Storing \ {"open", "init"}, Path(c)' = path
      PROVE  repos'[path].head # None
  <2>1. CASE Open(c)
    <3>1. Path(c) = path
      BY <1>4, <2>1 DEF Open, Path, CallRec
    <3>2. head # None
      BY <1>4, <2>1, <3>1 DEF Open, Repo, CallRec
    <3>3. QED
      BY <1>1, <3>2
  <2>2. CASE InitHead(c)
    <3>1. Path(c) = path
      BY <1>4, <2>2 DEF InitHead, Path, CallRec
    <3>2. calls[c].branch \in Branches
      BY <2>2 DEF InitHead, Located, InFlight, Storing
    <3>3. QED
      BY <2>2, <3>1, <3>2, NamesAssumption DEF InitHead, RepoRec
  <2>3. CASE ~Open(c) /\ ~InitHead(c)
    <3>1. calls[c].pc \in Storing \ {"open", "init"} /\ calls'[c].project = calls[c].project
      BY <1>4, <2>3, StoringStep
    <3>2. head # None
      BY <1>4, <3>1 DEF Path, OneBranch
    <3>3. QED
      BY <1>1, <3>2
  <2>4. QED
    BY <2>1, <2>2, <2>3
<1>5. QED
  BY <1>2, <1>3, <1>4 DEF OneBranch

LEMMA ReachedNext ==
  ASSUME Base, Durable \/ ~Restart, TakeTurns, [Next]_vars, NEW path \in Paths, Unpushed(path)', OneBranch(path), Reached(path)
  PROVE  Reached(path)'
<1> USE DEF Base
<1> repos \in [Paths -> RepoRec] /\ repos[path] \in RepoRec
  BY DEF TypeOK
<1> calls \in [Calls -> CallRec] /\ commits \in [Commit -> CommitRec \cup {None}]
  BY DEF TypeOK
<1> DEFINE tip == Tip(repos[path])
<1>1. SameHeads(path) => Tip(repos[path])' = tip
  BY DEF SameHeads, Tip
\* The heads move only by a step of the one handler in flight.
<1>2. ASSUME NEW c \in Calls, calls[c].pc \in InFlight, Path(c) = path, ~InitHead(c), ~UpdateHead(c)
      PROVE  SameHeads(path)
  <2>1. ASSUME NEW d \in Calls, InitHead(d) \/ UpdateHead(d), Path(d) = path PROVE d = c
    BY <1>2, <2>1 DEF InitHead, UpdateHead, TakeTurns, InFlight, Storing
  <2>2. QED
    BY <1>2, <2>1, HeadsStep
<1>3. ASSUME NEW c \in Calls, calls'[c].pc \in {"index", "tree", "update"}, Path(c)' = path
      PROVE  calls'[c].at = Tip(repos[path])'
  <2>1. ~Open(c) /\ ~InitHead(c)
    BY <1>3 DEF Open, InitHead, CallRec
  <2>2. calls[c].pc \in Storing \ {"open", "init"} /\ Path(c) = path
    BY <1>3, <2>1, StoringStep DEF Path, Storing
  <2>3. ~UpdateHead(c)
    BY <1>3 DEF UpdateHead, CallRec
  <2>4. Tip(repos[path])' = tip
    BY <1>1, <1>2, <2>1, <2>2, <2>3 DEF InFlight
  <2>5. CASE ReadParent(c)
    BY <1>3, <2>2, <2>4, <2>5 DEF ReadParent, Repo, CallRec
  <2>6. CASE BuildTree(c)
    <3>1. calls'[c].at = calls[c].at /\ calls[c].pc = "tree"
      BY <2>6 DEF BuildTree, CallRec
    <3>2. QED
      BY <2>2, <2>4, <3>1 DEF Reached
  <2>7. CASE calls'[c] = calls[c]
    BY <1>3, <2>2, <2>4, <2>7 DEF Reached
  <2>8. CASE ResetHead(c)
    <3>1. calls[c].branch \in Branches
      BY <2>8 DEF ResetHead, Located, InFlight, Storing
    <3>2. calls[c].branch = repos[path].head /\ calls'[c].at = repos[path].refs[calls[c].branch]
      BY <2>2, <2>8, <3>1 DEF ResetHead, OneBranch, Repo, CallRec
    <3>3. calls'[c].at = tip
      BY <3>1, <3>2, NamesAssumption DEF Tip
    <3>4. QED
      BY <2>4, <3>3
  <2>13. ASSUME SkipReset(c) \/ ResetIndex(c) PROVE FALSE
    BY <1>3, <2>13 DEF SkipReset, ResetIndex, CallRec
  <2>9. ASSUME NEW f, AddFile(c, f) PROVE FALSE
    BY <1>3, <2>9 DEF AddFile, CallRec
  <2>10. ASSUME NEW p, NEW b, NEW files, Begin(c, p, b, files) PROVE FALSE
    BY <1>3, <2>10 DEF Begin, Idle
  <2>11. ASSUME Answer(c) \/ Fail(c) PROVE FALSE
    BY <1>3, <2>11 DEF Answer, Fail, Idle
  <2>12. QED
    BY <1>3, <2>1, <2>3, <2>5, <2>6, <2>7, <2>8, <2>9, <2>10, <2>11, <2>13, CallStep
<1>4. ASSUME NEW c \in Calls, calls'[c].pc = "answer", Path(c)' = path
      PROVE  c \in Past(Tip(repos[path]))'
  <2>1. CASE UpdateHead(c)
    <3>1. Path(c) = path
      BY <1>4, <2>1 DEF UpdateHead, Path, CallRec
    <3>2. repos[path].head \in Branches
      BY <2>1, <3>1 DEF UpdateHead, OneBranch, Storing, RepoRec
    <3>3. Tip(repos[path])' = c
      BY <2>1, <3>1, <3>2, NamesAssumption DEF UpdateHead, Tip, Repo, RepoRec
    <3>4. c \in commits'[c].past
      BY <2>1 DEF UpdateHead, Commit
    <3>5. QED
      BY <3>3, <3>4, NamesAssumption DEF Past, Commit
  <2>2. CASE calls'[c] = calls[c]
    <3>1. calls[c].pc = "answer" /\ Path(c) = path
      BY <1>4, <2>2 DEF Path
    <3>2. QED
      BY <3>1, TipStep DEF Reached
  <2>3. ASSUME Open(c) \/ InitHead(c) \/ SkipReset(c) PROVE FALSE
    BY <1>4, <2>3 DEF Open, InitHead, SkipReset, CallRec
  <2>4. ASSUME ResetHead(c) \/ ResetIndex(c) PROVE FALSE
    BY <1>4, <2>4 DEF ResetHead, ResetIndex, CallRec
  <2>5. ASSUME NEW f, AddFile(c, f) PROVE FALSE
    BY <1>4, <2>5 DEF AddFile, CallRec
  <2>6. ASSUME ReadParent(c) \/ BuildTree(c) PROVE FALSE
    BY <1>4, <2>6 DEF ReadParent, BuildTree, CallRec
  <2>7. ASSUME NEW p, NEW b, NEW files, Begin(c, p, b, files) PROVE FALSE
    BY <1>4, <2>7 DEF Begin, Idle
  <2>8. ASSUME Answer(c) \/ Fail(c) PROVE FALSE
    BY <1>4, <2>8 DEF Answer, Fail, Idle
  <2>9. QED
    BY <1>4, <2>1, <2>2, <2>3, <2>4, <2>5, <2>6, <2>7, <2>8, CallStep
<1>5. ASSUME Durable, NEW c \in Calls, calls'[c].pc = "done", commits'[c].path = path
      PROVE  c \in Past(Tip(repos[path]))'
  <2>1. CASE Answer(c)
    <3>1. commits'[c] = commits[c] /\ calls[c].pc = "answer"
      BY <2>1 DEF Answer
    <3>2. Path(c) = path
      BY <1>5, <3>1 DEF Answerable
    <3>3. QED
      BY <3>1, <3>2, TipStep DEF Reached
  <2>2. CASE calls'[c] = calls[c]
    <3>1. calls[c].pc = "done" /\ commits[c] # None
      BY <1>5, <2>2 DEF Answerable
    <3>2. commits'[c] = commits[c]
      BY <3>1, CommitsGrow DEF Commit
    <3>3. QED
      BY <1>5, <3>1, <3>2, TipStep DEF Reached
  <2>3. ASSUME Open(c) \/ InitHead(c) \/ SkipReset(c) PROVE FALSE
    BY <1>5, <2>3 DEF Open, InitHead, SkipReset, CallRec
  <2>4. ASSUME ResetHead(c) \/ ResetIndex(c) PROVE FALSE
    BY <1>5, <2>4 DEF ResetHead, ResetIndex, CallRec
  <2>5. ASSUME NEW f, AddFile(c, f) PROVE FALSE
    BY <1>5, <2>5 DEF AddFile, CallRec
  <2>6. ASSUME ReadParent(c) \/ BuildTree(c) \/ UpdateHead(c) PROVE FALSE
    BY <1>5, <2>6 DEF ReadParent, BuildTree, UpdateHead, CallRec
  <2>7. ASSUME NEW p, NEW b, NEW files, Begin(c, p, b, files) PROVE FALSE
    BY <1>5, <2>7 DEF Begin, Idle
  <2>8. ASSUME Fail(c) PROVE FALSE
    BY <1>5, <2>8 DEF Fail, Idle
  <2>9. QED
    BY <1>5, <2>1, <2>2, <2>3, <2>4, <2>5, <2>6, <2>7, <2>8, CallStep
<1>6. QED
  BY <1>3, <1>4, <1>5 DEF Reached

-----------------------------------------------------------------------------
\* A server without a durable storer starts with empty repositories, and no
\* restart leaves a handler in flight.
LEMMA RestartStep ==
  ASSUME Restart, NEW c \in Calls
  PROVE  calls'[c].pc \notin InFlight \cup {"failed"}
<1>1. CASE calls[c].pc \in InFlight \cup {"failed"}
  BY <1>1 DEF Restart, Idle, InFlight, Storing
<1>2. CASE calls[c].pc \notin InFlight \cup {"failed"}
  BY <1>2 DEF Restart
<1>3. QED
  BY <1>1, <1>2

LEMMA EmptyStep ==
  ASSUME Restart, ~Durable, NEW path \in Paths
  PROVE  OneBranch(path)' /\ Reached(path)' /\ Indexed(path)'
<1>1. repos'[path] = EmptyRepo
  BY DEF Restart
<1>2. OneBranch(path)'
  BY <1>1, RestartStep DEF OneBranch, EmptyRepo, InFlight, Storing
<1>3. Reached(path)'
  BY RestartStep DEF Reached, InFlight, Storing
<1>4. Indexed(path)'
  <2>1. Tip(repos[path])' = None
    BY <1>1 DEF Tip, EmptyRepo
  <2>2. TreeOf(Tip(repos[path]))' = EmptyTree
    BY <2>1 DEF TreeOf
  <2>3. repos'[path].index = EmptyTree
    BY <1>1 DEF EmptyRepo
  <2>4. \A c \in Calls : calls'[c].pc \notin {"add", "tree", "update"}
    BY RestartStep DEF InFlight, Storing
  <2>5. QED
    BY <2>2, <2>3, <2>4 DEF Indexed
<1>5. QED
  BY <1>2, <1>3, <1>4

\* A new commit is made on one that was made, or on none.
LEMMA PastMadeNext == TypeOK /\ Located /\ CommitsMade /\ PastMade /\ [Next]_vars => PastMade'
<1> SUFFICES ASSUME TypeOK, Located, CommitsMade, PastMade, [Next]_vars,
                    NEW x \in Commit, commits'[x] # None, NEW y \in commits'[x].past
             PROVE  commits'[y] # None
  BY DEF PastMade
<1> commits \in [Commit -> CommitRec \cup {None}]
  BY DEF TypeOK
<1>1. ASSUME NEW z \in Commit \cup {None}, z # None => commits[z] # None, y \in Past(z) PROVE commits'[y] # None
  <2>1. z \in Commit /\ commits[z] # None /\ y \in commits[z].past /\ y \in Commit
    BY <1>1 DEF Past, CommitRec
  <2>2. QED
    BY <2>1, CommitsGrow DEF PastMade
<1>2. CASE commits'[x] = commits[x]
  <2>1. y \in commits[x].past /\ commits[x] # None /\ y \in Commit
    BY <1>2 DEF CommitRec
  <2>2. QED
    BY <2>1, CommitsGrow DEF PastMade
<1>3. ASSUME NEW c \in Calls, UpdateHead(c), c = x PROVE commits'[y] # None
  <2>1. commits'[x].past = Past(calls[c].at) \cup {c}
    BY <1>3 DEF UpdateHead
  <2>2. CASE y = c
    BY <1>3, <2>2
  <2>3. CASE y \in Past(calls[c].at)
    BY <1>1, <2>3 DEF CommitsMade, TypeOK, CallRec
  <2>4. QED
    BY <2>1, <2>2, <2>3
<1>4. ASSUME NEW k \in Pushes, NEW path \in Paths, NEW b \in Branches, NEW base \in Commit \cup {None},
             NEW f \in Files, PushBranch(k, path, b, base, f), k = x
      PROVE  commits'[y] # None
  <2>1. commits'[x].past = Past(base) \cup {k}
    BY <1>4 DEF PushBranch
  <2>2. CASE y = k
    BY <1>4, <2>2
  <2>3. CASE y \in Past(base)
    BY <1>1, <1>4, <2>3 DEF PushBranch
  <2>4. QED
    BY <2>1, <2>2, <2>3
<1>5. \/ commits'[x] = commits[x]
      \/ \E c \in Calls : UpdateHead(c) /\ c = x
      \/ \E k \in Pushes, path \in Paths, b \in Branches, base \in Commit \cup {None}, f \in Files :
           PushBranch(k, path, b, base, f) /\ k = x
  <2>1. ASSUME NEW c \in Calls, UpdateHead(c), c # x PROVE commits'[x] = commits[x]
    BY <2>1 DEF UpdateHead
  <2>2. ASSUME NEW k \in Pushes, NEW path, NEW b, NEW base, NEW f, PushBranch(k, path, b, base, f), k # x
        PROVE  commits'[x] = commits[x]
    BY <2>2 DEF PushBranch
  <2>3. QED
    BY ZenonT(60), <2>1, <2>2, Steps DEF ProjectCreate, PipelineCreate, Begin, Open, InitHead, SkipReset, ResetHead,
       ResetIndex, AddFile, ReadParent, BuildTree, Answer, Fail, PushDelete, PushFails, ReadHead, SetHead, Restart, vars
<1>6. QED
  BY <1>2, <1>3, <1>4, <1>5

\* The files of a handler, and those it has yet to add.
LEMMA FilesToAddNext == TypeOK /\ FilesToAdd /\ [Next]_vars => FilesToAdd'
<1> SUFFICES ASSUME TypeOK, FilesToAdd, [Next]_vars, NEW c \in Calls
             PROVE  /\ calls'[c].todo \subseteq calls'[c].files
                    /\ calls'[c].pc \in {"open", "init", "reset", "index"} => calls'[c].todo = calls'[c].files
                    /\ calls'[c].pc \in {"tree", "update", "answer"} => calls'[c].todo = {}
                    /\ calls'[c].pc = "failed" => calls'[c].files = {}
  BY DEF FilesToAdd
<1> calls \in [Calls -> CallRec] /\ calls[c] \in CallRec
  BY DEF TypeOK
<1> USE DEF FilesToAdd
<1>1. CASE calls'[c] = calls[c]
  BY <1>1
<1>2. ASSUME NEW p, NEW b, NEW files, Begin(c, p, b, files)
      PROVE  calls'[c].pc = "open" /\ calls'[c].todo = calls'[c].files
  BY <1>2 DEF Begin, Idle
<1>3. ASSUME Open(c) \/ InitHead(c) \/ SkipReset(c)
      PROVE  /\ calls[c].pc \in {"open", "init", "reset"} /\ calls'[c].pc \in {"init", "reset", "add"}
             /\ calls'[c].todo = calls[c].todo /\ calls'[c].files = calls[c].files
  BY <1>3 DEF Open, InitHead, SkipReset, CallRec
<1>4. ASSUME ResetHead(c) \/ ResetIndex(c)
      PROVE  /\ calls[c].pc \in {"reset", "index"} /\ calls'[c].pc \in {"index", "add"}
             /\ calls'[c].todo = calls[c].todo /\ calls'[c].files = calls[c].files
  BY <1>4 DEF ResetHead, ResetIndex, CallRec
<1>5. ASSUME NEW f, AddFile(c, f)
      PROVE  /\ calls'[c].pc = "add"
             /\ calls'[c].todo = calls[c].todo \ {f} /\ calls'[c].files = calls[c].files
  BY <1>5 DEF AddFile, CallRec
<1>6. ASSUME ReadParent(c) \/ BuildTree(c) \/ UpdateHead(c)
      PROVE  /\ calls[c].todo = {} /\ calls'[c].pc \in {"tree", "update", "answer"}
             /\ calls'[c].todo = calls[c].todo /\ calls'[c].files = calls[c].files
  <2>1. CASE ReadParent(c)
    BY <2>1 DEF ReadParent, CallRec
  <2>2. CASE BuildTree(c) \/ UpdateHead(c)
    BY <2>2 DEF BuildTree, UpdateHead, CallRec
  <2>3. QED
    BY <1>6, <2>1, <2>2
<1>7. ASSUME Answer(c) \/ Fail(c)
      PROVE  calls'[c].pc \in {"done", "failed"} /\ calls'[c].todo = {} /\ calls'[c].files = {}
  BY <1>7 DEF Answer, Fail, Idle
<1>8. QED
  <2>1. CASE calls'[c] = [Idle EXCEPT !.pc = "lost"]
    BY <2>1 DEF Idle
  <2>2. CASE Open(c) \/ InitHead(c) \/ SkipReset(c)
    BY <1>3, <2>2
  <2>3. CASE ResetHead(c) \/ ResetIndex(c)
    BY <1>4, <2>3
  <2>4. CASE ReadParent(c) \/ BuildTree(c) \/ UpdateHead(c)
    BY <1>6, <2>4
  <2>5. CASE Answer(c) \/ Fail(c)
    BY <1>7, <2>5
  <2>6. CASE \E f \in Files : AddFile(c, f)
    BY <1>5, <2>6
  <2>7. CASE \E p \in Projects, b \in Branches, files \in FileSets : Begin(c, p, b, files)
    BY <1>2, <2>7
  <2>8. QED
    BY <1>1, <2>1, <2>2, <2>3, <2>4, <2>5, <2>6, <2>7, CallStep

\* A project that was created stays until the server stops.
LEMMA CreatedStep ==
  ASSUME TypeOK, Located, [Next]_vars, ~Restart, NEW p \in Projects, projects[p].created
  PROVE  projects'[p].created
<1> projects \in [Projects -> ProjectRec] /\ projects[p] \in ProjectRec
  BY DEF TypeOK
<1>1. ASSUME NEW q \in Projects, ProjectCreate(q) PROVE projects'[p].created
  BY <1>1 DEF ProjectCreate, ProjectRec
<1>2. ASSUME NEW c \in Calls, NEW q \in Projects, NEW b, NEW files, Begin(c, q, b, files)
      PROVE  projects'[p].created
  BY <1>2 DEF Begin, ProjectRec
<1>3. ASSUME NEW c \in Calls, Answer(c) PROVE projects'[p].created
  BY <1>3 DEF Answer, ProjectRec
<1>4. QED
  BY ZenonT(60), <1>1, <1>2, <1>3, Steps DEF PipelineCreate, Open, InitHead, SkipReset, ResetHead,
     ResetIndex, AddFile, ReadParent, BuildTree, UpdateHead, Fail, PushBranch, PushDelete, PushFails, ReadHead, SetHead, vars

\* The only project of its path was so before.
LEMMA SoleStep ==
  ASSUME TypeOK, Located, [Next]_vars, ~Restart, NEW p \in Projects, Sole(p)'
  PROVE  Sole(p)
BY CreatedStep DEF Sole

\* A handler in flight or failed has just begun, or was in flight or failed for
\* the same project.
LEMMA ProjectStep ==
  ASSUME TypeOK, [Next]_vars, NEW c \in Calls, calls'[c].pc \in InFlight \cup {"failed"}
  PROVE  \/ \E p \in Projects, b \in Branches, files \in FileSets : Begin(c, p, b, files)
         \/ calls[c].pc \in InFlight \cup {"failed"} /\ calls'[c].project = calls[c].project
<1> calls \in [Calls -> CallRec] /\ calls[c] \in CallRec
  BY DEF TypeOK
<1>1. CASE calls'[c].pc \in InFlight
  BY <1>1, FlightStep
<1>2. CASE calls'[c].pc = "failed"
  <2>1. ASSUME Open(c) \/ InitHead(c) \/ SkipReset(c) PROVE FALSE
    BY <1>2, <2>1 DEF Open, InitHead, SkipReset, CallRec
  <2>2. ASSUME ResetHead(c) \/ ResetIndex(c) PROVE FALSE
    BY <1>2, <2>2 DEF ResetHead, ResetIndex, CallRec
  <2>3. ASSUME NEW f, AddFile(c, f) PROVE FALSE
    BY <1>2, <2>3 DEF AddFile, CallRec
  <2>4. ASSUME ReadParent(c) \/ BuildTree(c) \/ UpdateHead(c) PROVE FALSE
    BY <1>2, <2>4 DEF ReadParent, BuildTree, UpdateHead, CallRec
  <2>5. ASSUME Answer(c) PROVE FALSE
    BY <1>2, <2>5 DEF Answer, Idle
  <2>6. ASSUME Fail(c) PROVE calls[c].pc \in InFlight /\ calls'[c].project = calls[c].project
    BY <2>6 DEF Fail, Idle, InFlight
  <2>7. QED
    BY <1>2, <2>1, <2>2, <2>3, <2>4, <2>5, <2>6, CallStep
<1>3. QED
  BY <1>1, <1>2

LEMMA ProjectsThereNext == TypeOK /\ Located /\ ProjectsThere /\ [Next]_vars => ProjectsThere'
<1> SUFFICES ASSUME TypeOK, Located, ProjectsThere, [Next]_vars,
                    NEW c \in Calls, calls'[c].pc \in InFlight \cup {"failed"}
             PROVE  calls'[c].project \in Projects /\ projects'[calls'[c].project].created
  BY DEF ProjectsThere
<1> calls \in [Calls -> CallRec] /\ projects \in [Projects -> ProjectRec]
  BY DEF TypeOK
<1>1. ~Restart
  BY RestartStep
<1>2. ASSUME NEW p \in Projects, NEW b \in Branches, NEW files, Begin(c, p, b, files)
      PROVE  calls'[c].project \in Projects /\ projects'[calls'[c].project].created
  BY <1>2 DEF Begin, Idle, ProjectRec
<1>3. CASE calls[c].pc \in InFlight \cup {"failed"} /\ calls'[c].project = calls[c].project
  BY <1>1, <1>3, CreatedStep DEF ProjectsThere
<1>4. QED
  BY <1>2, <1>3, ProjectStep

\* A branch is gone only when a push deletes it, or with the storer.
LEMMA BranchStep ==
  ASSUME TypeOK, Located, [Next]_vars, ~Restart, NEW path \in Paths, NEW b \in Branches,
         repos[path].refs[b] # None, repos'[path].refs[b] = None
  PROVE  \E k \in Pushes : PushDelete(k, path, b)
<1> repos \in [Paths -> RepoRec] /\ repos[path] \in RepoRec
  BY DEF TypeOK
<1>1. ASSUME NEW c \in Calls, InitHead(c) PROVE FALSE
  BY <1>1 DEF InitHead, RepoRec
<1>2. ASSUME NEW c \in Calls, ResetHead(c) PROVE FALSE
  BY <1>2 DEF ResetHead, RepoRec, Repo
<1>3. ASSUME NEW c \in Calls, ResetIndex(c) PROVE FALSE
  BY <1>3 DEF ResetIndex, RepoRec
<1>4. ASSUME NEW c \in Calls, NEW f, AddFile(c, f) PROVE FALSE
  BY <1>4 DEF AddFile, RepoRec
<1>5. ASSUME NEW c \in Calls, UpdateHead(c) PROVE FALSE
  BY <1>5, NamesAssumption DEF UpdateHead, RepoRec, Commit
<1>6. ASSUME NEW k \in Pushes, NEW r \in Paths, NEW x, NEW base, NEW f, PushBranch(k, r, x, base, f) PROVE FALSE
  BY <1>6, NamesAssumption DEF PushBranch, RepoRec, Commit
<1>7. ASSUME NEW k \in Pushes, SetHead(k) PROVE FALSE
  BY <1>7 DEF SetHead, RepoRec
<1>8. ASSUME NEW k \in Pushes, NEW r \in Paths, NEW x \in Branches, PushDelete(k, r, x)
      PROVE  \E l \in Pushes : PushDelete(l, path, b)
  <2>1. r = path /\ x = b
    BY <1>8 DEF PushDelete, RepoRec
  <2>2. QED
    BY <1>8, <2>1
<1>9. repos' # repos
  OBVIOUS
<1>10. QED
  BY ZenonT(60), <1>1, <1>2, <1>3, <1>4, <1>5, <1>6, <1>7, <1>8, <1>9, Steps DEF ProjectCreate, PipelineCreate,
     Begin, Open, SkipReset, ReadParent, BuildTree, Answer, Fail, PushFails, ReadHead, vars

\* A push about to point HEAD at a branch has just found it, or was there.
LEMMA SetHeadStep ==
  ASSUME TypeOK, [Next]_vars, NEW k \in Pushes, pushes'[k].pc = "sethead"
  PROVE  ReadHead(k) \/ (pushes'[k] = pushes[k] /\ ~Restart)
<1> pushes \in [Pushes -> PushRec] /\ pushes[k] \in PushRec
  BY DEF TypeOK
<1>1. ~Restart
  BY DEF Restart, PushRec
<1>2. ASSUME NEW l \in Pushes, NEW r, NEW b, NEW base, NEW f, PushBranch(l, r, b, base, f)
      PROVE  pushes'[k] = pushes[k]
  BY <1>2 DEF PushBranch, PushRec
<1>3. ASSUME NEW l \in Pushes, NEW r, NEW b, PushDelete(l, r, b) PROVE pushes'[k] = pushes[k]
  BY <1>3 DEF PushDelete, PushRec
<1>4. ASSUME NEW l \in Pushes, l # k, ReadHead(l) PROVE pushes'[k] = pushes[k]
  BY <1>4 DEF ReadHead
<1>5. ASSUME NEW l \in Pushes, PushFails(l) \/ SetHead(l) PROVE pushes'[k] = pushes[k]
  BY <1>5 DEF PushFails, SetHead, PushRec
<1>6. \/ pushes' = pushes
      \/ \E l \in Pushes : PushFails(l) \/ ReadHead(l) \/ SetHead(l)
      \/ \E l \in Pushes : \E r, b, base, f : PushBranch(l, r, b, base, f)
      \/ \E l \in Pushes : \E r, b : PushDelete(l, r, b)
  BY ZenonT(60), <1>1, Steps DEF ProjectCreate, PipelineCreate, Begin, Open, InitHead, SkipReset, ResetHead,
     ResetIndex, AddFile, ReadParent, BuildTree, Answer, Fail, UpdateHead, vars
<1>7. QED
  BY <1>1, <1>2, <1>3, <1>4, <1>5, <1>6

LEMMA FallbackThere ==
  ASSUME NEW refs, Fallback(refs) # None
  PROVE  Fallback(refs) \in Branches /\ refs[Fallback(refs)] # None
BY DEF Fallback

LEMMA GoalsThereNext == TypeOK /\ Located /\ CommitsMade /\ GoalsThere /\ [Next]_vars => GoalsThere'
<1> SUFFICES ASSUME TypeOK, Located, CommitsMade, GoalsThere, [Next]_vars,
                    NEW k \in Pushes, pushes'[k].pc = "sethead", Alone(k)'
             PROVE  pushes'[k].goal \in Branches /\ repos'[pushes'[k].path].refs[pushes'[k].goal] # None
  BY DEF GoalsThere
<1> pushes \in [Pushes -> PushRec] /\ pushes[k] \in PushRec
  BY DEF TypeOK
<1>1. CASE ReadHead(k)
  <2>1. /\ pushes'[k].path = pushes[k].path /\ repos' = repos
        /\ pushes'[k].goal # None
        /\ pushes'[k].goal = Fallback(repos[pushes[k].path].refs)
    BY <1>1 DEF ReadHead, PushRec
  <2>2. QED
    BY <2>1, FallbackThere
<1>2. CASE pushes'[k] = pushes[k] /\ ~Restart
  <2>1. pushes[k].pc = "sethead" /\ pushes[k].path \in Paths
    BY <1>2 DEF CommitsMade, PushRec
  <2>2. Alone(k)
    <3> SUFFICES ASSUME NEW l \in Pushes, pushes[l].path = pushes[k].path PROVE l = k
      BY DEF Alone
    <3>1. pushes[l].pc # "idle"
      BY <2>1, NamesAssumption DEF CommitsMade
    <3>2. pushes'[l].path = pushes'[k].path
      BY <1>2, <3>1, PushPath
    <3>3. QED
      BY <3>2 DEF Alone
  <2>3. pushes[k].goal \in Branches /\ repos[pushes[k].path].refs[pushes[k].goal] # None
    BY <2>1, <2>2 DEF GoalsThere
  <2>4. ASSUME NEW l \in Pushes, NEW b, PushDelete(l, pushes[k].path, b) PROVE FALSE
    <3>1. pushes'[l].path = pushes'[k].path /\ pushes[l].pc = "idle"
      BY <1>2, <2>4 DEF PushDelete, PushRec
    <3>2. l = k
      BY <3>1 DEF Alone
    <3>3. QED
      BY <2>1, <3>1, <3>2
  <2>5. QED
    BY <1>2, <2>1, <2>3, <2>4, BranchStep
<1>3. QED
  BY <1>1, <1>2, SetHeadStep

-----------------------------------------------------------------------------
(* The index and the trees, on a path no job has pushed to. *)

\* A repository changes by the steps of the handlers at work on it.
LEMMA RepoStep ==
  ASSUME Base, [Next]_vars, ~Restart, NEW path \in Paths, Unpushed(path)', repos'[path] # repos[path]
  PROVE  \E c \in Calls : /\ calls[c].pc \in InFlight /\ Path(c) = path
                          /\ \/ InitHead(c) \/ ResetHead(c) \/ ResetIndex(c) \/ UpdateHead(c)
                             \/ \E f \in Files : AddFile(c, f)
<1> USE DEF Base
<1> repos \in [Paths -> RepoRec]
  BY DEF TypeOK
<1> Unpushed(path)
  BY UnpushedStep
<1>1. ASSUME NEW k \in Pushes, NEW r \in Paths, NEW b, NEW base, NEW f, PushBranch(k, r, b, base, f) PROVE FALSE
  <2>1. r # path
    BY <1>1 DEF PushBranch, Unpushed, TypeOK, PushRec
  <2>2. QED
    BY <1>1, <2>1 DEF PushBranch
<1>2. ASSUME NEW k \in Pushes, NEW r \in Paths, NEW b, PushDelete(k, r, b) PROVE FALSE
  <2>1. r # path
    BY <1>2 DEF PushDelete, Unpushed, TypeOK, PushRec
  <2>2. QED
    BY <1>2, <2>1 DEF PushDelete
<1>3. ASSUME NEW k \in Pushes, SetHead(k) PROVE FALSE
  BY <1>3 DEF SetHead, Unpushed
<1>4. ASSUME NEW c \in Calls, InitHead(c) \/ ResetHead(c) \/ ResetIndex(c) \/ UpdateHead(c)
      PROVE  calls[c].pc \in InFlight /\ Path(c) = path
  BY <1>4 DEF InitHead, ResetHead, ResetIndex, UpdateHead, InFlight, Storing
<1>5. ASSUME NEW c \in Calls, NEW f \in Files, AddFile(c, f) PROVE calls[c].pc \in InFlight /\ Path(c) = path
  BY <1>5 DEF AddFile, InFlight, Storing
<1>6. repos' # repos
  OBVIOUS
<1>7. QED
  BY ZenonT(60), <1>1, <1>2, <1>3, <1>4, <1>5, <1>6, Steps DEF ProjectCreate, PipelineCreate,
     Begin, Open, SkipReset, ReadParent, BuildTree, Answer, Fail, PushFails, ReadHead, vars

\* The steps that change it change the handler's record.
LEMMA RepoKeptStep ==
  ASSUME TypeOK, NEW c \in Calls, calls'[c] = calls[c]
  PROVE  /\ ~InitHead(c) /\ ~ResetHead(c) /\ ~ResetIndex(c) /\ ~UpdateHead(c)
         /\ \A f \in Files : ~AddFile(c, f)
<1> calls \in [Calls -> CallRec] /\ calls[c] \in CallRec
  BY DEF TypeOK
<1>1. ASSUME InitHead(c) \/ ResetHead(c) PROVE FALSE
  BY <1>1 DEF InitHead, ResetHead, CallRec
<1>2. ASSUME ResetIndex(c) \/ UpdateHead(c) PROVE FALSE
  BY <1>2 DEF ResetIndex, UpdateHead, CallRec
<1>3. ASSUME NEW f \in Files, AddFile(c, f) PROVE FALSE
  BY <1>3 DEF AddFile, CallRec
<1>4. QED
  BY <1>1, <1>2, <1>3

\* While the one handler in flight takes no step its repository stays as it is.
LEMMA RepoKept ==
  ASSUME Base, TakeTurns, [Next]_vars, NEW path \in Paths, Unpushed(path)', NEW c \in Calls,
         calls[c].pc \in InFlight, Path(c) = path, calls'[c] = calls[c]
  PROVE  ~Restart /\ repos'[path] = repos[path]
<1>1. ~Restart
  BY RestartStep
<1>2. ASSUME repos'[path] # repos[path] PROVE FALSE
  <2>1. PICK d \in Calls : /\ calls[d].pc \in InFlight /\ Path(d) = path
                           /\ \/ InitHead(d) \/ ResetHead(d) \/ ResetIndex(d) \/ UpdateHead(d)
                              \/ \E f \in Files : AddFile(d, f)
    BY <1>1, <1>2, RepoStep
  <2>2. d = c
    BY <2>1 DEF TakeTurns
  <2>3. QED
    BY <2>1, <2>2, RepoKeptStep DEF Base
<1>3. QED
  BY <1>1, <1>2

\* The tip is a commit that was made.
LEMMA TipMade ==
  ASSUME Base, NEW path \in Paths, Tip(repos[path]) # None
  PROVE  /\ repos[path].head \in Branches /\ Tip(repos[path]) = repos[path].refs[repos[path].head]
         /\ Tip(repos[path]) \in Commit /\ commits[Tip(repos[path])] # None
<1>1. repos[path] \in RepoRec
  BY DEF Base, TypeOK
<1>2. QED
  BY <1>1 DEF Base, CommitsMade, Tip, RepoRec

\* The tree of a commit that was made stays.
LEMMA TreeKept ==
  ASSUME Base, [Next]_vars, NEW x \in Commit \cup {None}, x # None => commits[x] # None
  PROVE  TreeOf(x)' = TreeOf(x) /\ Past(x)' = Past(x) /\ (x # None => commits'[x] = commits[x])
BY CommitsGrow DEF Base, TreeOf, Past

LEMMA OntoKept ==
  ASSUME Base, [Next]_vars, NEW x \in Commit \cup {None}, x # None => commits[x] # None, NEW c, NEW files
  PROVE  Onto(c, x, files)' = Onto(c, x, files)
BY TreeKept DEF Onto

LEMMA TreeShape ==
  ASSUME Base, NEW x \in Commit \cup {None}, x # None => commits[x] # None
  PROVE  TreeOf(x) \in Tree
BY IdleShape DEF Base, TypeOK, TreeOf, CommitRec

\* Nothing is on top of a tree without files; one more file is on top of what
\* was there.
LEMMA OntoNone ==
  ASSUME NEW c, NEW x, TreeOf(x) \in Tree
  PROVE  Onto(c, x, {}) = TreeOf(x)
BY DEF Onto, Tree

LEMMA OntoFile ==
  ASSUME NEW c, NEW x, NEW files, NEW f \in Files
  PROVE  [Onto(c, x, files) EXCEPT ![f] = c] = Onto(c, x, files \cup {f})
BY DEF Onto

\* Each step of the one handler in flight brings its commit on.
LEMMA UnderwayNext ==
  ASSUME Base, FilesToAdd, TakeTurns, [Next]_vars, NEW path \in Paths, Unpushed(path)',
         OneBranch(path), Reached(path),
         NEW c \in Calls, calls'[c].pc \in InFlight, Path(c)' = path,
         calls[c].pc \in InFlight /\ Path(c) = path => Underway(c)
  PROVE  Underway(c)'
<1> USE DEF Base
<1> calls \in [Calls -> CallRec] /\ calls[c] \in CallRec
  BY DEF TypeOK
<1> repos \in [Paths -> RepoRec] /\ repos[path] \in RepoRec
  BY DEF TypeOK
<1> DEFINE repo == repos[path]  tip == Tip(repos[path])
<1>0. Repo(c)' = repos'[path]
  BY DEF Repo
<1>1. ASSUME calls'[c].pc \notin {"add", "tree", "update", "answer"} PROVE Underway(c)'
  BY <1>1 DEF Underway
<1>2. ASSUME NEW p, NEW b, NEW files, Begin(c, p, b, files) PROVE Underway(c)'
  BY <1>1, <1>2 DEF Begin, Idle
<1>3. CASE Open(c) \/ InitHead(c)
  BY <1>1, <1>3 DEF Open, InitHead, CallRec
<1>4. CASE ResetHead(c)
  BY <1>1, <1>4 DEF ResetHead, CallRec
<1>5. CASE Answer(c) \/ Fail(c)
  <2>1. calls'[c].pc \in {"done", "failed"}
    BY <1>5 DEF Answer, Fail, Idle
  <2>2. QED
    BY <1>1, <2>1
<1> DEFINE Mine == /\ calls[c].pc \in InFlight /\ Path(c) = path /\ Underway(c)
                   /\ calls'[c].branch = calls[c].branch /\ calls'[c].files = calls[c].files
<1>6. ASSUME SkipReset(c) \/ ResetIndex(c) PROVE Mine
  BY <1>6 DEF SkipReset, ResetIndex, CallRec, InFlight, Storing, Path
<1>7. ASSUME NEW f, AddFile(c, f) PROVE Mine
  BY <1>7 DEF AddFile, CallRec, InFlight, Storing, Path
<1>8. ASSUME ReadParent(c) \/ BuildTree(c) \/ UpdateHead(c) PROVE Mine
  BY <1>8 DEF ReadParent, BuildTree, UpdateHead, CallRec, InFlight, Storing, Path
<1>9. tip \in Commit \cup {None} /\ (tip # None => commits[tip] # None)
  BY TipMade
<1>10. calls[c].at \in Commit \cup {None} /\ (calls[c].at # None => commits[calls[c].at] # None)
  BY DEF CommitsMade, CallRec
<1>11. TreeOf(tip) \in Tree
  BY <1>9, TreeShape
<1>12. PICK x : x = tip
  OBVIOUS
<1>13. PICK files : files = calls[c].files
  OBVIOUS
<1>14. PICK todo : todo = calls[c].todo
  OBVIOUS
<1>15. ASSUME NEW some PROVE Onto(c, x, some)' = Onto(c, x, some)
  BY <1>9, <1>12, OntoKept
<1>16. CASE SkipReset(c)
  <2>1. calls'[c].pc = "add" /\ repos' = repos /\ repo.refs[calls[c].branch] = None
    BY <1>6, <1>16 DEF SkipReset, Repo, CallRec
  <2>2. calls'[c].branch = repo.head => Tip(repos'[path]) = None
    BY <1>6, <1>16, <2>1 DEF Tip
  <2>3. QED
    BY <1>0, <2>1, <2>2 DEF Underway
<1>17. CASE ResetIndex(c)
  <2>1. calls'[c].pc = "add" /\ calls'[c].todo = calls[c].files /\ calls[c].at = tip
    BY <1>6, <1>17 DEF ResetIndex, CallRec, FilesToAdd, Reached
  <2>2. repos'[path].index = TreeOf(tip) /\ Tip(repos'[path]) = tip
    BY <1>6, <1>17, <2>1 DEF ResetIndex, RepoRec, Tip
  <2>3. calls'[c].files \ calls'[c].todo = {}
    BY <1>6, <1>17, <2>1
  <2>4. Onto(c, x, {})' = TreeOf(tip)
    BY <1>11, <1>12, <1>15, OntoNone
  <2>5. QED
    BY <1>0, <1>12, <2>1, <2>2, <2>3, <2>4 DEF Underway
<1>18. ASSUME NEW f \in Files, AddFile(c, f) PROVE Underway(c)'
  <2>1. /\ calls'[c].pc = "add" /\ calls[c].pc = "add" /\ f \in todo /\ f \in files
        /\ calls'[c].todo = todo \ {f} /\ calls'[c].files = files
    BY <1>7, <1>13, <1>14, <1>18 DEF AddFile, CallRec, FilesToAdd
  <2>2. /\ repos'[path].index = [repo.index EXCEPT ![f] = c]
        /\ repos'[path].head = repo.head /\ Tip(repos'[path]) = tip
    BY <1>7, <1>18 DEF AddFile, RepoRec, Tip
  <2>3. SUFFICES ASSUME calls[c].branch = repo.head, tip # None
                 PROVE  repos'[path].index = Onto(c, x, files \ (todo \ {f}))'
    BY <1>0, <1>7, <1>12, <1>18, <2>1, <2>2 DEF Underway
  <2>4. repo.index = Onto(c, x, files \ todo)
    BY <1>7, <1>12, <1>13, <1>14, <1>18, <2>1, <2>3 DEF Underway, Repo
  <2>5. files \ (todo \ {f}) = (files \ todo) \cup {f}
    BY <2>1
  <2>6. [repo.index EXCEPT ![f] = c] = Onto(c, x, (files \ todo) \cup {f})
    BY <2>4, OntoFile
  <2>7. Onto(c, x, files \ (todo \ {f}))' = Onto(c, x, files \ (todo \ {f}))
    BY <1>15
  <2>8. QED
    BY ONLY <2>2, <2>5, <2>6, <2>7
<1>19. CASE ReadParent(c)
  <2>1. /\ calls'[c].pc = "tree" /\ calls[c].pc = "add" /\ todo = {} /\ repos' = repos
        /\ calls'[c].files = files
    BY <1>8, <1>13, <1>14, <1>19 DEF ReadParent, CallRec
  <2>2. SUFFICES ASSUME calls[c].branch = repo.head, tip # None
                 PROVE  repo.index = Onto(c, x, files)'
    BY <1>0, <1>8, <1>12, <1>19, <2>1 DEF Underway
  <2>3. repo.index = Onto(c, x, files \ todo) /\ files \ todo = files
    BY <1>8, <1>12, <1>13, <1>14, <1>19, <2>1, <2>2 DEF Underway, Repo
  <2>4. QED
    BY <1>15, <2>3
<1>20. CASE BuildTree(c)
  <2>1. /\ calls'[c].pc = "update" /\ calls[c].pc = "tree" /\ repos' = repos
        /\ calls'[c].files = files /\ calls'[c].tree = repo.index
    BY <1>8, <1>13, <1>20 DEF BuildTree, CallRec, Repo
  <2>2. SUFFICES ASSUME calls[c].branch = repo.head, tip # None
                 PROVE  repo.index = Onto(c, x, files)'
    BY <1>0, <1>8, <1>12, <1>20, <2>1 DEF Underway
  <2>3. repo.index = Onto(c, x, files)
    BY <1>8, <1>12, <1>13, <1>20, <2>1, <2>2 DEF Underway, Repo
  <2>4. QED
    BY <1>15, <2>3
<1>21. CASE UpdateHead(c)
  <2>1. /\ calls'[c].pc = "answer" /\ calls[c].pc = "update" /\ calls'[c].files = files
        /\ calls'[c].at = x /\ calls[c].at = x
    BY <1>8, <1>12, <1>13, <1>21 DEF UpdateHead, CallRec, Reached
  <2>2. commits'[c].tree = calls[c].tree /\ repos'[path].head = repo.head
    BY <1>8, <1>21 DEF UpdateHead, Commit, TypeOK, RepoRec
  <2>3. SUFFICES ASSUME calls[c].branch = repo.head, x # None
                 PROVE  calls[c].tree = Onto(c, x, files)'
    BY <1>0, <1>8, <1>21, <2>1, <2>2 DEF Underway
  <2>4. calls[c].tree = Onto(c, x, files)
    BY <1>8, <1>12, <1>13, <1>21, <2>1, <2>3 DEF Underway, Repo
  <2>5. QED
    BY <1>15, <2>4
<1>22. CASE calls'[c] = calls[c]
  <2>1. calls[c].pc \in InFlight /\ Path(c) = path /\ Underway(c)
    BY <1>22 DEF Path
  <2>2. repos'[path] = repos[path]
    BY <1>22, <2>1, RepoKept
  <2>3. PICK y : y = calls[c].at
    OBVIOUS
  <2>4. ASSUME NEW some PROVE Onto(c, y, some)' = Onto(c, y, some)
    BY <1>10, <2>3, OntoKept
  <2>5. calls[c].pc = "answer" => commits'[c] = commits[c]
    BY CommitsGrow DEF Answerable, Commit
  <2>6. /\ Onto(c, x, files \ todo)' = Onto(c, x, files \ todo) /\ Onto(c, x, files)' = Onto(c, x, files)
        /\ Onto(c, y, files)' = Onto(c, y, files)
    BY <1>15, <2>4
  <2>7. Tip(repos'[path]) = x /\ Tip(repos[path]) = x
    BY <1>12, <2>2
  <2>8. SUFFICES ASSUME calls[c].branch = repo.head
                 PROVE  /\ calls[c].pc = "add" /\ x # None => repo.index = Onto(c, x, files \ todo)'
                        /\ calls[c].pc = "tree" /\ x # None => repo.index = Onto(c, x, files)'
                        /\ calls[c].pc = "update" /\ x # None => calls[c].tree = Onto(c, x, files)'
                        /\ calls[c].pc = "answer" /\ y # None => commits'[c].tree = Onto(c, y, files)'
    BY <1>0, <1>13, <1>14, <1>22, <2>2, <2>3, <2>7 DEF Underway
  <2>9. /\ calls[c].pc = "add" /\ x # None => repo.index = Onto(c, x, files \ todo)
        /\ calls[c].pc = "tree" /\ x # None => repo.index = Onto(c, x, files)
        /\ calls[c].pc = "update" /\ x # None => calls[c].tree = Onto(c, x, files)
        /\ calls[c].pc = "answer" /\ y # None => commits[c].tree = Onto(c, y, files)
    BY <1>13, <1>14, <2>1, <2>3, <2>7, <2>8 DEF Underway, Repo
  <2>10. QED
    BY <2>5, <2>6, <2>9
<1>23. calls'[c].pc # "lost"
  BY DEF InFlight, Storing
<1> HIDE DEF Mine
<1>24. QED
  BY <1>2, <1>3, <1>4, <1>5, <1>16, <1>17, <1>18, <1>19, <1>20, <1>21, <1>22, <1>23, CallStep

-----------------------------------------------------------------------------
(* The index, on a path that no job has pushed to. *)

\* HEAD resolves to the same commit until a handler moves its branch.
LEMMA TipOrCommit ==
  ASSUME Base, Durable \/ ~Restart, [Next]_vars, NEW path \in Paths, Unpushed(path)', OneBranch(path)
  PROVE  \/ Tip(repos[path])' = Tip(repos[path])
         \/ \E c \in Calls : /\ UpdateHead(c) /\ Path(c) = path /\ Tip(repos[path])' = c
                             /\ repos'[path].index = repos[path].index
<1> repos \in [Paths -> RepoRec] /\ repos[path] \in RepoRec
  BY DEF Base, TypeOK
<1>1. ASSUME SameHeads(path) PROVE Tip(repos[path])' = Tip(repos[path])
  BY <1>1 DEF SameHeads, Tip
<1>2. ASSUME NEW c \in Calls, InitHead(c), Path(c) = path, repos'[path].head = calls[c].branch,
             repos'[path].refs = repos[path].refs
      PROVE  Tip(repos[path])' = Tip(repos[path])
  <2>1. repos[path].head = None
    BY <1>2 DEF InitHead, OneBranch
  <2>2. calls[c].branch \in Branches
    BY <1>2 DEF InitHead, Base, Located, InFlight, Storing
  <2>3. repos[path].refs[calls[c].branch] = None
    BY <2>1, <2>2, NamesAssumption DEF OneBranch
  <2>4. QED
    BY <1>2, <2>1, <2>3 DEF Tip
<1>3. ASSUME NEW c \in Calls, UpdateHead(c), Path(c) = path, repos'[path].head = repos[path].head,
             repos'[path].refs = [repos[path].refs EXCEPT ![repos[path].head] = c]
      PROVE  Tip(repos[path])' = c /\ repos'[path].index = repos[path].index
  <2>1. repos[path].head # None
    BY <1>3 DEF UpdateHead, OneBranch, Storing
  <2>2. Tip(repos[path])' = c
    BY <1>3, <2>1 DEF Tip, RepoRec
  <2>3. repos'[path].index = repos[path].index
    BY <1>3 DEF UpdateHead, RepoRec
  <2>4. QED
    BY <2>2, <2>3
<1>4. QED
  BY <1>1, <1>2, <1>3, HeadsStep

LEMMA IndexedNext ==
  ASSUME Base, PastMade, FilesToAdd, TakeTurns, Durable \/ ~Restart, [Next]_vars, NEW path \in Paths,
         Unpushed(path)', OneBranch(path), Reached(path), Indexed(path)
  PROVE  Indexed(path)'
<1> repos \in [Paths -> RepoRec] /\ repos[path] \in RepoRec /\ calls \in [Calls -> CallRec]
  BY DEF Base, TypeOK
<1> DEFINE index == repos[path].index  tip == Tip(repos[path])
<1>1. /\ \A f \in Files : index[f] = TreeOf(tip)[f] \/ index[f] \in Calls \ Past(tip)
      /\ \A c \in Calls : calls[c].pc \in {"add", "tree", "update"} /\ Path(c) = path =>
           /\ \A f \in calls[c].files \ calls[c].todo : index[f] = c
           /\ calls[c].pc = "update" => calls[c].tree = index
  BY DEF Indexed
<1>2. tip \in Commit \cup {None} /\ (tip # None => commits[tip] # None)
  BY TipMade
<1>3. PICK x : x = tip
  OBVIOUS
<1>4. TreeOf(x)' = TreeOf(x) /\ Past(x)' = Past(x)
  BY <1>2, <1>3, TreeKept
<1> DEFINE Held == \A f \in Files : \/ repos'[path].index[f] = TreeOf(Tip(repos[path]))'[f]
                                    \/ repos'[path].index[f] \in Calls \ Past(Tip(repos[path]))'
<1>5. ASSUME Tip(repos[path])' = x,
             \A f \in Files : \/ repos'[path].index[f] = TreeOf(x)[f]
                              \/ repos'[path].index[f] \in Calls \ Past(x)
      PROVE  Held
  <2>1. TreeOf(Tip(repos[path]))' = TreeOf(x) /\ Past(Tip(repos[path]))' = Past(x)
    BY <1>4, <1>5
  <2>2. QED
    BY <1>5, <2>1
<1>6. ASSUME NEW c \in Calls, UpdateHead(c), Path(c) = path, Tip(repos[path])' = c, repos'[path].index = index
      PROVE  Held
  <2>1. TreeOf(c)' = commits'[c].tree
    BY NamesAssumption DEF TreeOf, Commit
  <2>2. commits'[c].tree = calls[c].tree
    BY <1>6 DEF UpdateHead, Commit, Base, TypeOK
  <2>3. calls[c].tree = index
    BY <1>1, <1>6 DEF UpdateHead
  <2>4. TreeOf(Tip(repos[path]))' = index
    BY <1>6, <2>1, <2>2, <2>3
  <2>5. QED
    BY <1>6, <2>4
<1>7. ASSUME Tip(repos[path])' = x, repos'[path] # repos[path] PROVE Held
  <2>1. ~Restart
    BY <1>7 DEF Restart
  <2>2. PICK d \in Calls : /\ calls[d].pc \in InFlight /\ Path(d) = path
                           /\ \/ InitHead(d) \/ ResetHead(d) \/ ResetIndex(d) \/ UpdateHead(d)
                              \/ \E f \in Files : AddFile(d, f)
    BY <1>7, <2>1, RepoStep
  <2>3. CASE InitHead(d) \/ ResetHead(d) \/ UpdateHead(d)
    <3>1. repos'[path].index = index
      BY <2>2, <2>3 DEF InitHead, ResetHead, UpdateHead, RepoRec
    <3>2. QED
      BY <1>1, <1>3, <1>5, <1>7, <3>1
  <2>4. CASE ResetIndex(d)
    <3>1. repos'[path].index = TreeOf(calls[d].at) /\ calls[d].at = x
      BY <1>3, <2>2, <2>4 DEF ResetIndex, RepoRec, Reached
    <3>2. QED
      BY <1>5, <1>7, <3>1
  <2>5. ASSUME NEW f \in Files, AddFile(d, f) PROVE Held
    <3>1. repos'[path].index = [index EXCEPT ![f] = d] /\ index \in Tree
      BY <2>2, <2>5 DEF AddFile, RepoRec
    <3>2. commits[d] = None
      BY <2>5 DEF AddFile, Base, CommitsMade, Storing
    <3>3. d \notin Past(x)
      BY <1>2, <1>3, <3>2 DEF PastMade, Past
    <3>4. QED
      BY <1>1, <1>3, <1>5, <1>7, <3>1, <3>3 DEF Tree
  <2>6. QED
    BY <2>2, <2>3, <2>4, <2>5
<1>8. Held
  BY <1>1, <1>3, <1>5, <1>6, <1>7, TipOrCommit
<1>9. ASSUME NEW c \in Calls, calls'[c].pc \in {"add", "tree", "update"}, Path(c)' = path
      PROVE  /\ \A f \in calls'[c].files \ calls'[c].todo : repos'[path].index[f] = c
             /\ calls'[c].pc = "update" => calls'[c].tree = repos'[path].index
  <2> calls[c] \in CallRec
    OBVIOUS
  <2>1. CASE calls'[c] = calls[c]
    <3>1. Path(c) = path /\ calls[c].pc \in {"add", "tree", "update"}
      BY <1>9, <2>1 DEF Path
    <3>2. repos'[path] = repos[path]
      BY <2>1, <3>1, RepoKept DEF InFlight, Storing
    <3>3. QED
      BY <1>1, <2>1, <3>1, <3>2
  <2>2. CASE SkipReset(c) \/ ResetIndex(c)
    <3>1. calls'[c].pc = "add" /\ calls'[c].files = calls'[c].todo
      BY <2>2 DEF SkipReset, ResetIndex, CallRec, FilesToAdd
    <3>2. QED
      BY <3>1
  <2>3. ASSUME NEW f \in Files, AddFile(c, f)
        PROVE  /\ \A g \in calls'[c].files \ calls'[c].todo : repos'[path].index[g] = c
               /\ calls'[c].pc # "update"
    <3>1. /\ calls[c].pc = "add" /\ calls'[c].pc = "add" /\ calls'[c].files = calls[c].files
          /\ calls'[c].todo = calls[c].todo \ {f} /\ Path(c) = path
      BY <1>9, <2>3 DEF AddFile, CallRec, Path
    <3>2. repos'[path].index = [index EXCEPT ![f] = c] /\ index \in Tree /\ calls[c].files \subseteq Files
      BY <2>3, <3>1 DEF AddFile, RepoRec, CallRec
    <3>3. \A g \in calls[c].files \ calls[c].todo : index[g] = c
      BY <1>1, <3>1
    <3>4. QED
      BY <3>1, <3>2, <3>3 DEF Tree
  <2>4. CASE ReadParent(c) \/ BuildTree(c)
    <3>1. /\ calls[c].pc \in {"add", "tree"} /\ calls'[c].files = calls[c].files
          /\ calls'[c].todo = calls[c].todo /\ Path(c) = path /\ repos' = repos
      BY <1>9, <2>4 DEF ReadParent, BuildTree, CallRec, Path
    <3>2. calls'[c].pc = "update" => calls'[c].tree = index
      BY <2>4, <3>1 DEF ReadParent, BuildTree, CallRec, Repo
    <3>3. QED
      BY <1>1, <3>1, <3>2
  <2>5. ASSUME \/ \E p \in Projects, b \in Branches, files \in FileSets : Begin(c, p, b, files)
               \/ Open(c) \/ InitHead(c) \/ ResetHead(c) \/ UpdateHead(c)
        PROVE  FALSE
    <3>1. calls'[c].pc \in {"open", "init", "reset", "index", "answer"}
      <4>1. CASE \E p \in Projects, b \in Branches, files \in FileSets : Begin(c, p, b, files)
        BY <4>1 DEF Begin, Idle
      <4>2. CASE Open(c) \/ InitHead(c) \/ UpdateHead(c)
        BY <4>2 DEF Open, InitHead, UpdateHead, CallRec
      <4>3. CASE ResetHead(c)
        BY <4>3 DEF ResetHead, CallRec
      <4>4. QED
        BY <2>5, <4>1, <4>2, <4>3
    <3>2. QED
      BY <1>9, <3>1
  <2>6. ASSUME Answer(c) \/ Fail(c) PROVE FALSE
    <3>1. calls'[c].pc \in {"done", "failed"}
      BY <2>6 DEF Answer, Fail, Idle
    <3>2. QED
      BY <1>9, <3>1
  <2>7. CASE \E f \in Files : AddFile(c, f)
    BY <2>3, <2>7
  <2>8. calls'[c].pc # "lost"
    BY <1>9
  <2>9. \/ calls'[c] = calls[c] \/ SkipReset(c) \/ ResetIndex(c) \/ ReadParent(c) \/ BuildTree(c)
        \/ \E f \in Files : AddFile(c, f)
    <3>1. TypeOK
      BY DEF Base
    <3>2. QED
      BY ONLY <2>5, <2>6, <2>8, <3>1, c \in Calls, [Next]_vars, CallStep
  <2>10. QED
    BY <2>1, <2>2, <2>4, <2>7, <2>9
<1> HIDE DEF Held
<1>10. QED
  BY <1>8, <1>9 DEF Held, Indexed

-----------------------------------------------------------------------------
(* The configuration, on a path of one project that no job has pushed to. *)

LEMMA HoldsKept ==
  ASSUME Base, [Next]_vars, NEW path \in Paths, NEW config, Holds(repos[path], config),
         Tip(repos[path])' = Tip(repos[path])
  PROVE  Holds(repos[path], config)'
BY TipMade, TreeKept DEF Holds

\* Each step of a handler keeps the configuration it has, or has yet to add.
LEMMA BringsNext ==
  ASSUME Base, FilesToAdd, [Next]_vars, ~Restart, NEW path \in Paths, Unpushed(path)',
         OneBranch(path), Reached(path), NEW c \in Calls, calls[c].pc \in InFlight, Path(c) = path,
         calls'[c].pc \in InFlight, calls'[c] # calls[c], NEW config, Brings(c, config)
  PROVE  Path(c)' = path /\ Brings(c, config)'
<1> USE DEF Base
<1> calls \in [Calls -> CallRec] /\ calls[c] \in CallRec
  BY DEF TypeOK
<1> repos \in [Paths -> RepoRec] /\ repos[path] \in RepoRec
  BY DEF TypeOK
<1> DEFINE repo == repos[path]  tip == Tip(repos[path])
<1>0. calls'[c].project = calls[c].project /\ Path(c)' = path /\ Repo(c)' = repos'[path] /\ Repo(c) = repo
  <2>1. ~ \E p \in Projects, b \in Branches, files \in FileSets : Begin(c, p, b, files)
    BY DEF Begin, InFlight, Storing
  <2>2. calls'[c].project = calls[c].project
    BY <2>1, FlightStep
  <2>3. QED
    BY <2>2 DEF Path, Repo
<1> DEFINE has == CIFile \notin calls[c].todo
<1>1. /\ ~has => config = c
      /\ has => /\ repo.index[CIFile] = config
                /\ calls[c].pc \in {"open", "init", "reset", "index"} => Holds(repo, config)
                /\ calls[c].pc = "update" => calls[c].tree[CIFile] = config
                /\ calls[c].pc = "answer" => Tip(repo) = c /\ Holds(repo, config)
  BY <1>0 DEF Brings
<1>2. CASE Open(c) \/ SkipReset(c)
  <2>1. /\ calls'[c].todo = calls[c].todo /\ repos' = repos
        /\ calls[c].pc \in {"open", "reset"} /\ calls'[c].pc \in {"init", "reset", "add"}
    BY <1>2 DEF Open, SkipReset, CallRec
  <2>2. has => Holds(repo, config)'
    BY <1>1, <2>1, HoldsKept
  <2>3. QED
    BY <1>0, <1>1, <2>1, <2>2 DEF Brings
<1>3. CASE InitHead(c)
  <2>1. calls'[c].todo = calls[c].todo /\ calls[c].pc = "init"
    BY <1>3 DEF InitHead, CallRec
  <2>2. tip = None
    BY <2>1 DEF OneBranch, Tip
  <2>3. ~has
    BY <1>1, <2>1, <2>2 DEF Holds
  <2>4. QED
    BY <1>0, <1>1, <2>1, <2>3 DEF Brings
<1>4. CASE ResetHead(c)
  <2>1. calls'[c].todo = calls[c].todo /\ calls[c].pc = "reset" /\ calls'[c].pc = "index"
    BY <1>4 DEF ResetHead, CallRec
  <2>2. repos'[path].index = repo.index
    BY <1>4 DEF ResetHead, RepoRec
  <2>3. ~InitHead(c) /\ ~UpdateHead(c)
    BY <2>1 DEF InitHead, UpdateHead
  <2>4. Tip(repos[path])' = tip
    <3>1. calls[c].branch \in Branches
      BY <2>1 DEF Located, InFlight, Storing
    <3>2. calls[c].branch = repo.head /\ repo.refs[calls[c].branch] # None
      BY <1>0, <1>4, <3>1 DEF ResetHead, OneBranch
    <3>3. repos'[path].head = repo.head /\ repos'[path].refs = [repo.refs EXCEPT ![repo.head] = repo.refs[repo.head]]
      BY <1>0, <1>4, <3>2 DEF ResetHead, RepoRec
    <3>4. QED
      BY <3>1, <3>2, <3>3 DEF Tip, RepoRec
  <2>5. has => Holds(repo, config)'
    BY <1>1, <2>1, <2>4, HoldsKept
  <2>6. QED
    BY <1>0, <1>1, <2>1, <2>2, <2>5 DEF Brings
<1>5. CASE ResetIndex(c)
  <2>1. /\ calls'[c].todo = calls[c].todo /\ calls[c].pc = "index" /\ calls'[c].pc = "add"
        /\ calls[c].at = tip
    BY <1>5 DEF ResetIndex, CallRec, Reached
  <2>2. repos'[path].index = TreeOf(tip)
    BY <1>5, <2>1 DEF ResetIndex, RepoRec
  <2>3. has => TreeOf(tip)[CIFile] = config
    BY <1>1, <2>1 DEF Holds, TreeOf
  <2>4. QED
    BY <1>0, <1>1, <2>1, <2>2, <2>3 DEF Brings
<1>6. ASSUME NEW f \in Files, AddFile(c, f) PROVE Brings(c, config)'
  <2>1. /\ calls'[c].todo = calls[c].todo \ {f} /\ f \in calls[c].todo
        /\ calls'[c].pc = "add"
    BY <1>6 DEF AddFile, CallRec
  <2>2. repos'[path].index = [repo.index EXCEPT ![f] = c] /\ repo.index \in Tree
    BY <1>6 DEF AddFile, RepoRec
  <2>3. repos'[path].index[CIFile] = IF f = CIFile THEN c ELSE repo.index[CIFile]
    BY <2>2, FilesAssumption DEF Tree
  <2>4. QED
    BY <1>0, <1>1, <2>1, <2>3 DEF Brings
<1>7. CASE ReadParent(c)
  <2>1. /\ calls'[c].todo = calls[c].todo /\ calls'[c].pc = "tree" /\ repos' = repos
    BY <1>7 DEF ReadParent, CallRec
  <2>2. QED
    BY <1>0, <1>1, <2>1 DEF Brings
<1>8. CASE BuildTree(c)
  <2>1. /\ calls'[c].todo = calls[c].todo /\ calls'[c].pc = "update" /\ repos' = repos
        /\ calls'[c].tree = repo.index
    BY <1>0, <1>8 DEF BuildTree, CallRec
  <2>2. QED
    BY <1>0, <1>1, <2>1 DEF Brings
<1>9. CASE UpdateHead(c)
  <2>1. /\ calls'[c].todo = calls[c].todo /\ calls'[c].pc = "answer" /\ calls[c].pc = "update"
    BY <1>9 DEF UpdateHead, CallRec
  <2>2. repo.head \in Branches
    BY <2>1 DEF OneBranch, Storing, RepoRec
  <2>3. /\ repos'[path].index = repo.index /\ repos'[path].head = repo.head
        /\ repos'[path].refs = [repo.refs EXCEPT ![repo.head] = c]
    BY <1>0, <1>9 DEF UpdateHead, RepoRec
  <2>4. Tip(repos'[path]) = c /\ c # None
    BY <2>2, <2>3, NamesAssumption DEF Tip, RepoRec, Commit
  <2>5. commits'[c].tree = calls[c].tree
    BY <1>9 DEF UpdateHead, TypeOK, Commit
  <2>6. QED
    BY <1>0, <1>1, <2>1, <2>3, <2>4, <2>5 DEF Brings, Holds
<1>10. ASSUME Answer(c) \/ Fail(c) PROVE FALSE
  <2>1. calls'[c].pc \in {"done", "failed"}
    BY <1>10 DEF Answer, Fail, Idle
  <2>2. QED
    BY <2>1 DEF InFlight, Storing
<1>11. ASSUME NEW p, NEW b, NEW files, Begin(c, p, b, files) PROVE FALSE
  BY <1>11 DEF Begin, InFlight, Storing
<1>12. QED
  BY <1>0, <1>2, <1>3, <1>4, <1>5, <1>6, <1>7, <1>8, <1>9, <1>10, <1>11, CallStep

\* A request of p is in flight, or has failed.
Busy(c, p) == calls[c].project = p /\ calls[c].pc \in InFlight \cup {"failed"}

\* A handler's step leaves the records of the others alone.
LEMMA OthersKept ==
  ASSUME TypeOK, [Next]_vars, ~Restart, NEW c \in Calls, calls'[c] # calls[c], NEW d \in Calls, d # c
  PROVE  calls'[d] = calls[d]
<1> calls \in [Calls -> CallRec]
  BY DEF TypeOK
<1>1. ASSUME NEW e \in Calls, NEW p, NEW b, NEW files, Begin(e, p, b, files) PROVE calls'[d] = calls[d]
  BY <1>1 DEF Begin
<1>2. ASSUME NEW e \in Calls,
             Open(e) \/ InitHead(e) \/ SkipReset(e) \/ ResetHead(e) \/ ResetIndex(e)
               \/ ReadParent(e) \/ BuildTree(e) \/ UpdateHead(e) \/ Answer(e) \/ Fail(e)
      PROVE  calls'[d] = calls[d]
  BY <1>2 DEF Open, InitHead, SkipReset, ResetHead, ResetIndex, ReadParent, BuildTree, UpdateHead, Answer, Fail
<1>3. ASSUME NEW e \in Calls, NEW f, AddFile(e, f) PROVE calls'[d] = calls[d]
  BY <1>3 DEF AddFile
<1>4. \/ calls' = calls
      \/ \E e \in Calls, p \in Projects, b \in Branches, files \in FileSets : Begin(e, p, b, files)
      \/ \E e \in Calls : Open(e) \/ InitHead(e) \/ SkipReset(e) \/ ResetHead(e) \/ ResetIndex(e)
            \/ ReadParent(e) \/ BuildTree(e) \/ UpdateHead(e) \/ Answer(e) \/ Fail(e)
      \/ \E e \in Calls, f \in Files : AddFile(e, f)
  BY ZenonT(60), Steps DEF ProjectCreate, PipelineCreate, PushBranch, PushDelete, PushFails, ReadHead, SetHead, vars
<1>5. QED
  BY <1>1, <1>2, <1>3, <1>4

\* The configuration and the SHA of a project are set by its creation and by
\* the requests for it.
LEMMA ProjectKept ==
  ASSUME TypeOK, [Next]_vars, ~Restart, NEW p \in Projects
  PROVE  \/ projects'[p].config = projects[p].config /\ projects'[p].sha = projects[p].sha
         \/ ProjectCreate(p)
         \/ \E c \in Calls, b \in Branches, files \in FileSets : Begin(c, p, b, files)
         \/ \E c \in Calls : Answer(c) /\ calls[c].project = p
<1> projects \in [Projects -> ProjectRec] /\ projects[p] \in ProjectRec
  BY DEF TypeOK
<1>1. ASSUME NEW q \in Projects, q # p, ProjectCreate(q) PROVE projects'[p] = projects[p]
  BY <1>1 DEF ProjectCreate
<1>2. ASSUME NEW c \in Calls, NEW q \in Projects, q # p, NEW b, NEW files, Begin(c, q, b, files)
      PROVE  projects'[p] = projects[p]
  BY <1>2 DEF Begin
<1>3. ASSUME NEW c \in Calls, calls[c].project # p, Answer(c) PROVE projects'[p] = projects[p]
  BY <1>3 DEF Answer
<1>4. \/ projects' = projects
      \/ \E q \in Projects : ProjectCreate(q)
      \/ \E c \in Calls, q \in Projects, b \in Branches, files \in FileSets : Begin(c, q, b, files)
      \/ \E c \in Calls : Answer(c)
  BY ZenonT(60), Steps DEF PipelineCreate, Open, InitHead, SkipReset, ResetHead, ResetIndex, AddFile, ReadParent,
     BuildTree, UpdateHead, Fail, PushBranch, PushDelete, PushFails, ReadHead, SetHead, vars
<1>5. QED
  BY <1>1, <1>2, <1>3, <1>4

LEMMA ConfigNext ==
  ASSUME Serial, Base, TakeTurns, FilesToAdd, ProjectsThere, [Next]_vars, NEW p \in Projects,
         Unpushed(PathOf[p])', OneBranch(PathOf[p]), Reached(PathOf[p]), Reached(PathOf[p])', ConfigKept(p)
  PROVE  ConfigKept(p)'
<1> USE DEF Base
<1> DEFINE path == PathOf[p]  repo == repos[path]
<1> path \in Paths
  BY PathsAssumption
<1> calls \in [Calls -> CallRec] /\ projects \in [Projects -> ProjectRec] /\ projects[p] \in ProjectRec
  BY DEF TypeOK
<1> repos \in [Paths -> RepoRec] /\ repo \in RepoRec
  BY DEF TypeOK
<1> HIDE DEF path
<1>0. path = PathOf[p]
  BY DEF path
<1> SUFFICES ASSUME projects'[p].config # None, Sole(p)',
                    \A c \in Calls : calls'[c].project = p => calls'[c].pc # "failed"
             PROVE  /\ Calm(p)' => /\ projects'[p].sha = Tip(repos'[path])
                                   /\ projects'[p].sha \in Past(Tip(repos[path]))'
                                   /\ Holds(repos[path], projects[p].config)'
                                   /\ repos'[path].index[CIFile] = projects'[p].config
                    /\ \A c \in Calls : calls'[c].project = p /\ calls'[c].pc \in InFlight
                         => Brings(c, projects[p].config)'
  BY <1>0 DEF ConfigKept
<1>1. ~Restart
  BY DEF Restart, NoProject
<1>2. Sole(p)
  BY <1>1, SoleStep
\* A request that has failed would still be there.
<1>3. ASSUME NEW c \in Calls, calls[c].project = p PROVE calls[c].pc # "failed"
  <2> SUFFICES ASSUME calls[c].pc = "failed" PROVE FALSE
    OBVIOUS
  <2>1. calls'[c] # calls[c]
    BY <1>3
  <2>2. ~ (Open(c) \/ InitHead(c) \/ SkipReset(c) \/ ResetHead(c) \/ ResetIndex(c))
    BY DEF Open, InitHead, SkipReset, ResetHead, ResetIndex
  <2>3. ~ (ReadParent(c) \/ BuildTree(c) \/ UpdateHead(c) \/ Answer(c) \/ Fail(c))
    BY DEF ReadParent, BuildTree, UpdateHead, Answer, Fail, InFlight, Storing
  <2>4. /\ \A f \in Files : ~AddFile(c, f)
        /\ \A q \in Projects, b \in Branches, files \in FileSets : ~Begin(c, q, b, files)
    BY DEF AddFile, Begin
  <2>5. QED
    BY <1>1, <2>1, <2>2, <2>3, <2>4, CallStep
\* Whoever is at work on the path is at work for p, and alone.
<1>4. ASSUME NEW c \in Calls, calls[c].pc \in InFlight, Path(c) = path PROVE calls[c].project = p
  BY <1>0, <1>2, <1>4 DEF ProjectsThere, Sole, Path
<1>5. ASSUME NEW c \in Calls, NEW d \in Calls, calls[c].pc \in InFlight, calls[d].pc \in InFlight,
             calls[c].project = p, calls[d].project = p
      PROVE  c = d
  BY <1>5 DEF TakeTurns, Path
<1>6. projects[p].config # None =>
        /\ Calm(p) => /\ projects[p].sha = Tip(repo) /\ projects[p].sha \in Past(Tip(repo))
                      /\ Holds(repo, projects[p].config) /\ repo.index[CIFile] = projects[p].config
        /\ \A c \in Calls : calls[c].project = p /\ calls[c].pc \in InFlight => Brings(c, projects[p].config)
  BY <1>0, <1>2, <1>3 DEF ConfigKept
<1>7. PICK config : config = projects'[p].config
  OBVIOUS
\* A request for p begins.
<1>8. ASSUME NEW c \in Calls, NEW b \in Branches, NEW files \in FileSets, Begin(c, p, b, files)
      PROVE  /\ ~Calm(p)'
             /\ \A d \in Calls : calls'[d].project = p /\ calls'[d].pc \in InFlight => Brings(d, config)'
  <2>1. /\ calls' = [calls EXCEPT ![c] = calls'[c]] /\ repos' = repos /\ commits' = commits
        /\ calls'[c].project = p /\ calls'[c].pc = "open" /\ calls'[c].todo = files
    BY <1>8 DEF Begin, Idle
  <2>2. ASSUME NEW d \in Calls, calls[d].project = p PROVE calls[d].pc \notin InFlight
    BY <1>8, <2>2 DEF Begin, Path
  <2>3. Calm(p)
    BY <1>3, <2>2 DEF Calm
  <2>4. ~Calm(p)'
    BY <2>1 DEF Calm, InFlight, Storing
  <2>5. ASSUME NEW d \in Calls, calls'[d].project = p, calls'[d].pc \in InFlight PROVE d = c
    BY <2>1, <2>2, <2>5
  <2>6. Repo(c)' = repos[path]
    BY <1>0, <2>1 DEF Repo, Path
  <2>7. CIFile \in files => config = c
    BY <1>7, <1>8 DEF Begin, ProjectRec
  <2>8. CIFile \notin files => /\ repo.index[CIFile] = config /\ Holds(repo, config)
                               /\ Holds(repos[path], config)'
    <3>1. CIFile \notin files => config = projects[p].config
      BY <1>7, <1>8 DEF Begin, ProjectRec
    <3>2. Holds(repo, config)' <=> Holds(repo, config)
      BY <2>1 DEF Holds
    <3>3. QED
      BY <1>6, <1>7, <2>3, <3>1, <3>2
  <2>9. Brings(c, config)'
    BY <2>1, <2>6, <2>7, <2>8 DEF Brings
  <2>10. QED
    BY <2>4, <2>5, <2>9
\* The request for p that is in flight takes a step.
<1>9. ASSUME NEW c \in Calls, calls[c].pc \in InFlight, calls[c].project = p, calls'[c] # calls[c],
             calls'[c].pc \in InFlight
      PROVE  /\ ~Calm(p)'
             /\ \A d \in Calls : calls'[d].project = p /\ calls'[d].pc \in InFlight => Brings(d, config)'
  <2>1. \A d \in Calls : d # c => calls'[d] = calls[d]
    BY <1>1, <1>9, OthersKept
  <2>2. ASSUME NEW d \in Calls, calls'[d].project = p, calls'[d].pc \in InFlight PROVE d = c
    BY <1>5, <1>9, <2>1, <2>2
  <2>3. ~ \E d \in Calls, b \in Branches, files \in FileSets : Begin(d, p, b, files)
    BY <1>9, <2>1 DEF Begin, Path
  <2>4. ~ \E d \in Calls : Answer(d) /\ calls[d].project = p
    <3> SUFFICES ASSUME NEW d \in Calls, Answer(d), calls[d].project = p PROVE FALSE
      OBVIOUS
    <3>1. d = c
      BY <1>5, <1>9 DEF Answer, InFlight
    <3>2. calls'[c].pc = "done"
      BY <3>1 DEF Answer, Idle
    <3>3. QED
      BY <1>9, <3>2 DEF InFlight, Storing
  <2>5. ~ProjectCreate(p)
    BY <1>9 DEF ProjectCreate
  <2>6. config = projects[p].config
    BY <1>1, <1>7, <2>3, <2>4, <2>5, ProjectKept
  <2>7. Brings(c, config)
    BY <1>6, <1>7, <1>9, <2>6
  <2>8. Path(c) = path
    BY <1>0, <1>9 DEF Path
  <2>9. Path(c)' = path /\ Brings(c, config)'
    BY <1>0, <1>1, <1>9, <2>7, <2>8, BringsNext
  <2>10. calls'[c].project = p
    <3>1. ~ \E q \in Projects, b \in Branches, files \in FileSets : Begin(c, q, b, files)
      BY <1>9 DEF Begin, InFlight, Storing
    <3>2. QED
      BY <1>9, <3>1, FlightStep
  <2>11. ~Calm(p)'
    BY <1>9, <2>10 DEF Calm
  <2>12. QED
    BY <2>2, <2>9, <2>11
\* ... or its last one: now all is at rest.
<1>10. ASSUME NEW c \in Calls, Answer(c), calls[c].project = p
       PROVE  /\ projects'[p].sha = Tip(repos'[path]) /\ projects'[p].sha \in Past(Tip(repos[path]))'
              /\ Holds(repos[path], config)' /\ repos'[path].index[CIFile] = config
              /\ \A d \in Calls : calls'[d].project = p => calls'[d].pc \notin InFlight
  <2>1. /\ projects'[p].sha = c /\ projects'[p].config = projects[p].config
        /\ repos' = repos /\ commits' = commits /\ calls[c].pc = "answer"
    BY <1>10 DEF Answer, ProjectRec
  <2>2. Brings(c, config) /\ Path(c) = path /\ Repo(c) = repo
    BY <1>0, <1>6, <1>7, <1>10, <2>1 DEF InFlight, Path, Repo
  <2>3. calls[c].todo = {}
    BY <2>1 DEF FilesToAdd
  <2>4. Tip(repo) = c /\ Holds(repo, config) /\ repo.index[CIFile] = config
    BY <2>1, <2>2, <2>3 DEF Brings
  <2>5. c \in Past(Tip(repo))
    BY <1>0, <2>1, <2>2 DEF Reached
  <2>6. Past(Tip(repos[path]))' = Past(Tip(repo))
    BY <2>1 DEF Past
  <2>7. Holds(repos[path], config)'
    BY <2>1, <2>4 DEF Holds
  <2>8. ASSUME NEW d \in Calls, calls'[d].project = p PROVE calls'[d].pc \notin InFlight
    <3>1. CASE d = c
      BY <1>10, <3>1 DEF Answer, Idle, InFlight, Storing
    <3>2. CASE d # c
      BY <1>5, <1>10, <2>1, <2>8, <3>2 DEF Answer, InFlight
    <3>3. QED
      BY <3>1, <3>2
  <2>9. QED
    BY <2>1, <2>4, <2>5, <2>6, <2>7, <2>8
\* Nobody is at work for p.
<1>11. ASSUME ~ \E c \in Calls, b \in Branches, files \in FileSets : Begin(c, p, b, files),
              \A c \in Calls : calls[c].pc \in InFlight /\ calls[c].project = p => calls'[c] = calls[c]
       PROVE  /\ Calm(p)' => /\ projects'[p].sha = Tip(repos'[path]) /\ projects'[p].sha \in Past(Tip(repos[path]))'
                             /\ Holds(repos[path], config)' /\ repos'[path].index[CIFile] = config
              /\ \A d \in Calls : calls'[d].project = p /\ calls'[d].pc \in InFlight => Brings(d, config)'
  <2>1. ~ProjectCreate(p)
    BY DEF ProjectCreate, NoProject, ProjectRec
  <2>2. ~ \E c \in Calls : Answer(c) /\ calls[c].project = p
    BY <1>11 DEF Answer, Idle, InFlight
  <2>3. projects'[p].sha = projects[p].sha /\ projects[p].config = config
    BY <1>1, <1>7, <1>11, <2>1, <2>2, ProjectKept
  <2>4. repos'[path] = repo
    <3> SUFFICES ASSUME repos'[path] # repo PROVE FALSE
      OBVIOUS
    <3>1. PICK c \in Calls : /\ calls[c].pc \in InFlight /\ Path(c) = path
                             /\ \/ InitHead(c) \/ ResetHead(c) \/ ResetIndex(c) \/ UpdateHead(c)
                                \/ \E f \in Files : AddFile(c, f)
      BY <1>0, <1>1, RepoStep
    <3>2. calls'[c] = calls[c]
      BY <1>4, <1>11, <3>1
    <3>3. QED
      BY <1>0, <3>1, <3>2, RepoKeptStep
  <2>5. ASSUME NEW d \in Calls, calls'[d].project = p, calls'[d].pc \in InFlight
        PROVE  calls[d].project = p /\ calls[d].pc \in InFlight /\ calls'[d] = calls[d]
    <3>1. ~ \E q \in Projects, b \in Branches, files \in FileSets : Begin(d, q, b, files)
      <4> SUFFICES ASSUME NEW q \in Projects, NEW b \in Branches, NEW files \in FileSets, Begin(d, q, b, files)
                   PROVE  FALSE
        OBVIOUS
      <4>1. q = p
        BY <2>5 DEF Begin, Idle
      <4>2. QED
        BY <1>11, <4>1
    <3>2. calls[d].project = p /\ calls[d].pc \in InFlight
      BY <2>5, <3>1, FlightStep
    <3>3. QED
      BY <1>11, <3>2
  <2>6. Tip(repos[path])' = Tip(repo)
    BY <2>4 DEF Tip
  <2>7. Holds(repo, config) => Holds(repos[path], config)'
    BY <2>6, HoldsKept
  <2>8. Tip(repo) # None => Past(Tip(repos[path]))' = Past(Tip(repo))
    <3>1. PICK x : x = Tip(repo)
      OBVIOUS
    <3>2. x # None => Past(x)' = Past(x)
      BY <3>1, TipMade, TreeKept
    <3>3. QED
      BY <2>6, <3>1, <3>2
  <2>9. ASSUME Calm(p)'
        PROVE  /\ projects'[p].sha = Tip(repos'[path]) /\ projects'[p].sha \in Past(Tip(repos[path]))'
               /\ Holds(repos[path], config)' /\ repos'[path].index[CIFile] = config
    <3>1. Calm(p)
      BY <1>3, <1>11, <2>9 DEF Calm
    <3>2. /\ projects[p].sha = Tip(repo) /\ projects[p].sha \in Past(Tip(repo))
          /\ Holds(repo, config) /\ repo.index[CIFile] = config
      BY <1>6, <1>7, <2>3, <3>1
    <3>3. QED
      BY <2>3, <2>4, <2>6, <2>7, <2>8, <3>2 DEF Holds
  <2>10. ASSUME NEW d \in Calls, calls'[d].project = p, calls'[d].pc \in InFlight PROVE Brings(d, config)'
    <3>1. calls'[d] = calls[d] /\ calls[d].project = p /\ Brings(d, config)
      BY <1>6, <1>7, <2>3, <2>5, <2>10
    <3>2. Repo(d) = repo /\ Repo(d)' = repos'[path]
      BY <1>0, <3>1 DEF Repo, Path
    <3>3. QED
      BY <2>4, <2>6, <2>7, <3>1, <3>2 DEF Brings
  <2>11. QED
    BY <2>9, <2>10
<1>12. ASSUME NEW c \in Calls, calls[c].pc \in InFlight, calls[c].project = p, calls'[c] # calls[c],
              calls'[c].pc \notin InFlight
       PROVE  Answer(c)
  <2>1. CASE Fail(c)
    <3>1. calls'[c].project = p /\ calls'[c].pc = "failed"
      BY <1>12, <2>1 DEF Fail, Idle
    <3>2. QED
      BY <3>1
  <2>2. ASSUME Open(c) \/ InitHead(c) \/ SkipReset(c) PROVE FALSE
    BY <1>12, <2>2 DEF Open, InitHead, SkipReset, CallRec, InFlight, Storing
  <2>3. ASSUME ResetHead(c) \/ ResetIndex(c) PROVE FALSE
    BY <1>12, <2>3 DEF ResetHead, ResetIndex, CallRec, InFlight, Storing
  <2>4. ASSUME NEW f, AddFile(c, f) PROVE FALSE
    BY <1>12, <2>4 DEF AddFile, CallRec, InFlight, Storing
  <2>5. ASSUME ReadParent(c) \/ BuildTree(c) \/ UpdateHead(c) PROVE FALSE
    BY <1>12, <2>5 DEF ReadParent, BuildTree, UpdateHead, CallRec, InFlight, Storing
  <2>6. ASSUME NEW q, NEW b, NEW files, Begin(c, q, b, files) PROVE FALSE
    BY <1>12, <2>6 DEF Begin, InFlight, Storing
  <2>7. QED
    BY <1>1, <1>12, <2>1, <2>2, <2>3, <2>4, <2>5, <2>6, CallStep
<1>13. \/ \E c \in Calls, b \in Branches, files \in FileSets : Begin(c, p, b, files)
       \/ \E c \in Calls : /\ calls[c].pc \in InFlight /\ calls[c].project = p /\ calls'[c] # calls[c]
                           /\ calls'[c].pc \in InFlight
       \/ \E c \in Calls : Answer(c) /\ calls[c].project = p
       \/ /\ ~ \E c \in Calls, b \in Branches, files \in FileSets : Begin(c, p, b, files)
          /\ \A c \in Calls : calls[c].pc \in InFlight /\ calls[c].project = p => calls'[c] = calls[c]
  BY <1>12
<1>14. QED
  BY <1>7, <1>8, <1>9, <1>10, <1>11, <1>13

\* A pipeline's configuration stays in its commit, and its commit below the tip.
LEMMA PipelineFitsCommitNext ==
  ASSUME Serial, Base, PastMade, [Next]_vars, PipelineFitsCommit,
         \A path \in Paths : Unpushed(path) => Undisturbed(path)
  PROVE  PipelineFitsCommit'
<1> USE DEF Base
<1> SUFFICES ASSUME NEW pl \in pipelines', pl.calm, Sole(pl.project)', Unpushed(PathOf[pl.project])'
             PROVE  /\ pl.sha # Pseudo
                    /\ commits'[pl.sha].tree[CIFile] = pl.config
                    /\ pl.sha \in Past(Tip(repos[PathOf[pl.project]]))'
  BY DEF PipelineFitsCommit
<1> pipelines \subseteq PipelineRec /\ projects \in [Projects -> ProjectRec]
  BY DEF TypeOK
<1>1. ~Restart
  BY DEF Restart
<1>2. pl.project \in Projects /\ pl.sha \in Calls \cup {Pseudo}
  <2>1. pipelines' \subseteq PipelineRec
    BY BaseNext DEF TypeOK
  <2>2. QED
    BY <2>1 DEF PipelineRec
<1> DEFINE p == pl.project  path == PathOf[pl.project]  repo == repos[PathOf[pl.project]]
<1>3. path \in Paths
  BY <1>2, PathsAssumption
<1>4. Sole(p) /\ Unpushed(path)
  BY <1>1, <1>2, <1>3, SoleStep, UnpushedStep
<1>5. OneBranch(path) /\ Reached(path) /\ ConfigKept(p)
  BY <1>2, <1>3, <1>4 DEF Undisturbed
<1>6. ASSUME pl.sha # Pseudo, commits[pl.sha].tree[CIFile] = pl.config, pl.sha \in Past(Tip(repo))
      PROVE  /\ commits'[pl.sha].tree[CIFile] = pl.config
             /\ pl.sha \in Past(Tip(repo))'
  <2>1. Tip(repo) \in Commit /\ commits[Tip(repo)] # None /\ pl.sha \in commits[Tip(repo)].past
    BY <1>3, <1>6, TipMade DEF Past
  <2>2. commits[pl.sha] # None /\ pl.sha \in Commit
    BY <1>2, <1>6, <2>1 DEF PastMade, Commit
  <2>3. commits'[pl.sha] = commits[pl.sha]
    BY <2>2, CommitsGrow
  <2>4. pl.sha \in Past(Tip(repo))'
    BY <1>1, <1>3, <1>5, <1>6, TipStep
  <2>5. QED
    BY <1>6, <2>3, <2>4
<1>7. CASE pl \in pipelines
  <2>1. /\ pl.sha # Pseudo /\ commits[pl.sha].tree[CIFile] = pl.config
        /\ pl.sha \in Past(Tip(repo))
    BY <1>4, <1>7 DEF PipelineFitsCommit
  <2>2. QED
    BY <1>6, <2>1
<1>8. ASSUME NEW q \in Projects, PipelineCreate(q), pl \notin pipelines
      PROVE  pl.sha # Pseudo /\ commits[pl.sha].tree[CIFile] = pl.config /\ pl.sha \in Past(Tip(repo))
  <2>1. /\ q = p /\ pl.config = projects[p].config /\ projects[p].config # None
        /\ pl.sha = IF projects[p].sha = None THEN Pseudo ELSE projects[p].sha
        /\ Calm(p)
    BY <1>8 DEF PipelineCreate
  <2>2. \A c \in Calls : calls[c].project = p => calls[c].pc # "failed"
    BY <2>1 DEF Calm
  <2>3. /\ projects[p].sha = Tip(repo) /\ projects[p].sha \in Past(Tip(repo))
        /\ Holds(repo, projects[p].config)
    BY <1>4, <1>5, <2>1, <2>2 DEF ConfigKept
  <2>4. Tip(repo) # None /\ commits[Tip(repo)].tree[CIFile] = projects[p].config
    BY <2>3 DEF Holds
  <2>5. projects[p].sha \in Calls
    BY <1>2, <2>3, <2>4 DEF ProjectRec
  <2>6. QED
    BY <2>1, <2>3, <2>4, <2>5, NamesAssumption DEF Commit
<1>9. pipelines' = pipelines \/ \E q \in Projects : PipelineCreate(q)
  BY <1>1, Steps DEF ProjectCreate, Begin, Open, InitHead, SkipReset, ResetHead, ResetIndex, AddFile, ReadParent,
     BuildTree, UpdateHead, Answer, Fail, PushBranch, PushDelete, PushFails, ReadHead, SetHead, vars
<1>10. QED
  BY <1>6, <1>7, <1>8, <1>9

-----------------------------------------------------------------------------
\* The strengthening that the runs check is inductive.
LEMMA IInvInit == Init => IInv
<1> SUFFICES ASSUME Init PROVE IInv
  OBVIOUS
<1>1. TakeTurns
  BY DEF Init, TakeTurns, Idle, InFlight, Storing
<1>2. \A path \in Paths : OneBranch(path) /\ Reached(path) /\ Indexed(path)
  <2>1. \A path \in Paths : OneBranch(path) /\ Reached(path)
    BY DEF Init, OneBranch, Reached, Idle, EmptyRepo, Storing
  <2>2. \A path \in Paths : Tip(repos[path]) = None /\ repos[path].index = EmptyTree
    BY DEF Init, Tip, EmptyRepo
  <2>3. \A path \in Paths : Indexed(path)
    BY <2>2 DEF Init, Indexed, TreeOf, Idle
  <2>4. QED
    BY <2>1, <2>3
<1>3. \A c \in Calls : calls[c].pc = "idle" /\ calls[c].todo = {} /\ calls[c].files = {}
  BY DEF Init, Idle
<1>4. \A p \in Projects : projects[p].config = None
  BY DEF Init, NoProject
<1>5. \A path \in Paths : Undisturbed(path)
  BY <1>2, <1>3, <1>4 DEF Undisturbed, ConfigKept, InFlight, Storing
<1>6. PastMade /\ FilesToAdd /\ ProjectsThere
  BY <1>3, ZenonT(60) DEF Init, PastMade, FilesToAdd, ProjectsThere, InFlight, Storing
<1>7. GoalsThere /\ PipelineFitsCommit
  BY DEF Init, GoalsThere, PipelineFitsCommit
<1>8. QED
  BY <1>1, <1>5, <1>6, <1>7, BaseInit DEF IInv, Base

LEMMA UndisturbedNext ==
  ASSUME Serial, IInv, [Next]_vars, NEW path \in Paths, Unpushed(path)'
  PROVE  Undisturbed(path)'
<1>1. Base /\ PastMade /\ FilesToAdd /\ ProjectsThere /\ TakeTurns
  BY DEF IInv, Base
<1>2. Undisturbed(path)
  BY <1>1, UnpushedStep DEF IInv, Base
<1>3. CASE ~Restart
  <2>1. OneBranch(path)' /\ Reached(path)' /\ Indexed(path)'
    BY <1>1, <1>2, <1>3, OneBranchNext, ReachedNext, IndexedNext DEF Undisturbed
  <2>2. ASSUME NEW c \in Calls, calls'[c].pc \in InFlight, Path(c)' = path PROVE Underway(c)'
    BY <1>1, <1>2, <2>2, UnderwayNext DEF Undisturbed
  <2>3. ASSUME NEW p \in Projects, PathOf[p] = path PROVE ConfigKept(p)'
    BY <1>1, <1>2, <2>1, <2>3, ConfigNext DEF Undisturbed
  <2>4. QED
    BY <2>1, <2>2, <2>3 DEF Undisturbed
<1>4. CASE Restart
  <2>1. OneBranch(path)' /\ Reached(path)' /\ Indexed(path)'
    <3>1. CASE Durable
      BY <1>1, <1>2, <3>1, OneBranchNext, ReachedNext, IndexedNext DEF Undisturbed
    <3>2. CASE ~Durable
      BY <1>4, <3>2, EmptyStep
    <3>3. QED
      BY <3>1, <3>2
  <2>2. \A p \in Projects : projects'[p].config = None
    BY <1>4 DEF Restart, NoProject
  <2>3. \A c \in Calls : calls'[c].pc \notin InFlight
    BY <1>4, RestartStep
  <2>4. QED
    BY <2>1, <2>2, <2>3 DEF Undisturbed, ConfigKept
<1>5. QED
  BY <1>3, <1>4

LEMMA IInvNext == IInv /\ [Next]_vars => IInv'
<1> SUFFICES ASSUME IInv, [Next]_vars PROVE IInv'
  OBVIOUS
<1>1. Base /\ Base'
  BY BaseNext DEF IInv, Base
<1>2. PastMade' /\ FilesToAdd'
  BY PastMadeNext, FilesToAddNext DEF IInv
<1>3. GoalsThere' /\ ProjectsThere'
  BY GoalsThereNext, ProjectsThereNext DEF IInv
<1>4. ASSUME Serial PROVE TakeTurns'
  BY <1>1, <1>4, TakeTurnsNext DEF IInv, Base
<1>5. ASSUME Serial, NEW path \in Paths, Unpushed(path)' PROVE Undisturbed(path)'
  BY <1>5, UndisturbedNext
<1>6. PipelineFitsCommit'
  <2>1. CASE Serial
    BY <1>1, <2>1, PipelineFitsCommitNext DEF IInv
  <2>2. CASE ~Serial
    BY <2>2 DEF PipelineFitsCommit
  <2>3. QED
    BY <2>1, <2>2
<1>7. QED
  BY <1>1, <1>2, <1>3, <1>4, <1>5, <1>6 DEF IInv, Base

\* Together these say where a repository, its handlers and its projects stand at
\* every moment of seedCommit (projects_api.go:45-125, git.go:56-114).
THEOREM CommitInvariance == Spec => []IInv
BY IInvInit, IInvNext, PTL DEF Spec

\* No branch, failure or restart takes an answered commit out of what HEAD
\* reaches while callers take turns (projects_api.go:78-88, git.go:82-114).
THEOREM CommitsStay == Spec => []AckedCommitsStay
<1>1. IInv => AckedCommitsStay
  <2> SUFFICES ASSUME IInv, Serial, Durable, NEW c \in Calls, calls[c].pc = "done", Unpushed(commits[c].path)
               PROVE  c \in Past(Tip(repos[commits[c].path]))
    BY DEF AckedCommitsStay
  <2>1. commits[c].path \in Paths
    BY DEF IInv, Answerable, TypeOK, CommitRec, Commit
  <2>2. QED
    BY <2>1 DEF IInv, Undisturbed, Reached
<1>2. QED
  BY <1>1, CommitInvariance, PTL

\* A commit is its parent with the files of its request replaced: an index left
\* by a request that failed, or by a crash, leaves no trace (git.go:56-59,82-111).
THEOREM CommitsAdd == Spec => []CommitIsAdditive
<1>1. IInv => CommitIsAdditive
  <2> SUFFICES ASSUME IInv, Serial, NEW c \in Calls, calls[c].pc = "answer", Unpushed(Path(c)),
                      calls[c].at # None, calls[c].branch = Repo(c).head
               PROVE  commits[c].tree = [f \in Files |-> IF f \in calls[c].files THEN c ELSE TreeOf(calls[c].at)[f]]
    BY DEF CommitIsAdditive
  <2>1. calls[c].pc \in InFlight /\ Path(c) \in Paths
    BY PathsAssumption DEF InFlight, IInv, Located, Path
  <2>2. Underway(c)
    BY <2>1 DEF IInv, Undisturbed
  <2>3. QED
    BY <2>2 DEF Underway, Onto
<1>2. QED
  BY <1>1, CommitInvariance, PTL

\* A pipeline created while commits are at rest runs the configuration of the
\* commit its jobs clone, which HEAD still reaches (projects_api.go:54,84,112).
THEOREM PipelinesFit == Spec => []PipelineFitsCommit
<1>1. IInv => PipelineFitsCommit
  BY DEF IInv
<1>2. QED
  BY <1>1, CommitInvariance, PTL

\* However commits interleave with a push, HEAD resolves when it is answered, if
\* main or master is there (git.go:327-336).
THEOREM HeadRepaired == Spec => PushLeavesHead
<1> DEFINE Left(k) == LET repo == repos'[pushes'[k].path] IN
                        pushes[k].pc \in {"head", "sethead"} /\ pushes'[k].pc = "done" /\ Alone(k)
                        => Tip(repo) # None \/ Fallback(repo.refs) = None
<1>1. IInv /\ [Next]_vars => [\A k \in Pushes : Left(k)]_vars
  <2> SUFFICES ASSUME IInv, Next, NEW k \in Pushes, pushes[k].pc \in {"head", "sethead"}, pushes'[k].pc = "done", Alone(k)
               PROVE  Tip(repos'[pushes'[k].path]) # None \/ Fallback(repos'[pushes'[k].path].refs) = None
    BY DEF vars
  <2> pushes \in [Pushes -> PushRec] /\ pushes[k] \in PushRec
    BY DEF IInv, TypeOK
  <2>1. CASE ReadHead(k)
    <3>1. repos' = repos /\ pushes'[k].path = pushes[k].path
      BY <2>1 DEF ReadHead, PushRec
    <3>2. Tip(repos[pushes[k].path]) # None \/ Fallback(repos[pushes[k].path].refs) = None
      BY <2>1 DEF ReadHead, PushRec
    <3>3. QED
      BY <3>1, <3>2
  <2>2. CASE SetHead(k)
    <3>1. pushes[k].pc = "sethead" /\ pushes[k].path \in Paths /\ pushes'[k].path = pushes[k].path
      BY <2>2 DEF SetHead, IInv, CommitsMade, PushRec
    <3>2. pushes[k].goal \in Branches /\ repos[pushes[k].path].refs[pushes[k].goal] # None
      BY <3>1 DEF IInv, GoalsThere
    <3>3. /\ repos'[pushes[k].path].head = pushes[k].goal
          /\ repos'[pushes[k].path].refs = repos[pushes[k].path].refs
      BY <2>2, <3>1 DEF SetHead, IInv, TypeOK, RepoRec
    <3>4. QED
      BY <3>1, <3>2, <3>3, NamesAssumption DEF Tip
  <2>3. ASSUME NEW l \in Pushes, l # k, PushFails(l) \/ ReadHead(l) \/ SetHead(l) PROVE pushes'[k] = pushes[k]
    BY <2>3 DEF PushFails, ReadHead, SetHead
  <2>4. ASSUME NEW l \in Pushes, NEW r, NEW b, NEW base, NEW f, PushBranch(l, r, b, base, f)
        PROVE  pushes'[k] = pushes[k]
    BY <2>4 DEF PushBranch
  <2>5. ASSUME NEW l \in Pushes, NEW r, NEW b, PushDelete(l, r, b) PROVE pushes'[k] = pushes[k]
    BY <2>5 DEF PushDelete
  <2>6. ~Restart
    BY DEF Restart, PushRec
  <2>9. ~PushFails(k)
    BY DEF PushFails, PushRec
  <2>7. \/ pushes' = pushes
        \/ \E l \in Pushes : PushFails(l) \/ ReadHead(l) \/ SetHead(l)
        \/ \E l \in Pushes : \E r, b, base, f : PushBranch(l, r, b, base, f)
        \/ \E l \in Pushes : \E r, b : PushDelete(l, r, b)
    BY ZenonT(60), <2>6, Steps DEF ProjectCreate, PipelineCreate, Begin, Open, InitHead, SkipReset, ResetHead,
       ResetIndex, AddFile, ReadParent, BuildTree, Answer, Fail, UpdateHead, vars
  <2>8. QED
    BY <2>1, <2>2, <2>3, <2>4, <2>5, <2>7, <2>9
<1>2. QED
  BY <1>1, CommitInvariance, PTL DEF Spec, PushLeavesHead

-----------------------------------------------------------------------------
(* The commits API implements Repositories. *)

\* What a state of a handler means to its caller.
LEMMA Outcomes ==
  /\ \A pc \in Storing : Outcome(pc) = "open"
  /\ Outcome("answer") = "committed" /\ Outcome("done") = "answered" /\ Outcome("idle") = "idle"
  /\ Outcome("failed") = "over" /\ Outcome("lost") = "over"
BY DEF Outcome, Storing

LEMMA RequestsStep ==
  ASSUME TypeOK, NEW c \in Calls, NEW new, calls' = [calls EXCEPT ![c] = new]
  PROVE  Requests' = [Requests EXCEPT ![c] = [state |-> Outcome(new.pc), files |-> new.files]]
<1>1. \A d \in Calls : calls'[d] = IF d = c THEN new ELSE calls[d]
  BY DEF TypeOK
<1>2. Requests' = [d \in Calls |-> [state |-> Outcome(calls'[d].pc), files |-> calls'[d].files]]
  BY DEF Requests
<1>3. QED
  BY <1>1, <1>2 DEF Requests

\* Most steps are invisible.
LEMMA RequestsQuiet ==
  ASSUME TypeOK, NEW c \in Calls, NEW new, calls' = [calls EXCEPT ![c] = new],
         Outcome(new.pc) = Outcome(calls[c].pc), new.files = calls[c].files
  PROVE  Requests' = Requests
<1>1. Requests' = [Requests EXCEPT ![c] = [state |-> Outcome(new.pc), files |-> new.files]]
  BY RequestsStep
<1>2. QED
  BY <1>1 DEF Requests

\* A path looks the same until a commit is made there, or a first push.
LEMMA ViewStep ==
  ASSUME IInv, Serial, Durable \/ ~Restart, [Next]_vars, NEW path \in Paths, path \in Pushed' => path \in Pushed,
         \A c \in Calls : UpdateHead(c) => Path(c) # path
  PROVE  Content'[path] = Content[path] /\ History'[path] = History[path]
<1>1. Base
  BY DEF IInv, Base
<1>2. CASE path \in Pushed
  <2>1. path \in Pushed'
    BY <1>1, <1>2, UnpushedStep DEF Pushed, Base
  <2>2. QED
    BY <1>2, <2>1 DEF Content, History
<1>3. CASE path \notin Pushed
  <2>1. Unpushed(path) /\ Unpushed(path)'
    BY <1>3 DEF Pushed
  <2>2. OneBranch(path)
    BY <2>1 DEF IInv, Undisturbed
  <2>3. PICK x : x = Tip(repos[path])
    OBVIOUS
  <2>4. Tip(repos[path])' = x
    BY <1>1, <2>1, <2>2, <2>3, TipOrCommit
  <2>5. x \in Commit \cup {None} /\ (x # None => commits[x] # None)
    BY <1>1, <2>3, TipMade
  <2>6. TreeOf(x)' = TreeOf(x) /\ Past(x)' = Past(x)
    BY <1>1, <2>5, TreeKept
  <2>7. Content[path] = TreeOf(x) /\ History[path] = Past(x)
    BY <1>3, <2>3 DEF Content, History
  <2>8. path \notin Pushed'
    BY <2>1 DEF Pushed
  <2>9. Content'[path] = TreeOf(Tip(repos[path]))' /\ History'[path] = Past(Tip(repos[path]))'
    BY <2>8 DEF Content, History
  <2>10. TreeOf(Tip(repos[path]))' = TreeOf(x)' /\ Past(Tip(repos[path]))' = Past(x)'
    BY <2>4
  <2>11. QED
    BY <2>6, <2>7, <2>9, <2>10
<1>4. QED
  BY <1>2, <1>3

LEMMA Views ==
  /\ Content = [path \in Paths |-> Content[path]] /\ History = [path \in Paths |-> History[path]]
  /\ DOMAIN Content = Paths /\ DOMAIN History = Paths
BY DEF Content, History

\* A step that changes what is seen of at most one path.
LEMMA ViewChange ==
  ASSUME NEW path, \A q \in Paths \ {path} : Content'[q] = Content[q] /\ History'[q] = History[q]
  PROVE  /\ \A x : (path \in Paths => Content'[path] = x) => Content' = [Content EXCEPT ![path] = x]
         /\ \A x : (path \in Paths => History'[path] = x) => History' = [History EXCEPT ![path] = x]
<1>1. /\ Content' = [q \in Paths |-> Content'[q]] /\ History' = [q \in Paths |-> History'[q]]
      /\ DOMAIN Content' = Paths /\ DOMAIN History' = Paths
  BY DEF Content, History
<1>2. QED
  BY <1>1, Views

\* A step that neither pushes nor commits.
LEMMA ViewQuiet ==
  ASSUME IInv, Serial, Durable \/ ~Restart, [Next]_vars, Pushed' = Pushed, \A c \in Calls : ~UpdateHead(c)
  PROVE  Content' = Content /\ History' = History
<1>1. \A q \in Paths : Content'[q] = Content[q] /\ History'[q] = History[q]
  BY ViewStep
<1>2. /\ Content' = [q \in Paths |-> Content'[q]] /\ History' = [q \in Paths |-> History'[q]]
  BY DEF Content, History
<1>3. QED
  BY <1>1, <1>2, Views

\* The one step of a request that its repository shows: the whole commit, on top
\* of what was there.
LEMMA CommitSeen ==
  ASSUME IInv, IInv', Serial, [Next]_vars, NEW c \in Calls, UpdateHead(c), Unpushed(Path(c))
  PROVE  /\ Path(c) \in Paths /\ c \notin History[Path(c)]
         /\ History'[Path(c)] = History[Path(c)] \cup {c}
         /\ Content'[Path(c)] = calls[c].tree /\ calls[c].tree \in [Files -> Commit \cup {None}]
         /\ \A f \in Files : IF f \in calls[c].files THEN calls[c].tree[f] = c
                             ELSE \/ calls[c].tree[f] = Content[Path(c)][f]
                                  \/ calls[c].tree[f] \in Calls \ History[Path(c)]
<1> PICK path : path = Path(c)
  OBVIOUS
<1>1. /\ TypeOK /\ Base /\ calls[c].pc = "update" /\ path \in Paths
      /\ calls[c] \in CallRec /\ repos \in [Paths -> RepoRec] /\ repos[path] \in RepoRec
  <2>1. calls[c].pc = "update"
    BY DEF UpdateHead
  <2>2. path \in Paths
    BY <2>1, PathsAssumption DEF IInv, Located, Path, InFlight, Storing
  <2>3. QED
    BY <2>1, <2>2 DEF IInv, TypeOK, Base
<1>2. Unpushed(path)' /\ path \notin Pushed /\ path \notin Pushed'
  BY DEF Pushed, UpdateHead, Unpushed
<1>3. OneBranch(path) /\ Reached(path) /\ Indexed(path)
  BY <1>1 DEF IInv, Undisturbed
<1>4. PICK x : x = Tip(repos[path])
  OBVIOUS
<1>5. x \in Commit \cup {None} /\ (x # None => commits[x] # None) /\ calls[c].at = x
  BY <1>1, <1>3, <1>4, TipMade DEF Reached
<1>6. Content[path] = TreeOf(x) /\ History[path] = Past(x)
  BY <1>1, <1>2, <1>4 DEF Content, History
<1>7. commits[c] = None
  BY <1>1 DEF IInv, CommitsMade, Storing
<1>8. c \notin Past(x)
  BY <1>5, <1>7 DEF IInv, PastMade, Past, Commit
<1>9. commits'[c].tree = calls[c].tree /\ commits'[c].past = Past(x) \cup {c}
  BY <1>1, <1>5 DEF UpdateHead, TypeOK, Commit
<1>10. Tip(repos[path])' = c
  <2>1. repos[path].head \in Branches
    BY <1>1, <1>3 DEF OneBranch, Storing, RepoRec
  <2>2. repos'[path] = [repos[path] EXCEPT !.refs[repos[path].head] = c]
    BY <1>1 DEF UpdateHead, Repo
  <2>3. repos'[path].head = repos[path].head /\ repos'[path].refs[repos[path].head] = c
    BY <1>1, <2>1, <2>2 DEF RepoRec
  <2>4. QED
    BY <2>1, <2>3, NamesAssumption DEF Tip
<1>11. TreeOf(c)' = calls[c].tree /\ Past(c)' = Past(x) \cup {c}
  BY <1>9, NamesAssumption DEF TreeOf, Past, Commit
<1>12. Content'[path] = TreeOf(Tip(repos[path]))' /\ History'[path] = Past(Tip(repos[path]))'
  BY <1>1, <1>2 DEF Content, History
<1>13. TreeOf(Tip(repos[path]))' = TreeOf(c)' /\ Past(Tip(repos[path]))' = Past(c)'
  BY <1>10
<1>14. calls[c].todo = {} /\ calls[c].tree = repos[path].index
  BY <1>1, <1>3 DEF IInv, FilesToAdd, Indexed
<1>15. ASSUME NEW f \in Files
       PROVE  IF f \in calls[c].files THEN calls[c].tree[f] = c
              ELSE calls[c].tree[f] = TreeOf(x)[f] \/ calls[c].tree[f] \in Calls \ Past(x)
  BY <1>1, <1>3, <1>4, <1>14 DEF Indexed
<1>16. calls[c].tree \in [Files -> Commit \cup {None}]
  BY <1>1 DEF CallRec, Tree
<1>17. QED
  BY <1>1, <1>6, <1>8, <1>11, <1>12, <1>13, <1>15, <1>16

\* The record of a request, field by field.
LEMMA RequestFields ==
  ASSUME NEW c \in Calls
  PROVE  /\ DOMAIN Requests = Calls
         /\ Requests[c] = [state |-> Outcome(calls[c].pc), files |-> calls[c].files]
BY DEF Requests

LEMMA CommitShown ==
  ASSUME IInv, IInv', Serial, [Next]_vars, NEW c \in Calls, UpdateHead(c)
  PROVE  Promised!Commit(c, Path(c)) /\ Path(c) \in Paths
<1> PICK path : path = Path(c)
  OBVIOUS
<1>1. calls[c].pc = "update" /\ Pushed' = Pushed /\ ~Restart /\ TypeOK
  <2>1. calls'[c].pc = "answer"
    BY DEF UpdateHead, IInv, TypeOK
  <2>2. ~Restart
    BY <2>1, RestartStep DEF InFlight
  <2>3. QED
    BY <2>2 DEF UpdateHead, IInv, Pushed, Unpushed
<1>2. path \in Paths
  BY <1>1, PathsAssumption DEF IInv, Located, Path, InFlight, Storing
<1>3. Requests[c].state = "open" /\ Requests[c].files = calls[c].files
  <2>1. Outcome(calls[c].pc) = "open"
    BY <1>1, Outcomes DEF Storing
  <2>2. Requests[c] = [state |-> Outcome(calls[c].pc), files |-> calls[c].files]
    BY RequestFields
  <2>3. QED
    BY ONLY <2>1, <2>2
<1>4. Requests' = [Requests EXCEPT ![c].state = "committed"]
  <2> DEFINE new == [calls[c] EXCEPT !.pc = "answer"]
  <2>1. calls' = [calls EXCEPT ![c] = new] /\ calls[c] \in CallRec
    BY <1>1 DEF UpdateHead, TypeOK
  <2>2. new.pc = "answer" /\ new.files = calls[c].files
    BY <2>1 DEF CallRec
  <2> HIDE DEF new
  <2>3. Requests' = [Requests EXCEPT ![c] = [state |-> "committed", files |-> calls[c].files]]
    <3>1. Requests' = [Requests EXCEPT ![c] = [state |-> Outcome(new.pc), files |-> new.files]]
      BY <1>1, <2>1, RequestsStep
    <3>2. Outcome(new.pc) = "committed"
      BY <2>2, Outcomes
    <3>3. QED
      BY <2>2, <3>1, <3>2
  <2>4. [Requests[c] EXCEPT !.state = "committed"] = [state |-> "committed", files |-> calls[c].files]
    <3>1. PICK s, fs : s = Outcome(calls[c].pc) /\ fs = calls[c].files
      OBVIOUS
    <3>2. Requests[c] = [state |-> s, files |-> fs]
      BY <3>1, RequestFields
    <3>3. [Requests[c] EXCEPT !.state = "committed"] = [state |-> "committed", files |-> fs]
      BY ONLY <3>2
    <3>4. QED
      BY <3>1, <3>3
  <2>5. QED
    BY <2>3, <2>4
<1>5. \A d \in Calls : UpdateHead(d) => d = c
  BY <1>1 DEF UpdateHead, TypeOK, CallRec
<1>6. \A q \in Paths \ {path} : Content'[q] = Content[q] /\ History'[q] = History[q]
  BY <1>1, <1>5, ViewStep
<1>7. CASE path \in Pushed
  <2>1. Content' = Content /\ History' = History
    <3>1. path \in Pushed'
      BY <1>1, <1>7
    <3>2. Content'[path] = Content[path] /\ History'[path] = History[path]
      BY <1>2, <1>7, <3>1 DEF Content, History
    <3>3. Content' = [Content EXCEPT ![path] = Content[path]] /\ History' = [History EXCEPT ![path] = History[path]]
      BY <1>6, <3>2, ViewChange
    <3>4. QED
      BY <3>3, Views
  <2>2. QED
    BY <1>1, <1>2, <1>3, <1>4, <1>7, <2>1 DEF Promised!Commit
<1>8. CASE path \notin Pushed
  <2>1. Unpushed(path)
    BY <1>2, <1>8 DEF Pushed
  <2>2. PICK tree : tree = calls[c].tree
    OBVIOUS
  <2>3. /\ c \notin History[path] /\ History'[path] = History[path] \cup {c}
        /\ Content'[path] = tree /\ tree \in [Files -> Commit \cup {None}]
        /\ \A f \in Files : IF f \in Requests[c].files THEN tree[f] = c
                            ELSE tree[f] = Content[path][f] \/ tree[f] \in Calls \ History[path]
    BY <1>3, <2>1, <2>2, CommitSeen
  <2>4. Content' = [Content EXCEPT ![path] = tree] /\ History' = [History EXCEPT ![path] = History[path] \cup {c}]
    BY <1>6, <2>3, ViewChange
  <2>5. QED
    BY <1>1, <1>2, <1>3, <1>4, <1>8, <2>3, <2>4 DEF Promised!Commit
<1>9. QED
  BY <1>7, <1>8

\* The steps of a request before its commit.
LEMMA StoringQuiet ==
  ASSUME TypeOK, NEW c \in Calls, NEW f \in Files,
         \/ Open(c) \/ InitHead(c) \/ SkipReset(c) \/ ResetHead(c) \/ ResetIndex(c)
         \/ AddFile(c, f) \/ ReadParent(c) \/ BuildTree(c)
  PROVE  Requests' = Requests
<1>1. calls[c] \in CallRec /\ calls \in [Calls -> CallRec]
  BY DEF TypeOK
<1>2. \A d \in Calls : d # c => calls'[d] = calls[d]
  BY <1>1 DEF Open, InitHead, SkipReset, ResetHead, ResetIndex, AddFile, ReadParent, BuildTree
<1>3. calls[c].pc \in Storing /\ calls'[c].pc \in Storing /\ calls'[c].files = calls[c].files
  <2>1. CASE Open(c) \/ InitHead(c) \/ SkipReset(c)
    BY <1>1, <2>1 DEF Open, InitHead, SkipReset, CallRec, Storing
  <2>2. CASE ResetHead(c) \/ ResetIndex(c)
    BY <1>1, <2>2 DEF ResetHead, ResetIndex, CallRec, Storing
  <2>3. CASE AddFile(c, f)
    BY <1>1, <2>3 DEF AddFile, CallRec, Storing
  <2>4. CASE ReadParent(c) \/ BuildTree(c)
    BY <1>1, <2>4 DEF ReadParent, BuildTree, CallRec, Storing
  <2>5. QED
    BY <2>1, <2>2, <2>3, <2>4
<1>4. \A d \in Calls : Outcome(calls'[d].pc) = Outcome(calls[d].pc) /\ calls'[d].files = calls[d].files
  BY <1>2, <1>3, Outcomes
<1>5. Requests' = [d \in Calls |-> [state |-> Outcome(calls'[d].pc), files |-> calls'[d].files]]
  BY DEF Requests
<1>6. QED
  BY <1>4, <1>5 DEF Requests

\* The steps that callers see, other than the commit.
LEMMA RequestBegun ==
  ASSUME TypeOK, NEW c \in Calls, NEW p, NEW b, NEW files, Begin(c, p, b, files)
  PROVE  Requests[c].state = "idle" /\ Requests' = [Requests EXCEPT ![c] = [state |-> "open", files |-> files]]
<1> DEFINE new == [Idle EXCEPT !.pc = "open", !.project = p, !.branch = b, !.files = files, !.todo = files]
<1>1. calls' = [calls EXCEPT ![c] = new] /\ calls[c].pc = "idle"
  BY DEF Begin
<1>2. new.pc = "open" /\ new.files = files
  BY DEF Idle
<1> HIDE DEF new
<1>3. Requests' = [Requests EXCEPT ![c] = [state |-> Outcome(new.pc), files |-> new.files]]
  BY <1>1, RequestsStep
<1>4. Outcome(new.pc) = "open" /\ Outcome(calls[c].pc) = "idle"
  BY <1>1, <1>2, Outcomes DEF Storing
<1>5. QED
  BY <1>2, <1>3, <1>4 DEF Requests

LEMMA RequestEnded ==
  ASSUME TypeOK, NEW c \in Calls, Answer(c) \/ Fail(c)
  PROVE  /\ Answer(c) => /\ Requests[c].state = "committed"
                         /\ Requests' = [Requests EXCEPT ![c] = [state |-> "answered", files |-> {}]]
         /\ Fail(c) => /\ Requests[c].state \in {"open", "committed"}
                       /\ Requests' = [Requests EXCEPT ![c] = [state |-> "over", files |-> {}]]
<1>1. ASSUME Answer(c)
      PROVE  /\ Requests[c].state = "committed"
             /\ Requests' = [Requests EXCEPT ![c] = [state |-> "answered", files |-> {}]]
  <2> DEFINE new == [Idle EXCEPT !.pc = "done"]
  <2>1. calls' = [calls EXCEPT ![c] = new] /\ calls[c].pc = "answer"
    BY <1>1 DEF Answer
  <2>2. new.pc = "done" /\ new.files = {}
    BY DEF Idle
  <2> HIDE DEF new
  <2>3. Requests' = [Requests EXCEPT ![c] = [state |-> Outcome(new.pc), files |-> new.files]]
    BY <2>1, RequestsStep
  <2>4. Outcome(new.pc) = "answered" /\ Outcome(calls[c].pc) = "committed"
    BY <2>1, <2>2, Outcomes
  <2>5. QED
    BY <2>2, <2>3, <2>4 DEF Requests
<1>2. ASSUME Fail(c)
      PROVE  /\ Requests[c].state \in {"open", "committed"}
             /\ Requests' = [Requests EXCEPT ![c] = [state |-> "over", files |-> {}]]
  <2> DEFINE new == [Idle EXCEPT !.pc = "failed", !.project = calls[c].project]
  <2>1. calls' = [calls EXCEPT ![c] = new] /\ calls[c].pc \in InFlight
    BY <1>2 DEF Fail
  <2>2. new.pc = "failed" /\ new.files = {}
    BY DEF Idle
  <2> HIDE DEF new
  <2>3. Requests' = [Requests EXCEPT ![c] = [state |-> Outcome(new.pc), files |-> new.files]]
    BY <2>1, RequestsStep
  <2>4. Outcome(new.pc) = "over" /\ Outcome(calls[c].pc) \in {"open", "committed"}
    BY <2>1, <2>2, Outcomes DEF InFlight
  <2>5. QED
    BY <2>2, <2>3, <2>4 DEF Requests
<1>3. QED
  BY <1>1, <1>2

\* An answer comes after the commit.
LEMMA AnswerShown ==
  ASSUME IInv, Serial, NEW c \in Calls, Answer(c)
  PROVE  Path(c) \in Paths /\ (Path(c) \in Pushed \/ c \in History[Path(c)])
<1> PICK path : path = Path(c)
  OBVIOUS
<1>1. calls[c].pc = "answer"
  BY DEF Answer
<1>2. path \in Paths
  BY <1>1, PathsAssumption DEF IInv, Located, Path, InFlight, Storing
<1>3. CASE path \notin Pushed
  <2>1. Unpushed(path)
    BY <1>2, <1>3 DEF Pushed
  <2>2. Reached(path)
    BY <1>2, <2>1 DEF IInv, Undisturbed
  <2>3. c \in Past(Tip(repos[path]))
    BY <1>1, <2>2 DEF Reached
  <2>4. QED
    BY <1>2, <1>3, <2>3 DEF History
<1>4. QED
  BY <1>2, <1>3

\* The first push takes a repository out of sight, and no other step does.
LEMMA PushedStep ==
  ASSUME TypeOK, CommitsMade, NEW k \in Pushes, NEW path \in Paths, NEW b, NEW base, NEW f,
         PushBranch(k, path, b, base, f) \/ PushDelete(k, path, b)
  PROVE  Pushed \subseteq Pushed' /\ Pushed' = Pushed \cup {path}
<1>1. pushes \in [Pushes -> PushRec] /\ pushes[k] \in PushRec
  BY DEF TypeOK
<1>2. pushes'[k].path = path /\ \A l \in Pushes : l # k => pushes'[l] = pushes[l]
  BY <1>1 DEF PushBranch, PushDelete, PushRec
<1>3. pushes[k].path \notin Paths
  BY NamesAssumption DEF PushBranch, PushDelete, CommitsMade
<1>4. ASSUME NEW q \in Paths PROVE Unpushed(q)' <=> Unpushed(q) /\ q # path
  BY <1>2, <1>3 DEF Unpushed
<1>5. QED
  BY <1>4 DEF Pushed

LEMMA PushedQuiet ==
  ASSUME TypeOK, NEW k \in Pushes, PushFails(k) \/ ReadHead(k) \/ SetHead(k)
  PROVE  Pushed' = Pushed
<1>1. pushes \in [Pushes -> PushRec] /\ pushes[k] \in PushRec
  BY DEF TypeOK
<1>2. \A l \in Pushes : pushes'[l].path = pushes[l].path
  BY <1>1 DEF PushFails, ReadHead, SetHead, PushRec
<1>3. QED
  BY <1>2 DEF Pushed, Unpushed

LEMMA PushShown ==
  ASSUME IInv, Serial, [Next]_vars, NEW k \in Pushes, NEW path \in Paths, NEW b, NEW base, NEW f,
         PushBranch(k, path, b, base, f) \/ PushDelete(k, path, b)
  PROVE  Promised!Push(path) \/ UNCHANGED <<Content, History, Pushed, Requests>>
<1>1. TypeOK /\ calls' = calls
  BY DEF IInv, PushBranch, PushDelete
<1>2. Requests' = Requests
  BY <1>1 DEF Requests
<1>3. ~Restart /\ \A c \in Calls : ~UpdateHead(c)
  <2>1. pushes'[k].pc = "head" /\ pushes[k].pc = "idle"
    BY DEF PushBranch, PushDelete, IInv, TypeOK, PushRec
  <2>2. pushes' # pushes
    BY <2>1
  <2>3. ~Restart
    BY <2>1 DEF Restart
  <2>4. QED
    BY <2>2, <2>3 DEF UpdateHead
<1>4. Pushed' = Pushed \cup {path}
  BY <1>1, PushedStep DEF IInv
<1>5. CASE path \in Pushed
  BY <1>2, <1>3, <1>4, <1>5, ViewQuiet
<1>6. CASE path \notin Pushed
  <2>1. \A q \in Paths \ {path} : Content'[q] = Content[q] /\ History'[q] = History[q]
    BY <1>3, <1>4, ViewStep
  <2>2. path \in Pushed'
    BY <1>4
  <2>3. Content'[path] = EmptyTree /\ History'[path] = {}
    BY <2>2 DEF Content, History
  <2>4. Content' = [Content EXCEPT ![path] = EmptyTree] /\ History' = [History EXCEPT ![path] = {}]
    BY <2>1, <2>3, ViewChange
  <2>5. QED
    BY <1>2, <1>4, <1>6, <2>4 DEF Promised!Push, Promised!Empty, EmptyTree
<1>7. QED
  BY <1>5, <1>6

\* A crash ends the requests under way, and a repository that does not outlive
\* the server is empty again.
LEMMA CrashShown ==
  ASSUME IInv, Serial, [Next]_vars, Restart
  PROVE  Promised!Crash
<1>1. TypeOK /\ FilesToAdd /\ calls \in [Calls -> CallRec]
  BY DEF IInv, TypeOK
<1>2. Pushed' = Pushed
  <2>1. pushes \in [Pushes -> PushRec]
    BY <1>1 DEF TypeOK
  <2>2. \A l \in Pushes : pushes'[l].path = pushes[l].path
    BY <2>1 DEF Restart, PushRec
  <2>3. QED
    BY <2>2 DEF Pushed, Unpushed
<1>3. ASSUME NEW c \in Calls
      PROVE  [state |-> Outcome(calls'[c].pc), files |-> calls'[c].files]
             = IF Requests[c].state \in {"open", "committed"} THEN [state |-> "over", files |-> {}] ELSE Requests[c]
  <2>1. Requests[c] = [state |-> Outcome(calls[c].pc), files |-> calls[c].files]
    BY RequestFields
  <2>2. Requests[c].state = Outcome(calls[c].pc)
    BY <2>1
  <2>3. CASE calls[c].pc \in InFlight
    <3>1. calls'[c].pc = "lost" /\ calls'[c].files = {}
      BY <2>3 DEF Restart, Idle
    <3>2. Outcome(calls[c].pc) \in {"open", "committed"}
      BY <2>3, Outcomes DEF InFlight
    <3>3. QED
      BY <2>2, <3>1, <3>2, Outcomes
  <2>4. CASE calls[c].pc = "failed"
    <3>1. calls'[c].pc = "lost" /\ calls'[c].files = {}
      BY <2>4 DEF Restart, Idle
    <3>2. calls[c].files = {} /\ Outcome(calls[c].pc) = "over"
      BY <1>1, <2>4, Outcomes DEF FilesToAdd
    <3>3. QED
      BY <2>1, <2>2, <3>1, <3>2, Outcomes
  <2>5. CASE calls[c].pc \notin InFlight \cup {"failed"}
    <3>1. calls'[c] = calls[c]
      BY <2>5 DEF Restart
    <3>2. calls[c].pc \in {"idle", "done", "lost"}
      BY <1>1, <2>5 DEF CallRec
    <3>3. Outcome(calls[c].pc) \notin {"open", "committed"}
      BY <3>2, Outcomes
    <3>4. QED
      BY <2>1, <2>2, <3>1, <3>3
  <2>6. QED
    BY <2>3, <2>4, <2>5
<1>4. Requests' = [c \in Calls |-> IF Requests[c].state \in {"open", "committed"}
                                   THEN [state |-> "over", files |-> {}] ELSE Requests[c]]
  <2>1. Requests' = [c \in Calls |-> [state |-> Outcome(calls'[c].pc), files |-> calls'[c].files]]
    BY DEF Requests
  <2>2. QED
    BY <1>3, <2>1
<1>5. ASSUME Durable PROVE Content' = Content /\ History' = History
  <2>1. \A c \in Calls : ~UpdateHead(c)
    <3>1. ASSUME NEW c \in Calls, UpdateHead(c) PROVE calls'[c].pc = "answer"
      BY <1>1, <3>1 DEF UpdateHead, CallRec
    <3>2. QED
      BY <3>1, RestartStep DEF InFlight
  <2>2. QED
    BY <1>2, <1>5, <2>1, ViewQuiet
<1>6. ASSUME ~Durable
      PROVE  Content' = [path \in Paths |-> EmptyTree] /\ History' = [path \in Paths |-> {}]
  <2>1. \A path \in Paths : Tip(repos[path])' = None
    BY <1>6 DEF Restart, EmptyRepo, Tip
  <2>2. \A path \in Paths : TreeOf(Tip(repos[path]))' = EmptyTree /\ Past(Tip(repos[path]))' = {}
    BY <2>1 DEF TreeOf, Past
  <2>3. QED
    BY <2>2 DEF Content, History
<1>7. QED
  BY <1>2, <1>4, <1>5, <1>6 DEF Promised!Crash, Promised!Empty, EmptyTree

LEMMA PromisedInit == Init => Promised!Init
<1> SUFFICES ASSUME Init PROVE Promised!Init
  OBVIOUS
<1>1. Pushed = {}
  BY NamesAssumption DEF Init, Pushed, Unpushed
<1>2. \A path \in Paths : Tip(repos[path]) = None
  BY DEF Init, Tip, EmptyRepo
<1>3. Content = [path \in Paths |-> EmptyTree] /\ History = [path \in Paths |-> {}]
  BY <1>2 DEF Content, History, TreeOf, Past
<1>4. Requests = [c \in Calls |-> [state |-> "idle", files |-> {}]]
  <2>1. \A c \in Calls : calls[c].pc = "idle" /\ calls[c].files = {}
    BY DEF Init, Idle
  <2>2. QED
    BY <2>1, Outcomes DEF Requests
<1>5. QED
  BY <1>1, <1>3, <1>4 DEF Promised!Init, Promised!Empty, EmptyTree

LEMMA PromisedNext ==
  ASSUME IInv, IInv', Serial, [Next]_vars
  PROVE  Promised!Next \/ UNCHANGED Promised!vars
<1> DEFINE Seen == Promised!Next \/ UNCHANGED Promised!vars
<1>1. TypeOK /\ ("main" \in Branches) /\ CIFile \in Files
  BY NamesAssumption, FilesAssumption DEF IInv
<1>2. ASSUME Requests' = Requests, Pushed' = Pushed, ~Restart, \A c \in Calls : ~UpdateHead(c) PROVE Seen
  BY <1>2, ViewQuiet DEF Promised!vars
<1>3. ASSUME NEW c \in Calls, UpdateHead(c) PROVE Seen
  BY <1>3, CommitShown DEF Promised!Next
<1>4. CASE Restart
  BY <1>4, CrashShown DEF Promised!Next
<1>5. ASSUME NEW k \in Pushes, NEW path \in Paths, NEW b, NEW base, NEW f,
             PushBranch(k, path, b, base, f) \/ PushDelete(k, path, b)
      PROVE  Seen
  BY <1>5, PushShown DEF Promised!Next, Promised!vars
<1>6. ASSUME pushes' = pushes PROVE Pushed' = Pushed
  BY <1>6 DEF Pushed, Unpushed
<1>7. CASE ~Restart /\ \A c \in Calls : ~UpdateHead(c)
  <2>1. ASSUME calls' = calls, Pushed' = Pushed PROVE Seen
    BY <1>2, <1>7, <2>1 DEF Requests
  <2>2. ASSUME NEW k \in Pushes, PushFails(k) \/ ReadHead(k) \/ SetHead(k) PROVE Seen
    <3>1. calls' = calls
      BY <2>2 DEF PushFails, ReadHead, SetHead
    <3>2. QED
      BY <1>1, <2>1, <2>2, <3>1, PushedQuiet
  <2>3. ASSUME NEW p \in Projects, ProjectCreate(p) \/ PipelineCreate(p) PROVE Seen
    <3>1. calls' = calls /\ pushes' = pushes
      BY <2>3 DEF ProjectCreate, PipelineCreate
    <3>2. QED
      BY <1>6, <2>1, <3>1
  <2>4. ASSUME NEW c \in Calls, NEW f \in Files,
               \/ Open(c) \/ InitHead(c) \/ SkipReset(c) \/ ResetHead(c) \/ ResetIndex(c)
               \/ AddFile(c, f) \/ ReadParent(c) \/ BuildTree(c)
        PROVE  Seen
    <3>1. pushes' = pushes
      BY <2>4 DEF Open, InitHead, SkipReset, ResetHead, ResetIndex, AddFile, ReadParent, BuildTree
    <3>2. Requests' = Requests
      BY <1>1, <2>4, StoringQuiet
    <3>3. QED
      BY <1>2, <1>6, <1>7, <3>1, <3>2
  <2>5. ASSUME NEW c \in Calls, NEW p \in Projects, NEW b \in Branches, NEW files \in FileSets, Begin(c, p, b, files)
        PROVE  Seen
    <3>1. pushes' = pushes
      BY <2>5 DEF Begin
    <3>2. Content' = Content /\ History' = History /\ Pushed' = Pushed
      BY <1>6, <1>7, <3>1, ViewQuiet
    <3>3. Promised!Begin(c, files)
      BY <1>1, <2>5, <3>2, RequestBegun DEF Promised!Begin
    <3>4. QED
      BY <3>3, FilesAssumption DEF Promised!Next
  <2>6. ASSUME NEW c \in Calls, Answer(c) \/ Fail(c) PROVE Seen
    <3>1. pushes' = pushes
      BY <2>6 DEF Answer, Fail
    <3>2. Content' = Content /\ History' = History /\ Pushed' = Pushed
      BY <1>6, <1>7, <3>1, ViewQuiet
    <3>3. CASE Answer(c)
      <4>1. Promised!Answer(c, Path(c)) /\ Path(c) \in Paths
        BY <1>1, <3>2, <3>3, RequestEnded, AnswerShown DEF Promised!Answer
      <4>2. QED
        BY <4>1 DEF Promised!Next
    <3>4. CASE Fail(c)
      <4>1. Promised!Refuse(c)
        BY <1>1, <3>2, <3>4, RequestEnded DEF Promised!Refuse
      <4>2. QED
        BY <4>1 DEF Promised!Next
    <3>5. QED
      BY <2>6, <3>3, <3>4
  <2>7. ASSUME UNCHANGED vars PROVE Seen
    BY <1>6, <2>1, <2>7 DEF vars
  <2> HIDE DEF Seen
  <2>8. ASSUME NEW c \in Calls,
               \/ Open(c) \/ InitHead(c) \/ SkipReset(c) \/ ResetHead(c) \/ ResetIndex(c)
               \/ ReadParent(c) \/ BuildTree(c)
        PROVE  Seen
    BY <1>1, <2>4, <2>8
  <2>9. ASSUME NEW k \in Pushes, NEW path \in Paths, NEW b, PushDelete(k, path, b) PROVE Seen
    BY <1>5, <2>9
  <2>10. Seen
    BY ZenonT(60), <1>5, <1>7, <2>2, <2>3, <2>4, <2>5, <2>6, <2>7, <2>8, <2>9, Steps
  <2>11. QED
    BY <2>10 DEF Seen
<1>8. QED
  BY <1>3, <1>4, <1>7

\* While callers take turns, a repository no job pushes to changes by whole
\* commits, each in one step and on top of all before it, although seedCommit
\* takes a dozen (projects_api.go:45-125, git.go:56-118).
THEOREM ImplementsRepositories == ASSUME Serial PROVE Spec => RefinesRepositories
<1>1. IInv /\ IInv' /\ [Next]_vars => [Promised!Next]_(Promised!vars)
  BY PromisedNext
<1>2. QED
  BY <1>1, PromisedInit, CommitInvariance, PTL DEF Spec, RefinesRepositories, Promised!Spec

=============================================================================
