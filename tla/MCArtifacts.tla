---------------------------- MODULE MCArtifacts ----------------------------
(* Small instances of Artifacts, whose configurations are parsed by         *)
(* CIConfig, and properties of the parser over small documents.             *)
EXTENDS Artifacts, CIConfig, TLC

Word(w)     == Scalar(<<w>>)
Upload_     == Mapping(<< <<"paths", List(<<Word("calc")>>)>> >>)
OneVar(k, v) == Mapping(<< <<k, Word(v)>> >>)
Stages      == <<"stages", List(<<Word("build"), Word("test")>>)>>

Job(name, stage, more) ==
  <<name, Mapping(<< <<"stage", Word(stage)>>, <<"script", Word("make")>> >> \o more)>>
Builder(name) == Job(name, "build", << <<"artifacts", Upload_>> >>)
Tester(more)  == Job("t", "test", more)

Hidden == {".template"}
Parsable(top) == Parse(Mapping(top), Hidden)

\* One builder and a tester that needs all earlier jobs, two builders of which
\* the tester wants one, and a tester that wants none.
Default == Parsable(<<Tester(<< >>), Stages, Builder("b")>>)
Chosen  == Parsable(<<Stages, Builder("b"), Builder("c"),
                      Tester(<< <<"dependencies", Word("c")>> >>)>>)
Refused == Parsable(<<Stages, Builder("b"), Tester(<< <<"dependencies", List(<< >>)>> >>)>>)

ThreeConfigs == {Default, Chosen, Refused}

Symmetric == Permutations(Uploads)

\* Bound: the uploads under way at once are of one job.  Those of different jobs
\* have no file in common.
OneJobUploads == \A u, v \in Uploads :
  uploads[u].pc # "idle" /\ uploads[v].pc # "idle" => uploads[u].job = uploads[v].job

\* Bound: of one job the uploads overlap.
OneOverlaps == \A i, j \in DOMAIN jobs : builds[i].overlap /\ builds[j].overlap => i = j

-----------------------------------------------------------------------------
\* Top-level entries: global keys, jobs that have them for themselves or not,
\* a template, an alias, a key that is no mapping.
Entries == {
  Stages,
  <<"image", Mapping(<< <<"name", Word("golang")>> >>)>>,
  <<"before_script", Word("setup")>>,
  <<"variables", OneVar("MODE", "fast")>>,
  Job("b", "build", << <<"variables", OneVar("MODE", "slow")>>, <<"before_script", List(<< >>)>> >>),
  Job("t", "test", << <<"variables", OneVar("CI_JOB_STAGE", "own")>>, <<"image", Word("alpine")>> >>),
  <<".template", Mapping(<< <<"stage", Word("build")>> >>)>>,
  <<"x", Alias("template")>> }

Tops == {top \in UNION {[1..n -> Entries] : n \in 1..3} :
           \A i, k \in DOMAIN top : top[i] = top[k] => i = k}

JobsOf(top) == IF Parsable(top) = Nil THEN << >> ELSE Parsable(top).jobs

\* The properties of the parser are about no state: the first ones will do.
Unused == life = 1 /\ nextID = 1

Global(entry) == entry[1] \in ReservedKeys

Misread == {top \in Tops :
  Parsable(top) # Parsable(SelectSeq(top, Global) \o SelectSeq(top, LAMBDA e : ~Global(e)))}

\* A global key counts for every job, wherever it stands in the document
\* (ciyaml.go:61-124): as if it were written first.
GlobalsAnywhere == Unused => Misread = {}

Declared(pairs, key) == \E i \in DOMAIN pairs : pairs[i][1] = key

\* The value of a variable by its precedence: the job's own, the global one,
\* the predefined one.
Intended(top, job, key) ==
  LET Body(node) == node.content
      own    == Field(Field(top, job.name, << >>, Body), "variables", << >>, Body)
      global == Field(top, "variables", << >>, Body)
  IN  IF Declared(own, key) THEN Field(own, key, << >>, Value)
      ELSE IF Declared(global, key) THEN Field(global, key, << >>, Value) ELSE job.stage

Overridden == {top \in Tops : \E n \in DOMAIN JobsOf(top), key \in {"MODE", "CI_JOB_STAGE"} :
  LET job == JobsOf(top)[n] IN
    /\ Declared(PayloadVariables(job), key)
    /\ Effective(PayloadVariables(job), key) # Intended(top, job, key)}

\* A build sees its own value of a variable rather than the global one, and
\* that rather than the predefined one (ciyaml.go:98,117, runner_api.go:333-347).
OwnVariableWins == Unused => Overridden = {}
=============================================================================
