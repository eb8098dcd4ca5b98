------------------------------ MODULE CIConfig ------------------------------
(***************************************************************************)
(* The parser of .gitlab-ci.yml (ciyaml.go) and what a runner is given of  *)
(* a parsed job (buildJobResponse in runner_api.go), as operators.         *)
(*                                                                         *)
(* The YAML library hands over a tree of nodes.  Every node has a kind and *)
(* a value (a sequence of words, << >> the empty one); the content of a    *)
(* list is a sequence of nodes, that of a mapping a sequence of <<key,     *)
(* node>>, in which a key may occur again.  An alias stands for an anchor  *)
(* elsewhere, which the parser does not follow.                            *)
(***************************************************************************)
EXTENDS Naturals, SequencesExt

CONSTANT Nil  \* Go's nil slice, where it differs from an empty one

Scalar(words) == [kind |-> "scalar", value |-> words, content |-> << >>]
List(nodes)   == [kind |-> "list", value |-> << >>, content |-> nodes]
Mapping(prs)  == [kind |-> "mapping", value |-> << >>, content |-> prs]
Alias(anchor) == [kind |-> "alias", value |-> <<anchor>>, content |-> << >>]

Collect(seq, Op(_)) == FlattenSeq([i \in DOMAIN seq |-> Op(seq[i])])

(* A switch over the keys of a mapping: a later occurrence overwrites.     *)
With(pairs, key) == SelectSeq(pairs, LAMBDA pr : pr[1] = key)

Field(pairs, key, default, Decode(_)) ==
  LET found == With(pairs, key) IN IF found = << >> THEN default ELSE Decode(Last(found)[2])

Value(node) == node.value

-----------------------------------------------------------------------------
(* Decoding of values *)

\* A list within a list is flattened, however deep.
RECURSIVE DecodeStringList(_)
DecodeStringList(node) ==
  LET Strings(n) == IF n.kind = "list" THEN DecodeStringList(n) ELSE <<n.value>>
  IN  CASE node.kind = "scalar" -> IF node.value = << >> THEN Nil ELSE <<node.value>>
        [] node.kind = "list"   -> Collect(node.content, Strings)
        [] OTHER                -> Nil

\* The first name of a mapping counts.
DecodeImageName(node) ==
  CASE node.kind = "scalar"  -> node.value
    [] node.kind = "mapping" -> LET found == With(node.content, "name")
                                IN IF found = << >> THEN << >> ELSE Head(found)[2].value
    [] OTHER                 -> << >>

\* What is before the first "@" and the first ":", after the last "/" of it.
ServiceAlias(image) ==
  LET Cut(words, mark) == LET i == SelectInSeq(words, LAMBDA w : w = mark)
                          IN IF i = 0 THEN words ELSE SubSeq(words, 1, i - 1)
      name == Cut(Cut(image, "@"), ":")
  IN  SubSeq(name, SelectLastInSeq(name, LAMBDA w : w = "/") + 1, Len(name))

DecodeServices(node) ==
  LET Service(n) ==
        CASE n.kind = "scalar"  -> <<[name |-> n.value, alias |-> ServiceAlias(n.value)]>>
          [] n.kind = "mapping" ->
               LET name  == Field(n.content, "name", << >>, Value)
                   alias == Field(n.content, "alias", << >>, Value)
               IN <<[name |-> name, alias |-> IF alias = << >> THEN ServiceAlias(name) ELSE alias]>>
          [] OTHER              -> << >>
  IN  IF node.kind = "list" THEN Collect(node.content, Service) ELSE << >>

\* A specification that uploads nothing is none.
DecodeArtifacts(node) ==
  LET spec == [paths     |-> Field(node.content, "paths", Nil, DecodeStringList),
               when      |-> Field(node.content, "when", <<"on_success">>, Value),
               untracked |-> Field(node.content, "untracked", << >>, Value) = <<"true">>]
  IN  IF node.kind # "mapping" \/ (spec.paths \in {Nil, << >>} /\ ~spec.untracked)
      THEN << >> ELSE <<spec>>

DecodeVariables(node) ==
  IF node.kind # "mapping" THEN << >>
  ELSE [i \in DOMAIN node.content |-> <<node.content[i][1], node.content[i][2].value>>]

-----------------------------------------------------------------------------
(* parseCIConfig *)

ReservedKeys == {"stages", "variables", "default", "include", "workflow", "image", "services",
                 "before_script", "after_script", "cache", "pages"}

\* The first pass.
Globals(top) == [
  image     |-> Field(top, "image", << >>, DecodeImageName),
  before    |-> Field(top, "before_script", Nil, DecodeStringList),
  after     |-> Field(top, "after_script", Nil, DecodeStringList),
  variables |-> Field(top, "variables", << >>, DecodeVariables)]

\* A job's own variables come after the global ones, those of every occurrence.
ParseJob(name, body, g) == [
  name         |-> name,
  stage        |-> Field(body, "stage", <<"test">>, Value),
  script       |-> Field(body, "script", Nil, DecodeStringList),
  before       |-> Field(body, "before_script", g.before, DecodeStringList),
  after        |-> Field(body, "after_script", g.after, DecodeStringList),
  image        |-> Field(body, "image", g.image, DecodeImageName),
  services     |-> Field(body, "services", << >>, DecodeServices),
  variables    |-> g.variables \o Collect(With(body, "variables"), LAMBDA pr : DecodeVariables(pr[2])),
  artifacts    |-> Field(body, "artifacts", << >>, DecodeArtifacts),
  dependencies |-> Field(body, "dependencies", Nil, DecodeStringList)]

IsJob(name, node, hidden) ==
  name \notin ReservedKeys \cup hidden /\ name # "" /\ node.kind = "mapping"

\* Faulty variant: one pass, a job only knows the globals written before it.
JobsOnePass(top, hidden) ==
  FlattenSeq([i \in DOMAIN top |->
    IF IsJob(top[i][1], top[i][2], hidden)
    THEN <<ParseJob(top[i][1], top[i][2].content, Globals(SubSeq(top, 1, i)))>> ELSE << >>])

\* The second pass; hidden are the names with a leading dot.
Jobs(top, hidden) ==
  Collect(top, LAMBDA pr :
    IF IsJob(pr[1], pr[2], hidden) THEN <<ParseJob(pr[1], pr[2].content, Globals(top))>> ELSE << >>)

\* Nil for the errors: no mapping, or no jobs.
Parse(doc, hidden) ==
  LET stages == Field(doc.content, "stages", Nil, DecodeStringList)
      jobs   == Jobs(doc.content, hidden)
  IN  IF doc.kind # "mapping" \/ jobs = << >> THEN Nil
      ELSE [stages |-> IF stages \in {Nil, << >>}
                       THEN <<<<"build">>, <<"test">>, <<"deploy">>>> ELSE stages,
            jobs   |-> jobs]

-----------------------------------------------------------------------------
(* buildJobResponse *)

Lines(list) == IF list = Nil THEN << >> ELSE list

Steps(job) ==
  LET main  == Lines(job.before) \o Lines(job.script)
      after == Lines(job.after)
      Step(name, script, when) ==
        IF script = << >> THEN << >> ELSE <<[name |-> name, script |-> script, when |-> when]>>
  IN  Step("script", main, "on_success") \o Step("after_script", after, "always")

\* Faulty variant: the predefined variables come last.
PayloadVariablesLast(job) == job.variables \o <<<<"CI_JOB_NAME", <<job.name>>>>, <<"CI_JOB_STAGE", job.stage>>>>

\* Two of the predefined variables stand for all.
PayloadVariables(job) == <<<<"CI_JOB_NAME", <<job.name>>>>, <<"CI_JOB_STAGE", job.stage>>>> \o job.variables

\* The runner takes the last variable of a name.
Effective(variables, key) == Last(With(variables, key))[2]

=============================================================================
