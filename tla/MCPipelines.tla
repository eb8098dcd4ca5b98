---------------------------- MODULE MCPipelines ----------------------------
(* Small instances of Pipelines for TLC. *)
EXTENDS Pipelines, TLC

\* Two parallel jobs, a stage nobody uses, a last stage.
Parallel == [stages |-> <<"build", "lint", "deploy">>, jobs |-> <<"build", "deploy", "build">>]

\* A job whose stage is not declared.
Stray == [stages |-> <<"build">>, jobs |-> <<"build", "docs">>]

\* One job after the other, written in the opposite order, and a stage declared
\* twice.
Twice == [stages |-> <<"build", "deploy", "build">>, jobs |-> <<"deploy", "build">>]

OneParallel == {Parallel}
ManyKinds   == {Parallel, Twice, Stray}
OnlySuccess == {"success"}
AnyVerdict  == {"success", "failed"}

Symmetric == Permutations(Calls) \cup Permutations(Runners)
=============================================================================
