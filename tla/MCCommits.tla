----------------------------- MODULE MCCommits -----------------------------
(* Small instances of Commits for TLC. *)
EXTENDS Commits, Naturals, TLC

\* Every project has the same name.
OnePath == [p \in Projects |-> CHOOSE path \in Paths : TRUE]

TwoBranches == {"main", "dev"}

\* Everything, or everything but the configuration.
WithAndWithoutCI == {Files, Files \ {CIFile}}

Symmetric == Permutations(Calls)

\* Bound: commit requests and pushes together.
ThreeWriters ==
  Cardinality({c \in Calls : calls[c].pc # "idle"})
    + Cardinality({k \in Pushes : pushes[k].pc # "idle"}) <= 3
=============================================================================
