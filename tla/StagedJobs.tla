----------------------------- MODULE StagedJobs -----------------------------
(***************************************************************************)
(* What the pipeline engine promises the runner fleet and the users, with  *)
(* no queue, no locks and no handlers: jobs are offered to runners batch   *)
(* by batch, a job is offered only when every job it needs has a verdict,  *)
(* it is offered once, taken by one runner, and given one verdict.         *)
(***************************************************************************)
CONSTANT Job

VARIABLES
  phase,   \* where each job is in its life
  needs    \* the jobs of earlier stages of the same pipeline, fixed at creation

Phases == {"absent", "created", "offered", "taken", "done"}

TypeOK == phase \in [Job -> Phases] /\ needs \in [Job -> SUBSET Job]

Init ==
  /\ phase = [j \in Job |-> "absent"]
  /\ needs = [j \in Job |-> {}]

\* The jobs of which a step changes the phase from a to another one.
Leaving(a) == {j \in Job : phase[j] = a /\ phase'[j] # a}

\* A pipeline appears with all its jobs, which need only one another; those
\* that need none may be offered at once.
Create ==
  /\ phase' \in [Job -> Phases]
  /\ needs' \in [Job -> SUBSET Job]
  /\ LET S == Leaving("absent")
     IN /\ S # {}
        /\ \A j \in S : /\ needs'[j] \subseteq S
                        /\ phase'[j] = "created" \/ (phase'[j] = "offered" /\ needs'[j] = {})
        /\ \A j \in Job \ S : phase'[j] = phase[j] /\ needs'[j] = needs[j]

\* A batch of jobs is offered when all they need is done.
Offer ==
  /\ phase' \in [Job -> Phases]
  /\ LET B == Leaving("created")
     IN /\ B # {}
        /\ \A j \in B : phase'[j] = "offered" /\ \A k \in needs[j] : phase[k] = "done"
        /\ \A j \in Job \ B : phase'[j] = phase[j]
  /\ UNCHANGED needs

Take(j) ==
  /\ phase[j] = "offered"
  /\ phase' = [phase EXCEPT ![j] = "taken"]
  /\ UNCHANGED needs

Finish(j) ==
  /\ phase[j] = "taken"
  /\ phase' = [phase EXCEPT ![j] = "done"]
  /\ UNCHANGED needs

Next ==
  \/ Create
  \/ Offer
  \/ \E j \in Job : Take(j) \/ Finish(j)

Spec == Init /\ [][Next]_<<phase, needs>>
=============================================================================
