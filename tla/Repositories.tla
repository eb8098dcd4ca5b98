---------------------------- MODULE Repositories ----------------------------
(***************************************************************************)
(* What the commits API promises its callers, with no storer, no index, no *)
(* branches and no handlers: a repository is what its files hold, commit   *)
(* requests change it in one step each, one on top of the other, and a 201 *)
(* comes after the change.  A 500 may come before it or after: the change  *)
(* is there whole or not at all.  A repository that the jobs of its own    *)
(* pipelines have pushed to is theirs: nothing is promised of it.          *)
(***************************************************************************)
CONSTANTS
  Paths,     \* the repositories
  Files,     \* file names
  Calls,     \* commit requests, each also names the content it writes
  Contents,  \* what a file may hold
  None,      \* ... if it is not there
  Durable    \* repositories survive a crash

VARIABLES
  content,   \* what the files of each repository hold
  history,   \* the requests each repository was made by
  pushed,    \* the repositories jobs have pushed to
  requests   \* [state, files]

vars == <<content, history, pushed, requests>>

States  == {"idle", "open", "committed", "answered", "over"}
Empty   == [f \in Files |-> None]

TypeOK ==
  /\ content \in [Paths -> [Files -> Contents]] /\ history \in [Paths -> SUBSET Calls]
  /\ pushed \subseteq Paths
  /\ requests \in [Calls -> [state : States, files : SUBSET Files]]

Init ==
  /\ content = [path \in Paths |-> Empty]
  /\ history = [path \in Paths |-> {}]
  /\ pushed = {}
  /\ requests = [c \in Calls |-> [state |-> "idle", files |-> {}]]

Begin(c, files) ==
  /\ requests[c].state = "idle"
  /\ requests' = [requests EXCEPT ![c] = [state |-> "open", files |-> files]]
  /\ UNCHANGED <<content, history, pushed>>

\* The files of the request are replaced together.  Another one keeps what it
\* has, or takes what a request has left behind that is not in the history: no
\* content that was ever replaced comes back.
Commit(c, path) ==
  /\ requests[c].state = "open"
  /\ requests' = [requests EXCEPT ![c].state = "committed"]
  /\ IF path \in pushed THEN UNCHANGED <<content, history>>
     ELSE /\ c \notin history[path]
          /\ history' = [history EXCEPT ![path] = @ \cup {c}]
          /\ \E now \in [Files -> Contents] :
               /\ content' = [content EXCEPT ![path] = now]
               /\ \A f \in Files : IF f \in requests[c].files THEN now[f] = c
                                   ELSE now[f] = content[path][f] \/ now[f] \in Calls \ history[path]
  /\ UNCHANGED pushed

\* The 201: the commit is there.
Answer(c, path) ==
  /\ requests[c].state = "committed"
  /\ path \in pushed \/ c \in history[path]
  /\ requests' = [requests EXCEPT ![c] = [state |-> "answered", files |-> {}]]
  /\ UNCHANGED <<content, history, pushed>>

\* The 500: the commit was made as a whole, or it never will be.
Refuse(c) ==
  /\ requests[c].state \in {"open", "committed"}
  /\ requests' = [requests EXCEPT ![c] = [state |-> "over", files |-> {}]]
  /\ UNCHANGED <<content, history, pushed>>

Push(path) ==
  /\ path \notin pushed
  /\ pushed' = pushed \cup {path}
  /\ content' = [content EXCEPT ![path] = Empty]
  /\ history' = [history EXCEPT ![path] = {}]
  /\ UNCHANGED requests

\* Who waits for an answer gets none.
Crash ==
  /\ requests' = [c \in Calls |-> IF requests[c].state \in {"open", "committed"}
                                  THEN [state |-> "over", files |-> {}] ELSE requests[c]]
  /\ IF Durable THEN UNCHANGED <<content, history>>
     ELSE content' = [path \in Paths |-> Empty] /\ history' = [path \in Paths |-> {}]
  /\ UNCHANGED pushed

Next ==
  \/ \E c \in Calls :
       \/ \E files \in SUBSET Files : Begin(c, files)
       \/ \E path \in Paths : Commit(c, path) \/ Answer(c, path)
       \/ Refuse(c)
  \/ \E path \in Paths : Push(path)
  \/ Crash

Spec == Init /\ [][Next]_vars
=============================================================================
