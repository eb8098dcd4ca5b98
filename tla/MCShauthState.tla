--------------------------- MODULE MCShauthState ---------------------------
(* Small instances of ShauthState for TLC. *)
EXTENDS ShauthState, TLC

Symmetric ==
  Permutations(SessionIds) \cup Permutations(Requests) \cup Permutations(Notices) \cup Permutations(Jtis)

\* Bound: logouts by the browser, on a short clock, or logout tokens of the
\* provider, on a long one, and never both in a behaviour.
OneKindOfLogout ==
  \/ now <= 1 /\ tokens = [j \in Jtis |-> NoToken]
  \/ /\ callbacks = [k \in Callbacks |-> IdleCallback]
     /\ requests = [r \in Requests |-> IdleRequest]
     /\ \A i \in SessionIds : sessions[i].file = "unused"

\* Bounds: handlers under way at once.
UnderWay ==
  Cardinality({k \in Callbacks : callbacks[k].pc # "idle"})
    + Cardinality({r \in Requests : requests[r].pc # "idle"})
    + Cardinality({n \in Notices : notices[n].pc # "idle"})
TwoAtATime   == UnderWay <= 2
ThreeAtATime == UnderWay <= 3
=============================================================================
