SPECIFICATION Spec
CONSTANTS
  SessionIds = {i1}
  Jtis = {j1}
  Subjects = {u1}
  Sids = {}
  None = none
  Callbacks = {k1}
  Requests = {r1, r2}
  Notices = {n1, n2}
  Kinds = {"page"}
  Lifetime = 3
  Window = 1
  Skew = 0
  IdTtls = {4}
  TokenTtls = {1, 4}
  Patience = 1
  ReuseJti = FALSE
  MaxTime = 4
SYMMETRY Symmetric
CONSTRAINT ThreeAtATime
INVARIANTS TypeOK LoggedOutStaysOut AcceptedOnce IInv
CHECK_DEADLOCK FALSE
