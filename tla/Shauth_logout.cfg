SPECIFICATION Spec
CONSTANTS
  SessionIds = {i1, i2}
  Jtis = {j1, j2}
  Subjects = {u1}
  Sids = {s1}
  None = none
  Callbacks = {k1}
  Requests = {r1, r2}
  Notices = {n1}
  Kinds = {"page", "logout", "front"}
  Lifetime = 3
  Window = 1
  Skew = 1
  IdTtls = {1}
  TokenTtls = {2}
  Patience = 1
  ReuseJti = TRUE
  MaxTime = 4
SYMMETRY Symmetric
CONSTRAINT OneKindOfLogout
CONSTRAINT TwoAtATime
INVARIANTS EndedStaysEnded AcceptedOnce
CHECK_DEADLOCK FALSE
