SPECIFICATION Spec
CONSTANTS
  SessionIds = {i1}
  Jtis = {j1}
  Subjects = {u1}
  Sids = {s1}
  None = none
  Callbacks = {k1}
  Requests = {r1}
  Notices = {n1}
  Kinds = {"page"}
  Lifetime = 3
  Window = 1
  Skew = 0
  IdTtls = {4}
  TokenTtls = {2}
  Patience = 1
  ReuseJti = FALSE
  MaxTime = 4
INVARIANTS RevokedStaysOut
CHECK_DEADLOCK FALSE
