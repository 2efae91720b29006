SPECIFICATION MCSpec
CONSTANTS
  Logins = {l1}
  Others = {r1, r2}
  Workers = 2
  Identities = {i1}
  Addresses = {a1}
  Limit = 2
  Window = 1
  MaxTime = 0
INVARIANTS RefusalsLeaveARow
CHECK_DEADLOCK FALSE
