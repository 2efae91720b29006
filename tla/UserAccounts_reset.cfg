SPECIFICATION Spec
CONSTANTS
  Users = {a1, u1}
  FirstAdmins = {a1}
  FirstStaff = {u1}
  Seeded = u1
  Handlers = {h1, h2, h3}
  Tokens = {x1, x2}
  Patches <- Resets
  MaxRequests = 2
SYMMETRY Symmetric
INVARIANTS SessionsEndWithChange
CHECK_DEADLOCK FALSE
