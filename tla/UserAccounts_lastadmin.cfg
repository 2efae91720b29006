SPECIFICATION Spec
CONSTANTS
  Users = {a1, u1}
  FirstAdmins = {a1}
  FirstStaff = {u1}
  Seeded = a1
  Handlers = {h1, h2}
  Tokens = {x1, x2}
  Patches <- PromotionAndDeactivation
  MaxRequests = 3
SYMMETRY Symmetric
INVARIANTS SomeActiveAdmin
CHECK_DEADLOCK FALSE
