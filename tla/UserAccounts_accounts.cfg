SPECIFICATION MCFairSpec
CONSTANTS
  Users = {a1, a2, n1}
  FirstAdmins = {a1, a2}
  FirstStaff = {}
  Seeded = a1
  Handlers = {1, 2}
  Tokens = {1, 2}
  Patches <- DeactivationAndReplacement
  MaxRequests = 2
INVARIANTS TypeOK SomeActiveAdmin RequestsEndSessions
PROPERTIES DeadSessionsStayDead AdministrationFinishes
CHECK_DEADLOCK FALSE
