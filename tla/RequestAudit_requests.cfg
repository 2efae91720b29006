SPECIFICATION MCSpec
CONSTANTS
  Logins = {l1, l2, l3, l4}
  Others = {r1, r2}
  Workers = 2
  Identities = {i1, i2}
  Addresses = {a1}
  Limit = 2
  Window = 1
  MaxTime = 2
SYMMETRY Symmetric
INVARIANTS TypeOK AnswersTellTheTruth RowsTellTheTruth OperatorsSeeNoDenials GuessesStayNearTheLimit
CHECK_DEADLOCK FALSE
