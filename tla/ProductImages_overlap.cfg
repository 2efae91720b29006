SPECIFICATION Spec
CONSTANTS
  Handlers = {h1, h2, h3}
  Files = {f1, f2, f3}
  NoImage = NoImage
  MaxRequests = 4
SYMMETRY Symmetric
INVARIANTS TypeOK OnlyLostAnswersLoseFiles NoOtherFileLeftBehind
CHECK_DEADLOCK FALSE
