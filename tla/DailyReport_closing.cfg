SPECIFICATION Spec
CONSTANTS
  Products = {p1}
  Sessions = {s1, s2}
  NoCount = NoCount
  Quantities = {1}
  Adjustments <- MCAdjustments
  Counts = {}
  CountAdjustments = {}
  InitialStocks = {2}
  ProductCounts = {}
  MaxStock = 4
  MaxCount = 0
  AllowNegativeStock = FALSE
  MaxRequests = 5
SYMMETRY SessionSymmetry
INVARIANTS ClosingStockIsBalance
CHECK_DEADLOCK FALSE
