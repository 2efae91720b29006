SPECIFICATION FairSpec
CONSTANTS
  Products = {p1}
  Sessions = {s1, s2}
  NoCount = NoCount
  Quantities = {1}
  Adjustments <- MCAdjustments
  Counts = {1}
  CountAdjustments <- MCCountAdjustments
  InitialStocks = {0, 2}
  ProductCounts = {2}
  MaxStock = 3
  MaxCount = 1
  AllowNegativeStock = FALSE
  MaxRequests = 4
INVARIANTS TypeOK StockMatchesLedger LedgerChains StockNeverNegative CountNeverNegative
INVARIANTS TotalsAccountForBalance PeriodsPartition ReportsAgreeInStartOrder FiltersHideOnlyStillProducts
PROPERTIES LedgerOnlyGrowsWhileLive ImplementsBook RequestsFinish
CHECK_DEADLOCK FALSE
