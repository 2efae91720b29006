---------------------------- MODULE MCStockReports ----------------------------
(* A small instance of StockLedger, its refinement and its reports for TLC.  *)
EXTENDS DailyReport, StockRefinement, TLC

MCAdjustments == {-1, 0}
MCCountAdjustments == {-1}
=============================================================================
