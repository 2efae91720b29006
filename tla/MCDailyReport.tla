----------------------------- MODULE MCDailyReport -----------------------------
(* Small instances of DailyReport for TLC: several requests in flight, no    *)
(* piece counts.                                                             *)
EXTENDS DailyReport, TLC

MCAdjustments == {-1, 0}

SessionSymmetry == Permutations(Sessions)
=============================================================================
