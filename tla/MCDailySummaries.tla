------------------------- MODULE MCDailySummaries -------------------------
(* Small instances of DailySummaries.                                        *)
EXTENDS DailySummaries
=============================================================================
