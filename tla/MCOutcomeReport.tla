--------------------------- MODULE MCOutcomeReport ----------------------------
(* The instances of MCOutcomeRefresh, with the report.                     *)
EXTENDS MCOutcomeRefresh, OutcomeReport
=============================================================================
