------------------------- MODULE MCSemanticDispatch -------------------------
(* Constants for model-checking SemanticDispatch.                          *)
EXTENDS SemanticDispatch, TLC

\* A report that proves no effect, one that does not, and one whose terminals
\* disagree: all that report_is_retry_safe tells apart.
MCReports == {{"rejected"}, {"failed"}, {"rejected", "outcome_unknown"}}

MCSymmetry == Permutations(Threads) \cup Permutations(ObservationIds)

=============================================================================
