--------------------------- MODULE MCAnalysisJobs ---------------------------
(* Model-checking instance of AnalysisJobs; liveness is checked, so no symmetry. *)
EXTENDS AnalysisJobs
=============================================================================
