--------------------------- MODULE MCResearchJobs ---------------------------
(* An instance of ResearchJobs: two queries and as many runs.              *)
EXTENDS ResearchJobs
=============================================================================
