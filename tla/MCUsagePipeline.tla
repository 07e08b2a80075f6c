-------------------------- MODULE MCUsagePipeline --------------------------
(* Model checking of UsagePipeline: two services, two runs, two directories. *)
EXTENDS UsagePipeline, TLC

MCLogs == <<"ftp", "http">>
=============================================================================
