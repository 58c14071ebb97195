---------------------------- MODULE MCPipelineRun ----------------------------
(* Two batches of a run, one of them with a failure, and three requests:    *)
(* one for each dimension alone and one for both.                           *)
EXTENDS PipelineRun, TLC

CONSTANTS b1, b2, p1, p2, p3

MCEnvs    == {"UNKNOWN", "PROD", "DEV"}
MCTypes   == {"REAL", "NIGHTLY"}
MCBatches == {b1, b2}
MCSent    == b1 :> [env |-> "PROD", type |-> "NIGHTLY"] @@
             b2 :> [env |-> "UNKNOWN", type |-> "UNKNOWN"]
MCFailed  == {b1}
MCPatches == {p1, p2, p3}
MCAsk     == p1 :> [env |-> "DEV", type |-> Omit] @@
             p2 :> [env |-> Omit, type |-> "NIGHTLY"] @@
             p3 :> [env |-> "PROD", type |-> "UNKNOWN"]
==============================================================================
