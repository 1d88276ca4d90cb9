--------------------------- MODULE MC_FieldRetry ---------------------------
(* A deployment's .status.unavailableReplicas: omitted (no output) or 1. *)
EXTENDS FieldRetry

MC_Values == {{}, {"1"}}
MC_ErrorOutput == {"Error", "NotFound"}
=============================================================================
