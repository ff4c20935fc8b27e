----------------------------- MODULE MCStopping -----------------------------
(***************************************************************************)
(* The small pipelines, with the inductive invariant of the proofs.        *)
(***************************************************************************)
EXTENDS MCPipeline, StoppingProofs
=============================================================================
