--------------------------- MODULE MCScanWorkflow ---------------------------
(* Instances of ScanWorkflow for TLC. *)
EXTENDS ScanWorkflow
=============================================================================
