--------------------------- MODULE MCPipelineRun ---------------------------
(* PipelineRun on a recording and two live sources: see the .cfg files. *)
EXTENDS PipelineRun
=============================================================================
