------------------------- MODULE MCPipelineRegistry -------------------------
(* PipelineRegistry on a small instance: see the .cfg files for the bounds. *)
EXTENDS PipelineRegistry
=============================================================================
