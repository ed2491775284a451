--------------------------- MODULE MCPipelineRun ---------------------------
(* Values of the constants of PipelineRun for TLC. *)
EXTENDS PipelineRun

Both   == <<"inc", "pg", "xf">>
Two    == <<"k1", "k2">>
One    == <<"inc", "xf">>
Last   == <<"k1">>
Single == [m \in Kinds |-> 1]
None   == [m \in Kinds |-> 0]
=============================================================================
