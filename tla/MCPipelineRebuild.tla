-------------------------- MODULE MCPipelineRebuild --------------------------
(* Instances of PipelineRebuild for TLC. *)
EXTENDS PipelineRebuild, TLC

\* Requests are interchangeable; so are writers. Not used with liveness.
Symmetry == Permutations(Requests) \cup Permutations(Writers)
=============================================================================
