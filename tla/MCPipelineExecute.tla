------------------------- MODULE MCPipelineExecute -------------------------
(* Instances of PipelineExecute for TLC. *)
EXTENDS PipelineExecute, TLC

\* Two configurations: without and with an optional check in the middle.
TwoBuilds == {<<"ip", "rate">>, <<"ip", "agent", "rate">>}
EnforcedChecks == {"ip", "rate"}

Symmetry == Permutations(Requests)
=============================================================================
