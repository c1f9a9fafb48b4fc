--------------------------- MODULE MCPipelineRun ---------------------------
(* Small instances of PipelineRun.                                         *)
EXTENDS PipelineRun

CONSTANTS p1, p2, NRTL, PR

(* to_dwsim cannot tell p1 from p2: they differ in a key it does not send. *)
SomeHidden == [p \in Params |-> p1]

=============================================================================
