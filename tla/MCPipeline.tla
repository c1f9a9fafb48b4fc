----------------------------- MODULE MCPipeline -----------------------------
(* Small instances of Pipeline.                                            *)
EXTENDS Pipeline, TLC

CONSTANTS p1, p2, p3, NRTL, PR

(* Every parameter reaches the flowsheet. *)
AllSent == [p \in Params |-> p]

(* to_dwsim cannot tell p1 from p2: they differ in a key it does not send. *)
SomeHidden == [p \in Params |-> IF p = p2 THEN p1 ELSE p]

=============================================================================
