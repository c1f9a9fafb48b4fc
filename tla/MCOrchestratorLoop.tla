-------------------------- MODULE MCOrchestratorLoop --------------------------
(* Small instances of OrchestratorLoop.                                    *)
EXTENDS OrchestratorLoop

=============================================================================
