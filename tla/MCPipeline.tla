----------------------------- MODULE MCPipeline -----------------------------
(* Instances of Pipeline for TLC. *)
EXTENDS PipelineClaims

Files == [lines |-> ("a" :> 2) @@ ("b" :> 1), signal |-> FALSE]
FileAndSignal == [lines |-> ("a" :> 2), signal |-> TRUE]
LokiAndSignal == [lines |-> ("c" :> 2), signal |-> TRUE]

MCScenario == {Files, FileAndSignal, LokiAndSignal}
ClaimScenario == {LokiAndSignal}
=============================================================================
