------------------------- MODULE MCPipelineExecution -------------------------
(***************************************************************************)
(* Small instances of PipelineExecution: three games behind a semaphore of *)
(* two, so that a game waits for a slot while the others succeed and fail; *)
(* one game with two candidates, one with one and one with none, so that a *)
(* bet error recorded for a game hides or does not hide another bet's.     *)
(***************************************************************************)
EXTENDS PipelineExecution, TLC

CONSTANTS g1, g2, g3, e1, e2, e3

Games == {g1, g2, g3}
Candidates == {e1, e2, e3}
GameOf == (e1 :> g1) @@ (e2 :> g1) @@ (e3 :> g2)

AllFaults == FaultKind
=============================================================================
