---------------------------- MODULE MCPipelineRuns ----------------------------
(***************************************************************************)
(* Small instances of PipelineRuns: two leagues, two callers and two runs, *)
(* enough for a run of all leagues beside one of a league, for two callers *)
(* in the same window, and for a second run of a league after its first.   *)
(* (The proofs lift the safety properties to any number of each.)          *)
(***************************************************************************)
EXTENDS PipelineRuns, TLC

CONSTANTS nba, nfl, r1, r2, c1, c2

Leagues == {nba, nfl}
Runs == {r1, r2}
Callers == {c1, c2}

AllFaults == FaultKind
=============================================================================
