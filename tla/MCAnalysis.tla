----------------------------- MODULE MCAnalysis -----------------------------
(* Three requests over one game with two edges: previews and breakdowns by  *)
(* both routes, a question, a review, the daily summary, an unknown edge.   *)
EXTENDS Analysis, TLC

CONSTANTS r1, r2, r3

MCRequests == {r1, r2, r3}
MCSymmetry == Permutations(MCRequests)

MCEdgeGame == [e \in {"e1", "e2"} |-> "g1"]

A(form, type, game, edge, question) ==
    [form |-> form, type |-> type, game |-> game, edge |-> edge,
     question |-> question]

MCAsks == {
    A("json",   "EDGE_BREAKDOWN", NoId, "e1", FALSE),
    A("stream", "EDGE_BREAKDOWN", NoId, "e1", FALSE),
    A("stream", "EDGE_BREAKDOWN", NoId, "e2", FALSE),
    A("stream", "EDGE_BREAKDOWN", NoId, "e1", TRUE),
    A("stream", "EDGE_BREAKDOWN", NoId, "e9", FALSE),
    A("stream", "GAME_PREVIEW",   "g1", NoId, FALSE),
    A("json",   "PERFORMANCE_REVIEW", NoId, NoId, FALSE),
    A("cron",   "DAILY_SUMMARY",  NoId, NoId, FALSE)}
=============================================================================
