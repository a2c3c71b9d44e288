------------------------------- MODULE MCFeed -------------------------------
(* A run with two actionable edges, and a live evaluation with one that is  *)
(* not; pages of one row.                                                   *)
EXTENDS Feed, TLC

MCBatches == {<<3, 1>>, <<2>>}
MCActionable == {1, 3}
MCHighPriority == {1}

Q(table, priority, live) == [table |-> table, priority |-> priority, live |-> live]

MCQueries == {Q("edges", "any", TRUE), Q("alerts", "any", TRUE), Q("alerts", "HIGH", FALSE)}
=============================================================================
