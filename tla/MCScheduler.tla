------------------------------ MODULE MCScheduler ------------------------------
(***************************************************************************)
(* Two schedules, so that one is awaited while the other is edited; two    *)
(* cron expressions with different occurrences; a clock long enough for    *)
(* an occurrence of each, for an edit that goes from one to the other, and *)
(* for an occurrence to misfire.                                           *)
(***************************************************************************)
EXTENDS Scheduler

CONSTANTS nba, nfl

Leagues == {nba, nfl}
Periods == {2, 3}
=============================================================================
