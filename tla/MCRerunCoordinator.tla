--------------------------- MODULE MCRerunCoordinator ---------------------------
(***************************************************************************)
(* Two leagues, so that one is added or replaced while stop() awaits the   *)
(* other, and three requests, so that one league is requested before, while*)
(* and after stop() cancels its timer.                                     *)
(***************************************************************************)
EXTENDS RerunCoordinator, TLC

CONSTANTS nba, nfl

Leagues == {nba, nfl}
=============================================================================
