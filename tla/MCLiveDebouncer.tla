---------------------------- MODULE MCLiveDebouncer ----------------------------
(***************************************************************************)
(* Two games: stop() awaits the task of one while the other's moves on.    *)
(* Three frames of a game: one evaluated, one that lands in flight and one *)
(* that joins it.                                                          *)
(***************************************************************************)
EXTENDS LiveDebouncer, TLC

CONSTANTS g1, g2

Games == {g1, g2}
=============================================================================
