--------------------------- MODULE MCEventSubscriber ---------------------------
(***************************************************************************)
(* Two games of one league, so that an event is about both and is handled  *)
(* half; two events, so that one comes while another is handled.           *)
(***************************************************************************)
EXTENDS EventSubscriber, TLC

CONSTANTS nba, g1, g2

Leagues == {nba}
Games == {g1, g2}
SameLeague == [g \in Games |-> nba]
=============================================================================
