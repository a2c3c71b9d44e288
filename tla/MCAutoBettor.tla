----------------------------- MODULE MCAutoBettor -----------------------------
(***************************************************************************)
(* Small instances of AutoBettor: two leagues, one with two bets and one   *)
(* with one.  Two bets at 5% use up the cap, 10% here, so that runs are    *)
(* scaled and later runs find it used; the bankroll of 9.97 units makes    *)
(* the stakes round.                                                       *)
(***************************************************************************)
EXTENDS AutoBettor, TLC

CONSTANTS nba, nfl, k1, k2, k3

Leagues == {nba, nfl}
Keys == {k1, k2, k3}
LeagueOf == (k1 :> nba) @@ (k2 :> nba) @@ (k3 :> nfl)
KellyValues == {2, 5}
AllFaults == FaultKind
OneParlay == {50}
=============================================================================
