---------------------------- MODULE MCEdgeDetector ----------------------------
(***************************************************************************)
(* A small instance of EdgeDetector: up to four quotes of two books for    *)
(* one game.  The quotes are chosen so that a book can quote the spread    *)
(* both ways round, a moneyline can be two- or three-way, two players have *)
(* props of one stat and line, and one YES quote stands alone.             *)
(***************************************************************************)
EXTENDS EdgeDetector

Quote(b, m, l, s, w, yn, o) ==
  [book |-> b, market |-> m, line |-> l, side |-> s, who |-> w, yesno |-> yn, odds |-> o]

Row(m, l, s, t, p) ==
  [market |-> m, line |-> l, side |-> s, who |-> NoOne, tagged |-> t, p |-> p]

Spread(b, l, s, o) == Quote(b, "SPREAD", l, s, NoOne, FALSE, o)
Money(b, s, o) == Quote(b, "MONEYLINE", 0, s, NoOne, FALSE, o)
Prop(b, w, s, o) == Quote(b, "PLAYER_PROP", 5, s, w, FALSE, o)

Kane == <<"kane", "shots">>
Saka == <<"saka", "shots">>
Goal == <<"kane", "goal">>

AllQuotes ==
  {Spread("a", -3, "HOME", -11), Spread("a", 3, "AWAY", -11), Spread("a", 3, "HOME", -13),
   Spread("b", -3, "HOME", 10), Spread("b", 3, "AWAY", -12), Spread("a", -3, "HOME", 0),
   Money("a", "HOME", 13), Money("a", "DRAW", 22), Money("a", "AWAY", 15),
   Prop("a", Kane, "OVER", -11), Prop("a", Kane, "UNDER", -13), Prop("a", Saka, "UNDER", 10),
   Quote("b", "PLAYER_PROP", 0, "YES", Goal, TRUE, 25)}

AllTeamRows ==
  {<<Row("SPREAD", -3, "HOME", FALSE, 53), Row("MONEYLINE", 0, "HOME", FALSE, 40)>>,
   <<Row("SPREAD", -3, "HOME", TRUE, 49), Row("MONEYLINE", 0, "AWAY", FALSE, 45)>>,
   <<Row("SPREAD", 3, "AWAY", FALSE, 40)>>}

AllPlayers ==
  <<[uuid |-> "u1", slug |-> "kane", stats |-> {"shots", "goal"}],
    [uuid |-> "u2", slug |-> "kane", stats |-> {}],
    [uuid |-> "u3", slug |-> "saka", stats |-> {}]>>

Chances == {40, 60}
=============================================================================
