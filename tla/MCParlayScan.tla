----------------------------- MODULE MCParlayScan -----------------------------
(***************************************************************************)
(* A small instance of ParlayScan: a game with team and player-prop edges, *)
(* a second game of the same league and a third one of another.  The two   *)
(* players' props have the same line, book and odds, so that only the      *)
(* player tells them apart.  The largest pool has six candidates and more  *)
(* combinations than the scanner evaluates; it is of the third game, which *)
(* has no predictions, so that the scan goes through all of them quickly.  *)
(***************************************************************************)
EXTENDS ParlayScan

Leg(g, m, s, l, w) == [game |-> g, market |-> m, side |-> s, line |-> l, who |-> w]
Asked(leg) == leg @@ [book |-> ""]
Found(leg, ev) == leg @@ [book |-> "a", ev |-> ev]
Offer(leg, b, o) == leg @@ [book |-> b, odds |-> o]

Win == Leg("g1", "MONEYLINE", "HOME", NoLine, NoOne)
Lose == Leg("g1", "MONEYLINE", "AWAY", NoLine, NoOne)
Cover == Leg("g1", "SPREAD", "HOME", -3, NoOne)
Few == Leg("g1", "TOTAL", "UNDER", 220, NoOne)
Many == Leg("g1", "TOTAL", "OVER", 220, NoOne)
Kane == Leg("g1", PlayerProp, "OVER", 2, <<"kane", "shots">>)
Saka == Leg("g1", PlayerProp, "OVER", 2, <<"saka", "shots">>)
Goal == Leg("g1", PlayerProp, "YES", NoLine, <<"kane", "goal">>)
Other == Leg("g2", "MONEYLINE", "HOME", NoLine, NoOne)
Player(slug) == [Kane EXCEPT !.who = <<slug, "shots">>]
Away(leg, ev) == Found([leg EXCEPT !.game = "g3"], ev)
Abroad == Leg("g3", "MONEYLINE", "HOME", NoLine, NoOne)

AllPools ==
  {<<Found(Win, 50), Found(Kane, 25), Found(Saka, 24)>>,
   <<Found(Win, 30), Found(Few, 40), Found(Many, 35), Found(Win, 50)>>,
   <<Away(Win, 50), Away(Cover, 45), Away(Few, 40), Away(Player("salah"), 25),
     Away(Player("rice"), 24), Away(Player("son"), 22), Away(Lose, 21)>>}

AllRequests ==
  {<<Asked(Win), Asked(Lose)>>, <<Asked(Win), Asked(Other)>>, <<Asked(Win), Asked(Abroad)>>,
   <<Asked(Few), Asked([Few EXCEPT !.line = NoLine])>>,
   <<Asked(Kane), Asked(Other), Asked([Kane EXCEPT !.side = "UNDER"])>>}

Usual ==
  {Offer(Win, "a", 20), Offer(Win, "b", 21), Offer(Cover, "a", 20), Offer(Few, "a", 17), Offer(Lose, "a", 18),
   Offer(Many, "a", 18), Offer(Kane, "a", 22), Offer(Saka, "a", 22), Offer(Other, "b", 20)}
AllBoards == {Usual, {Offer(Win, "a", 19), Offer(Goal, "a", 30)}}

Predicted(leg, p) == leg @@ [p |-> p]
AllRows ==
  {Predicted(Win, 55), Predicted(Cover, 50), Predicted(Many, 47), Predicted(Other, 54)}

OnDemand == {45}
Teams == [kane |-> "AWAY", saka |-> "HOME"]
Leagues == [g1 |-> "EPL", g2 |-> "EPL", g3 |-> "NBA"]
=============================================================================
