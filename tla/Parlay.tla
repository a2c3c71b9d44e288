-------------------------------- MODULE Parlay --------------------------------
(***************************************************************************)
(* The rules of parlays, as operators: which sets of legs may be combined  *)
(* (core/parlay.py), the correlation assumed between two legs when the     *)
(* simulation has none (edges/correlation.py), and the legs the scanner    *)
(* combines (core/parlay_scanner.py).                                      *)
(*                                                                         *)
(* A leg has a game, a market, a side, a line, NoLine for None, and a      *)
(* subject: the slug and the stat of a player prop.  Probabilities and     *)
(* correlations are in percent, decimal odds in tenths.                    *)
(***************************************************************************)
EXTENDS Integers, FiniteSetsExt, SequencesExt

NoLine == 0
NoOne == <<"", "">>
PlayerProp == "PLAYER_PROP"

-----------------------------------------------------------------------------
(***************************************************************************)
(* Validation: _validate_leg and _validate_legs.                           *)
(***************************************************************************)

Sides == [MONEYLINE |-> {"HOME", "AWAY", "DRAW"}, SPREAD |-> {"HOME", "AWAY"},
          TOTAL |-> {"OVER", "UNDER"}, PLAYER_PROP |-> {"OVER", "UNDER", "YES", "NO"}]

\* TEAM_PROP and GAME_PROP, which no simulation leg key names, are not allowed.
Allowed == DOMAIN Sides

ValidLeg(s) ==
  /\ s.market \in Allowed
  /\ s.side \in Sides[s.market]
  /\ s.market = PlayerProp =>
       /\ s.who[1] # "" /\ s.who[2] # ""
       /\ s.side \in {"YES", "NO"} <=> s.line = NoLine

\* A player's stat appears once, a team market's side once at each line.
Identity(s) ==
  IF s.market = PlayerProp THEN <<s.game, s.market, s.who>>
  ELSE <<s.game, s.market, s.side, s.line>>

\* Opposite sides of a team market exclude each other.
Exclusive(s, t) ==
  s.market # PlayerProp /\ s.game = t.game /\ s.market = t.market /\ s.side # t.side

\* Mutant of Compatible: only repeated legs are refused.
CompatibleIfDistinct(s, t) == Identity(s) # Identity(t)

Compatible(s, t) == Identity(s) # Identity(t) /\ ~Exclusive(s, t)

ValidLegs(legs) ==
  /\ Len(legs) \in 2 .. 6
  /\ \A i \in 1 .. Len(legs) : ValidLeg(legs[i])
  /\ \A i, j \in 1 .. Len(legs) : i # j => Compatible(legs[i], legs[j])

-----------------------------------------------------------------------------
(***************************************************************************)
(* The prior correlation of two legs: correlation_prior.                   *)
(***************************************************************************)

TeamMarkets == {"SPREAD", "MONEYLINE"}

Priors ==
  {<<{"SPREAD", "TOTAL"}, 15>>, <<{"MONEYLINE", "TOTAL"}, 15>>, <<{"MONEYLINE", "SPREAD"}, 30>>,
   <<{"MONEYLINE", PlayerProp}, 20>>, <<{"SPREAD", PlayerProp}, 15>>, <<{"TOTAL"}, 45>>}

\* The magnitude for the two markets; 0 when none is documented.
MagnitudeOf(markets) ==
  LET known == {e \in Priors : e[1] = markets}
  IN  IF known = {} THEN 0 ELSE (CHOOSE e \in known : TRUE)[2]

Magnitude(a, b) == MagnitudeOf({a.market, b.market})

\* The ValueError of correlation_prior: the outcomes exclude each other.
Raises(a, b) ==
  /\ a.game = b.game /\ a.market = b.market /\ a.side # b.side
  /\ a.market = PlayerProp => a.who = b.who

\* Mutant of Direction: the unders count as overs.
DirectionOver(l) == 1

\* _total_direction.
Direction(l) ==
  IF l.market \in {PlayerProp, "TOTAL"} /\ l.side \in {"UNDER", "NO"} THEN -1 ELSE 1

\* Of a team leg t and another one: a player of unknown team sides with t.
Agreement(t, l) ==
  IF t.side = "DRAW" THEN 0
  ELSE IF {t.side, l.team} = {"HOME", "AWAY"} THEN -1 ELSE 1

Prior(a, b) ==
  IF a.game # b.game THEN 0
  ELSE IF {a.market, b.market} \subseteq TeamMarkets
       THEN IF a.side = b.side THEN Magnitude(a, b) ELSE -Magnitude(a, b)
  ELSE Magnitude(a, b) * Direction(a) * Direction(b)
       * (IF a.market \in TeamMarkets THEN Agreement(a, b)
          ELSE IF b.market \in TeamMarkets THEN Agreement(b, a) ELSE 1)

-----------------------------------------------------------------------------
(***************************************************************************)
(* Joint probability and price of resolved legs.                           *)
(***************************************************************************)

SumOver(f) == MapThenSumSet(LAMBDA i : f[i], DOMAIN f)

\* _frechet_clamp: what the marginals allow.
FrechetLow(p) == Max({0, SumOver(p) - 100 * (Len(p) - 1)})
FrechetHigh(p) == Min(ToSet(p))

Product(p) == FoldLeft(LAMBDA v, x : (v * x) \div 100, 100, p)

\* The joint probability of the legs of one game, of marginals p.  What the
\* simulation says is anything the marginals allow; the first-order
\* approximation moves the product the way the priors point.  Of either, the
\* least and the greatest value stand for those between them.
GroupJoint(legs, p, byPrior) ==
  LET rhos == {Prior(legs[s[1]], legs[s[2]]) : s \in {s \in (DOMAIN legs) \X (DOMAIN legs) : s[1] < s[2]}}
  IN  <<IF byPrior /\ \A r \in rhos : r >= 0 THEN Product(p) ELSE FrechetLow(p),
       IF byPrior /\ \A r \in rhos : r <= 0 THEN Product(p) ELSE FrechetHigh(p)>>

\* EV in percent of a parlay of joint probability p percent, rounded down.
ParlayEv(p, tenths) == FoldLeft(LAMBDA v, t : (v * t) \div 10, p, tenths) - 100

-----------------------------------------------------------------------------
(***************************************************************************)
(* The scanner: select_candidates and enumerate_combinations.  An edge is  *)
(* a leg with the book and the expected value it was detected at.          *)
(***************************************************************************)

LegKey(e) == <<e.market, e.side, e.line, e.who>>
ComboKey(e) == <<e.market, e.who>>

\* Of the edges in the order of the table: the best offer of each leg, best
\* first, at most six.
SelectCandidates(edges, minEv, includeProps) ==
  LET near == {i \in DOMAIN edges :
                 LET e == edges[i]
                 IN  /\ e.market \in Allowed /\ e.ev >= minEv
                     /\ e.market = PlayerProp => includeProps /\ e.who[1] # "" /\ e.who[2] # ""}
      sameLeg(i) == {j \in near : LegKey(edges[j]) = LegKey(edges[i])}
      more(i, j) == edges[i].ev > edges[j].ev
      best == {i \in near : \A j \in sameLeg(i) : ~more(j, i) /\ (more(i, j) \/ i <= j)}
      ahead(i, j) == more(i, j) \/ (~more(j, i) /\ Min(sameLeg(i)) < Min(sameLeg(j)))
  IN  [k \in 1 .. Min({6, Cardinality(best)}) |->
         edges[CHOOSE i \in best : Cardinality({j \in best : ahead(j, i)}) = k - 1]]

Combinable(c) ==
  /\ \A i, j \in DOMAIN c : i # j => ComboKey(c[i]) # ComboKey(c[j])
  /\ Cardinality({i \in DOMAIN c : c[i].market = PlayerProp}) <= 2

\* itertools.combinations of two, and of three: increasing positions.
Picks(c) ==
  {t \in [1 .. 2 -> DOMAIN c] \union [1 .. 3 -> DOMAIN c] :
     \A d, e \in DOMAIN t : d < e => t[d] < t[e]}

Combo(c, t) == [d \in DOMAIN t |-> c[t[d]]]

\* Its order: the first position that differs decides.
Sooner(t, u) ==
  \E d \in DOMAIN t : t[d] < u[d] /\ \A e \in DOMAIN t : e < d => t[e] = u[e]

\* Mutant of Smaller: the larger sets come first.
Larger(t, u) == Len(t) > Len(u) \/ (Len(t) = Len(u) /\ Sooner(t, u))

Smaller(t, u) == Len(t) < Len(u) \/ (Len(t) = Len(u) /\ Sooner(t, u))

\* The first twenty that may be combined.
Combinations(cands) ==
  LET valid == {t \in Picks(cands) : Combinable(Combo(cands, t))}
      rank(t) == Cardinality({u \in valid : Smaller(u, t)})
  IN  [n \in 1 .. Min({20, Cardinality(valid)}) |->
         Combo(cands, CHOOSE t \in valid : rank(t) = n - 1)]
==============================================================================
