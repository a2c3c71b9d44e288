------------------------------ MODULE ParlayScan ------------------------------
(***************************************************************************)
(* Evaluating, storing, publishing and betting parlays: the scan a run     *)
(* makes over a game's fresh edges (ParlayScanner.scan_game), the          *)
(* evaluations asked for through POST /parlays/evaluate, the steps of      *)
(* ParlayEvaluator.evaluate, AutoBettor.place_parlay and the emulator.     *)
(*                                                                         *)
(* Legs are priced one at a time, each on the lines as they are then, so   *)
(* any two boards may be mixed.  A POST that times out may have been       *)
(* received.  One evaluation runs at a time: two of them share nothing but *)
(* tables they only append to, and only the scan places bets.              *)
(***************************************************************************)
EXTENDS Parlay

CONSTANTS
  Pools,        \* the sequences of active edges a game may have
  Requests,     \* the sequences of legs asked for through the API
  Boards,       \* the sets of offers the lines service may show
  Rows,         \* the latest predictions of the games
  PropChance,   \* what the prediction service may answer on demand
  Team,         \* the side each simulated slug plays for; its domain the bridge
  League,       \* the league of each game; games that resolve
  MinEv,        \* min_ev_pct_for_league
  MinEdgeEv,    \* the part of it an edge needs to become a candidate
  IncludeProps, \* PARLAY_SCAN_INCLUDE_PROPS
  MaxParlays    \* bound on the rows of the table

ASSUME ThresholdAssumption == MinEv \in Nat /\ MinEdgeEv \in Nat /\ MinEdgeEv <= MinEv
ASSUME FlagAssumption == IncludeProps \in BOOLEAN /\ MaxParlays \in Nat
ASSUME PoolAssumption == \A pool \in Pools : pool \in Seq(ToSet(pool))
ASSUME OddsAssumption == \A b \in Boards : \A o \in b : o.odds \in Nat

VARIABLES
  pc,     \* where the evaluation is
  active, \* the game's active edges, in the table's order
  todo,   \* the combinations the scan has not taken up yet
  job,    \* the evaluation: its legs as asked for, and who asks
  legs,   \* the legs resolved so far
  joint,  \* the joint probability, once computed: in percent, and by the priors?
  rows,   \* agent.parlays with its legs, in order of insertion
  bets,   \* the emulator's parlay bets: idempotency key -> what was sent
  raised  \* history: an evaluation has raised something else than ApiError

workVars == <<todo, job, legs, joint>>
storeVars == <<rows, bets>>
vars == <<pc, active, workVars, storeVars, raised>>

NoBet == <<>>
NoJoint == [p |-> 0, byPrior |-> FALSE]
NoJob == [specs |-> <<>>, persist |-> FALSE, scan |-> FALSE]

Init ==
  /\ pc = "idle" /\ active \in Pools
  /\ todo = <<>> /\ job = NoJob /\ legs = <<>> /\ joint = NoJoint
  /\ rows = <<>> /\ bets = <<>>
  /\ raised = FALSE

-----------------------------------------------------------------------------
(***************************************************************************)
(* What is asked of other services.                                        *)
(***************************************************************************)

TwoSided == {{"HOME", "AWAY"}, {"OVER", "UNDER"}, {"YES", "NO"}}

\* The rows that could price s: of its market, for a prop of its subject and
\* its line as well.
RowsOf(s) ==
  {r \in Rows : /\ r.game = s.game /\ r.market = s.market /\ r.who = s.who
                /\ s.market = PlayerProp => r.line = s.line}

\* _match_leg_prediction and _match_prop_prediction: the side's own row, or
\* the complement of the other side's; no complement in a three-way market.
Chance(s) ==
  LET own == {r.p : r \in {r \in RowsOf(s) : r.side = s.side}}
      other == {100 - r.p : r \in {r \in RowsOf(s) : {r.side, s.side} \in TwoSided}}
      threeWay == s.market = "MONEYLINE" /\ "DRAW" \in {s.side} \cup {r.side : r \in RowsOf(s)}
  IN  IF own # {} \/ threeWay THEN own ELSE other

\* What may price s: for a prop without a row the engine is asked.
Chances(s) ==
  IF s.market = PlayerProp /\ Chance(s) = {} THEN PropChance ELSE Chance(s)

\* _best_line and _best_prop_line: the offers of the leg's side, at its book
\* and its line when it names one.
Matching(s, board) ==
  {o \in board : /\ o.game = s.game /\ o.market = s.market /\ o.side = s.side /\ o.who = s.who
                 /\ o.odds # 0 /\ s.book \in {"", o.book} /\ s.line \in {NoLine, o.line}}

Best(offers) == {o \in offers : \A x \in offers : x.odds <= o.odds}

\* The sim leg key of a spread or total needs the line of the offer.
HasLegKey(o) == o.market \in {"SPREAD", "TOTAL"} => o.line # NoLine

\* Mutant of BetIdentity: props of two players are not told apart.
BetIdentityWithoutPlayer(l) == <<l.game, l.market, l.side, l.line, l.book, l.odds>>

\* leg_identity.
BetIdentity(l) == <<l.game, l.market, l.side, l.line, l.book, l.odds, l.who>>

\* parlay_identity: how often each leg occurs, in whatever order.
BetKey(ls) ==
  [x \in {BetIdentity(ls[i]) : i \in DOMAIN ls} |->
     Cardinality({i \in DOMAIN ls : BetIdentity(ls[i]) = x})]

-----------------------------------------------------------------------------
(***************************************************************************)
(* Who asks for an evaluation.                                             *)
(***************************************************************************)

\* A run has detected edges of the game, or lines have moved and staled them.
EdgesChange ==
  /\ pc = "idle"
  /\ active' \in Pools
  /\ UNCHANGED <<pc, workVars, storeVars, raised>>

\* What a scan does with a game's edges.
CandidatesOf == [pool \in Pools |-> SelectCandidates(pool, MinEdgeEv, IncludeProps)]
CombinationsOf == [pool \in Pools |-> Combinations(CandidatesOf[pool])]

\* scan_game.
StartScan ==
  /\ pc = "idle"
  /\ pc' = "next"
  /\ todo' = CombinationsOf[active]
  /\ UNCHANGED <<active, job, legs, joint, storeVars, raised>>

Take(specs, persist, scan) ==
  /\ job' = [specs |-> specs, persist |-> persist, scan |-> scan]
  /\ legs' = <<>> /\ joint' = NoJoint

NextCombo ==
  /\ pc = "next" /\ todo # <<>>
  /\ pc' = "validate"
  /\ Take(Head(todo), FALSE, TRUE)
  /\ todo' = Tail(todo)
  /\ UNCHANGED <<active, storeVars, raised>>

ScanEnds ==
  /\ pc = "next" /\ todo = <<>>
  /\ pc' = "idle"
  /\ Take(<<>>, FALSE, FALSE)
  /\ UNCHANGED <<active, todo, storeVars, raised>>

\* evaluate_parlay.
Request ==
  /\ pc = "idle"
  /\ pc' = "validate"
  /\ \E specs \in Requests, persist \in BOOLEAN : Take(specs, persist, FALSE)
  /\ UNCHANGED <<active, todo, storeVars, raised>>

\* Back to the scan's next combination, or to the caller.
Return ==
  /\ pc' = IF job.scan THEN "next" ELSE "idle"
  /\ Take(<<>>, FALSE, FALSE)
  /\ UNCHANGED <<active, todo>>

-----------------------------------------------------------------------------
(***************************************************************************)
(* ParlayEvaluator.evaluate.  An ApiError ends this evaluation only.       *)
(***************************************************************************)

Specs == job.specs
Games == {Specs[i].game : i \in DOMAIN Specs}

\* _validate_legs passes, every game resolves, and they are of one league.
Resolvable ==
  /\ ValidLegs(Specs)
  /\ Games \subseteq DOMAIN League
  /\ Cardinality({League[g] : g \in Games}) = 1

\* The bridge knows the players of the prop legs.
Bridged == \A i \in DOMAIN Specs : Specs[i].market = PlayerProp => Specs[i].who[1] \in DOMAIN Team

TeamOf(market, who) == IF market = PlayerProp THEN Team[who[1]] ELSE ""

Resolve ==
  /\ pc = "validate" /\ Resolvable /\ Bridged
  /\ pc' = "price"
  /\ UNCHANGED <<active, workVars, storeVars, raised>>

\* The leg s at the offer o, with its chance of p percent.
Resolved(s, o, p) ==
  [game |-> s.game, market |-> s.market, side |-> s.side, who |-> s.who,
   team |-> TeamOf(s.market, s.who), line |-> o.line, book |-> o.book, odds |-> o.odds, p |-> p]

PriceLeg ==
  /\ pc = "price" /\ Len(legs) < Len(Specs)
  /\ LET s == Specs[Len(legs) + 1]
     IN  \E board \in Boards, p \in Chances(s) :
           \E o \in Best(Matching(s, board)) :
             p \in 1 .. 99 /\ HasLegKey(o) /\ legs' = Append(legs, Resolved(s, o, p))
  /\ UNCHANGED <<pc, active, todo, job, joint, storeVars, raised>>

\* Invalid legs, no game, prediction or line, or a service that stays down.
EvaluationFails ==
  /\ pc \in {"validate", "price"}
  /\ Return
  /\ UNCHANGED <<storeVars, raised>>

\* The legs of one game, gathered in their order.
Of(game) == FoldLeft(LAMBDA ls, l : IF l.game = game THEN Append(ls, l) ELSE ls, <<>>, legs)
ChancesOf(ls) == [i \in DOMAIN ls |-> ls[i].p]
Tenths(ls) == [i \in DOMAIN ls |-> ls[i].odds]

\* The games of several legs; the others' legs count with their own chance.
SameGame == {g \in Games : Len(Of(g)) > 1}

\* Distinct games are independent.
JointProbabilities(byPrior) ==
  LET ofGame(g) == GroupJoint(Of(g), ChancesOf(Of(g)), byPrior /\ g \in SameGame)
  IN  {FoldSet(LAMBDA g, v : (v * ofGame(g)[f[g]]) \div 100, 100, Games) : f \in [Games -> 1 .. 2]}

MeetsThreshold == ParlayEv(joint.p, Tenths(legs)) >= MinEv

\* The simulation's correlations are missing for a game, and the prior of two
\* of its legs raises ValueError.
PriorRaises == \E i, j \in DOMAIN legs : i < j /\ Raises(legs[i], legs[j])

\* A ValueError is not an ApiError: neither evaluate nor scan_game handles it,
\* and the run's _scan_parlays drops the game's remaining combinations.
JointProbability ==
  /\ pc = "price" /\ Len(legs) = Len(Specs)
  /\ \E byPrior \in BOOLEAN :
       /\ byPrior => SameGame # {}
       /\ IF byPrior /\ PriorRaises
          THEN /\ pc' = "idle" /\ todo' = <<>> /\ raised' = TRUE
               /\ Take(<<>>, FALSE, FALSE)
          ELSE /\ pc' = "decide"
               /\ \E p \in JointProbabilities(byPrior) : joint' = [p |-> p, byPrior |-> byPrior]
               /\ UNCHANGED <<todo, job, legs, raised>>
  /\ UNCHANGED <<active, storeVars>>

\* Mutant of Keeps: only those somebody asked to keep.
KeepsAsked == job.persist

Keeps == MeetsThreshold \/ job.persist

\* Nothing is stored; the caller gets its evaluation all the same.
Discard ==
  /\ pc = "decide" /\ ~Keeps
  /\ pc' = "bet"
  /\ UNCHANGED <<active, workVars, storeVars, raised>>

\* insert_with_legs: the parlay and its legs in one transaction.  An actionable
\* one is then published, which may fail without a trace.
Persist ==
  /\ pc = "decide" /\ Keeps /\ Len(rows) < MaxParlays
  /\ pc' = "bet"
  /\ rows' = Append(rows, 
             [legs |-> legs, byPrior |-> joint.byPrior, meets |-> MeetsThreshold, bet |-> NoBet])
  /\ UNCHANGED <<active, workVars, bets, raised>>

\* The database is down: nothing is stored, and the scan of the game ends.
PersistFails ==
  /\ pc = "decide" /\ Keeps
  /\ pc' = "idle" /\ todo' = <<>>
  /\ Take(<<>>, FALSE, FALSE)
  /\ UNCHANGED <<active, storeVars, raised>>

-----------------------------------------------------------------------------
(***************************************************************************)
(* AutoBettor.place_parlay, for the scan, and the emulator.                *)
(***************************************************************************)

\* Below the threshold, not a scan, PARLAY_AUTO_BET is off, or no stake.
NoBetting ==
  /\ pc = "bet"
  /\ Return
  /\ UNCHANGED <<storeVars, raised>>

Betting == pc = "bet" /\ job.scan /\ MeetsThreshold

\* What the request says of a leg.  It names no price: the emulator takes the
\* leg at its own, and the price it answers with is not looked at.
BodyLeg(l) ==
  [game |-> l.game, market |-> l.market, side |-> l.side, who |-> l.who,
   line |-> l.line, book |-> l.book]
Body(ls) == [i \in DOMAIN ls |-> BodyLeg(ls[i])]

\* The emulator knows the key, and answers with the bet it has, or takes it.
Received ==
  [k \in DOMAIN bets \union {BetKey(legs)} |-> IF k \in DOMAIN bets THEN bets[k] ELSE Body(legs)]

PlaceParlay ==
  /\ Betting
  /\ pc' = "link"
  /\ bets' = Received
  /\ UNCHANGED <<active, todo, job, legs, joint, rows, raised>>

\* No answer, the bet received or not, is an ApiError: a bet is asked for once
\* (post_data does not retry it).
PlaceFails ==
  /\ Betting
  /\ bets' \in {bets, Received}
  /\ Return
  /\ UNCHANGED <<rows, raised>>

\* set_paper_bet.
Link ==
  /\ pc = "link"
  /\ rows' = [rows EXCEPT ![Len(rows)].bet = BetKey(legs)]
  /\ Return
  /\ UNCHANGED <<bets, raised>>

\* The process dies, or the run is cancelled; the tables and the bets remain.
Crash ==
  /\ pc # "idle"
  /\ pc' = "idle" /\ todo' = <<>>
  /\ Take(<<>>, FALSE, FALSE)
  /\ UNCHANGED <<active, storeVars, raised>>

Next ==
  \/ EdgesChange \/ StartScan \/ NextCombo \/ ScanEnds \/ Request
  \/ Resolve \/ PriceLeg \/ EvaluationFails
  \/ JointProbability \/ Discard \/ Persist \/ PersistFails
  \/ NoBetting \/ PlaceParlay \/ PlaceFails \/ Link \/ Crash

Spec == Init /\ [][Next]_vars

-----------------------------------------------------------------------------
(***************************************************************************)
(* Properties.                                                             *)
(***************************************************************************)

\* A parlay never links to the bet of another one: the bet the emulator holds
\* under its key was asked for with its games, markets, sides, subjects, lines
\* and books.  Keys are order-independent digests (parlay_identity), and the
\* emulator answers a known key with the old bet, whatever the body says.
LinkedBetIsItsOwn ==
  \A i \in DOMAIN rows :
    rows[i].bet # NoBet =>
      /\ rows[i].bet \in DOMAIN bets
      /\ ToSet(Body(rows[i].legs)) = ToSet(bets[rows[i].bet])

\* Every bet the emulator holds was asked for on behalf of an actionable parlay
\* of the table: its key is that of the parlay as it was priced, and its legs
\* are the parlay's.  This holds after a timeout, a crash or a failed insert as
\* well: evaluate stores a parlay before scan_game bets on it.
BetsAreOnRecord ==
  \A k \in DOMAIN bets :
    \E i \in DOMAIN rows :
      rows[i].meets /\ BetKey(rows[i].legs) = k /\ Body(rows[i].legs) = bets[k]

\* The legs an evaluation has passed never make the prior raise: a ValueError
\* is no ApiError, and would end the scan of the game (_validate_legs against
\* correlation_prior, which define exclusive legs each in its own way).
NeverRaises == ~raised

\* Two legs of which one makes the other less likely: a team to win and the
\* other team's player to reach his line, or its own player not to; a team to
\* win and few points; two teams to win.
Opposed(a, b) ==
  \/ /\ a.market \in TeamMarkets /\ a.side # "DRAW" /\ b.market = PlayerProp
     /\ b.team \in {"HOME", "AWAY"}
     /\ (a.side = b.team) <=> (b.side \in {"UNDER", "NO"})
  \/ a.market \in TeamMarkets /\ b.market = "TOTAL" /\ b.side = "UNDER" /\ a.side # "DRAW"
  \/ a.market \in TeamMarkets /\ b.market \in TeamMarkets /\ a.side # b.side

\* Without simulation data, correlation is never a reason to combine opposed
\* legs: such a parlay is actionable only where the independent product of its
\* legs is (correlation_prior's signs, whichever leg comes first).
OpposedLegsGainNothing ==
  \A i \in DOMAIN rows :
    LET ls == rows[i].legs
    IN  /\ rows[i].byPrior /\ rows[i].meets /\ Len(ls) = 2 /\ ls[1].game = ls[2].game
        /\ Opposed(ls[1], ls[2]) \/ Opposed(ls[2], ls[1])
        => ParlayEv(Product(ChancesOf(ls)), Tenths(ls)) >= MinEv

\* Whatever the cap on combinations cuts off, it is no pair: each two of the
\* six best legs that may be combined are evaluated (enumerate_combinations).
EveryPairIsTried ==
  [][todo = <<>> /\ todo' # <<>> =>
       LET cands == CandidatesOf[active]
       IN  \A i, j \in DOMAIN cands :
             i < j /\ ComboKey(cands[i]) # ComboKey(cands[j])
               => <<cands[i], cands[j]>> \in ToSet(todo')]_vars
=============================================================================
