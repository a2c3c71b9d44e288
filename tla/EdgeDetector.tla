----------------------------- MODULE EdgeDetector -----------------------------
(***************************************************************************)
(* What a run does with the quotes of one game: PipelineRunner's           *)
(* best-effort player-prop step (core/props.py) and EdgeDetector.detect:   *)
(* quotes are grouped into markets, de-vigged, matched with a predicted    *)
(* probability, and the best-priced edge of every outcome is kept.         *)
(*                                                                         *)
(* Arithmetic is exact, on fractions.  Odds are American odds in tens, -11 *)
(* for -110 and 0 for a missing price; probabilities are in percent.       *)
(* The de-vig method is the default one, multiplicative.  A market without *)
(* a line has line 0.  The quality score, the Kelly fraction and the       *)
(* metadata an edge carries along are left out.                            *)
(***************************************************************************)
EXTENDS Integers, FiniteSetsExt, SequencesExt

CONSTANTS
  Quotes,     \* the quotes the lines service may return
  MaxQuotes,  \* how many of them it returns at most
  TeamRows,   \* the sequences of rows the prediction service may return
  Roster,     \* the simulated players, in the payload's order
  PropChance, \* the probabilities a prop row may carry
  Haircut,    \* SINGLE_SIDED_VIG_HAIRCUT, in percent
  MinEv       \* the league's actionable EV, in percent

NoOne == <<"", "">>       \* the subject of a team market: no player, no stat

ASSUME BoundAssumption == MaxQuotes \in Nat /\ Haircut \in Nat /\ MinEv \in Nat
ASSUME QuoteAssumption ==
  \A q \in Quotes : q.odds \in Int /\ (q.odds = 0 \/ q.odds <= -10 \/ q.odds >= 10)
ASSUME ChanceAssumption == PropChance \subseteq 0 .. 100
\* Totals and the lines of props count something; only spreads are signed.
ASSUME LineAssumption ==
  \A q \in Quotes : q.line \in Int /\ (q.market = "SPREAD" \/ q.line >= 0)
ASSUME SubjectAssumption ==
  /\ \A q \in Quotes : q.market # "PLAYER_PROP" => q.who = NoOne
  /\ \A given \in TeamRows : \A i \in DOMAIN given : given[i].who = NoOne
ASSUME OrderAssumption ==
  Roster \in Seq(ToSet(Roster)) /\ \A given \in TeamRows : given \in Seq(ToSet(given))

-----------------------------------------------------------------------------
(***************************************************************************)
(* Prices: american_to_implied_prob and american_to_decimal.               *)
(***************************************************************************)

\* The raw implied probability is num / den, the decimal odds den / num.
Num(q) == IF q.odds < 0 THEN -q.odds ELSE 10
Den(q) == IF q.odds < 0 THEN 10 - q.odds ELSE 10 + q.odds

PaysMore(q, r) == Den(q) * Num(r) > Den(r) * Num(q)

\* The product of the denominators of a market's prices.
Whole(g) == MapThenFoldSet(LAMBDA x, y : x * y, 1, Den, LAMBDA s : CHOOSE q \in s : TRUE, g)

\* The raw probability of q, and the total of all of them, times Whole(g).
Weight(q, g) == Num(q) * Whole(g \ {q})
Overround(g) == MapThenSumSet(LAMBDA q : Weight(q, g), g)

\* _validate: there is a margin to remove.  A lone quote has a flat one.
Devigable(g) == Cardinality(g) = 1 \/ Overround(g) >= Whole(g)

\* A probability of p percent beats q's de-vigged probability.
BeatsFair(p, q, g) ==
  IF Cardinality(g) = 1 THEN p * (100 + Haircut) * Den(q) > 100 * 100 * Num(q)
                        ELSE p * Overround(g) > 100 * Weight(q, g)

\* The expected value, in percent of the stake, is positive; is actionable.
PositiveEv(p, q) == p * Den(q) > 100 * Num(q)
Actionable(p, q) == p * Den(q) - 100 * Num(q) >= MinEv * Num(q)

-----------------------------------------------------------------------------
(***************************************************************************)
(* Markets: _group_markets, over the snapshots f in the order they came.   *)
(***************************************************************************)

\* Of a line, whichever team gives it.
Size(line) == IF line < 0 THEN -line ELSE line

IsProp(q) == q.market = "PLAYER_PROP"

\* Mutant of GroupKey: props of two players share a market.
GroupKeyWithoutPlayer(q) == <<q.book, q.market, Size(q.line)>>

GroupKey(q) == <<q.book, q.market, Size(q.line), q.who>>

SameSlot(q, r) == GroupKey(q) = GroupKey(r) /\ q.side = r.side

\* The snapshots with a price.
Priced(f) == {i \in DOMAIN f : f[i].odds # 0}

\* A later snapshot replaces the earlier one of its market and side.
Current(f) ==
  {f[i] : i \in {i \in Priced(f) : \A j \in Priced(f) : j > i => ~SameSlot(f[i], f[j])}}

Groups(f) == {{r \in Current(f) : GroupKey(r) = GroupKey(q)} : q \in Current(f)}

TwoWay == {{"HOME", "AWAY"}, {"OVER", "UNDER"}, {"YES", "NO"}}

Complete(g) ==
  LET sides == {q.side : q \in g}
  IN  \/ sides \in TwoWay
      \/ sides = {"HOME", "AWAY", "DRAW"} /\ \A q \in g : q.market = "MONEYLINE"
      \/ sides \in {{"YES"}, {"NO"}} /\ \A q \in g : IsProp(q) /\ q.yesno

-----------------------------------------------------------------------------
(***************************************************************************)
(* Predictions: _match_prediction, as the set of at most one probability.  *)
(* The maps it looks into keep the last row of a key.                      *)
(***************************************************************************)

LastOf(rows, Test(_)) ==
  LET found == {i \in DOMAIN rows : Test(rows[i])}
  IN  {rows[i].p : i \in {i \in found : \A j \in found : j <= i}}

SameOutcome(q, r) ==
  q.market = r.market /\ q.side = r.side /\ q.line = r.line /\ q.who = r.who

\* side_map: rows of team markets that name their side, whatever their line.
BySide(rows, q) ==
  IF IsProp(q) THEN {}
  ELSE LastOf(rows, LAMBDA r : r.tagged /\ ~IsProp(r) /\ r.market = q.market /\ r.side = q.side)

\* prop_map for props, prediction_map for team markets: a selection names its
\* side and its line.
ByOutcome(rows, q) == LastOf(rows, LAMBDA r : SameOutcome(q, r))

Matched(rows, q, g) ==
  LET own == IF BySide(rows, q) # {} THEN BySide(rows, q) ELSE ByOutcome(rows, q)
  IN  IF own # {} \/ Cardinality(g) # 2 THEN own
      ELSE UNION {{100 - p : p \in ByOutcome(rows, r)} : r \in g \ {q}}

-----------------------------------------------------------------------------
(***************************************************************************)
(* Edges: _build_candidate and the best price of every outcome.            *)
(***************************************************************************)

\* Mutant of IsEdge: beating the de-vigged probability is enough.
IsEdgeBeforeVig(p, q, g) == p \in 1 .. 99 /\ BeatsFair(p, q, g)

IsEdge(p, q, g) == p \in 1 .. 99 /\ BeatsFair(p, q, g) /\ PositiveEv(p, q)

Edge(p, q) ==
  [book |-> q.book, market |-> q.market, line |-> q.line, side |-> q.side,
   who |-> q.who, odds |-> q.odds, p |-> p, meets |-> Actionable(p, q)]

Candidates(f, rows) ==
  UNION {UNION {{Edge(p, q) : p \in {p \in Matched(rows, q, g) : IsEdge(p, q, g)}} : q \in g} :
         g \in {g \in Groups(f) : Complete(g) /\ Devigable(g)}}

\* Where the market of an edge begins in f: the order detect visits them in.
Start(f, c) == Min({i \in Priced(f) : GroupKey(f[i]) = GroupKey(c)})

\* Mutant of Beats: the first book's price stays, whatever the others pay.
BeatsByOrder(f, c, o) == Start(f, c) < Start(f, o)

\* c is kept and o, the same outcome at another book, is not.
Beats(f, c, o) ==
  PaysMore(c, o) \/ (~PaysMore(o, c) /\ Start(f, c) < Start(f, o))

Detected(f, rows) ==
  LET all == Candidates(f, rows)
  IN  {c \in all : \A o \in all \ {c} : SameOutcome(o, c) => Beats(f, c, o)}

-----------------------------------------------------------------------------
(***************************************************************************)
(* Player props: core/props.py.                                            *)
(***************************************************************************)

\* build_player_bridge: of two players with one slug the first is addressable.
Bridge ==
  {Roster[i] : i \in {i \in DOMAIN Roster : \A j \in 1 .. i - 1 : Roster[j].slug # Roster[i].slug}}

\* build_prop_requests: one for each player, stat, line and side of the lines
\* whose slug and stat the simulation knows; no stats listed means any.
Requests(f) ==
  UNION {{[uuid |-> b.uuid, stat |-> q.who[2], line |-> q.line, side |-> q.side] :
            q \in {q \in ToSet(f) : /\ IsProp(q) /\ q.who[1] = b.slug
                                    /\ b.stats = {} \/ q.who[2] \in b.stats}} : b \in Bridge}

\* rewrite_predictions_to_slugs: rows of players the bridge lacks are dropped.
Rewritten(chance) ==
  LET rowsOf(b) ==
        {[market |-> "PLAYER_PROP", side |-> a.side, line |-> a.line,
          who |-> <<b.slug, a.stat>>, tagged |-> TRUE, p |-> chance[a]] :
           a \in {a \in DOMAIN chance : a.uuid = b.uuid}}
  IN  SetToSeq(UNION {rowsOf(b) : b \in Bridge})

-----------------------------------------------------------------------------
VARIABLES
  pc,     \* "fetch", "props", "detect" and "done"
  feed,   \* the game's line snapshots, in the order of the response
  rows,   \* the prediction rows
  edges   \* what detect returned

vars == <<pc, feed, rows, edges>>

Init ==
  /\ pc = "fetch"
  /\ feed = <<>>
  /\ rows = <<>>
  /\ edges = {}

\* The snapshots and the rows of the team markets arrive.
Fetch ==
  /\ pc = "fetch"
  /\ pc' = "props"
  /\ feed' \in BoundedSeq(Quotes, MaxQuotes)
  /\ rows' \in TeamRows
  /\ UNCHANGED edges

\* The engine answers some of the requests, or, being asked about other
\* players of the roster too, with rows of theirs.
PropRows ==
  /\ pc = "props"
  /\ pc' = "detect"
  /\ \E answered \in SUBSET Requests(feed) :
       \E chance \in [answered -> PropChance] : rows' = rows \o Rewritten(chance)
  /\ UNCHANGED <<feed, edges>>

\* No prop lines, no requests, or any failure: the run goes on without.
NoProps ==
  /\ pc = "props"
  /\ pc' = "detect"
  /\ UNCHANGED <<feed, rows, edges>>

Detect ==
  /\ pc = "detect"
  /\ pc' = "done"
  /\ edges' = Detected(feed, rows)
  /\ UNCHANGED <<feed, rows>>

\* A start time that does not parse: the game has no edges.
SkipGame ==
  /\ pc = "detect"
  /\ pc' = "skipped"
  /\ UNCHANGED <<feed, rows, edges>>

Next == Fetch \/ PropRows \/ NoProps \/ Detect \/ SkipGame

Spec == Init /\ [][Next]_vars

-----------------------------------------------------------------------------
(***************************************************************************)
(* Properties.                                                             *)
(***************************************************************************)

TypeOK ==
  /\ pc \in {"fetch", "props", "detect", "done", "skipped"}
  /\ feed \in BoundedSeq(Quotes, MaxQuotes)
  /\ \A i \in DOMAIN rows : rows[i].p \in 0 .. 100
  /\ \A c \in edges : c.p \in 1 .. 99 /\ c.meets \in BOOLEAN

Opposite(s, t) == s # t /\ {s, t} \in TwoWay

\* The two outcomes of which exactly one happens, whole-number lines aside:
\* what one side of a spread gives, the other takes.
Mirrored(q, r) ==
  /\ q.market = r.market /\ q.who = r.who /\ Opposite(q.side, r.side)
  /\ q.line = IF q.market = "SPREAD" THEN -r.line ELSE r.line

\* The book quoted both teams at the same handicap, so the two alternate lines
\* have fallen into one market.
Crossed(c) ==
  \E i, j \in DOMAIN feed :
    /\ GroupKey(feed[i]) = GroupKey(c) /\ GroupKey(feed[j]) = GroupKey(c)
    /\ Opposite(feed[i].side, feed[j].side)
    /\ feed[i].line # 0 /\ feed[i].line = feed[j].line /\ feed[i].market = "SPREAD"

\* The probability of an edge is one predicted for that very outcome, or the
\* complement of one predicted for its mirror image: never another player's,
\* another stat's or, in a three-way market, what another side leaves over.
\* Rows that name their side stand for every line of it, and the pairing of
\* spreads by the size of their line gives an edge a wrong complement only
\* when the book quotes both teams at one handicap (_match_prediction,
\* _group_markets, core/props.py).
ProbabilityIsItsOwn ==
  \A c \in edges :
    \/ \E i \in DOMAIN rows :
         /\ rows[i].market = c.market /\ rows[i].side = c.side /\ rows[i].who = c.who
         /\ (rows[i].line = c.line \/ (rows[i].tagged /\ ~IsProp(c)))
         /\ c.p = rows[i].p
    \/ \E i \in DOMAIN rows : Mirrored(c, rows[i]) /\ c.p = 100 - rows[i].p
    \/ Crossed(c)

\* When both outcomes of a market are edges, and the probabilities behind them
\* do not exceed one together, the prices of the two books are an arbitrage:
\* otherwise the run bets a game against itself (detect keeps the sides of a
\* market independently of each other).
OppositeEdgesAreArbitrage ==
  \A c, o \in edges :
    Mirrored(c, o) /\ c.p + o.p <= 100 =>
      Num(c) * Den(o) + Num(o) * Den(c) < Den(c) * Den(o)

\* No later snapshot of q's book takes the place of f[i] in its market: the
\* same side of the same line, or of the line of the same size.
Stands(f, i) ==
  \A j \in Priced(f) : j > i =>
    \/ f[j].book # f[i].book \/ f[j].market # f[i].market \/ f[j].side # f[i].side
    \/ f[j].who # f[i].who \/ Size(f[j].line) # Size(f[i].line)

\* The rows that could price q.
RowsFor(q) ==
  {i \in DOMAIN rows : rows[i].market = q.market /\ rows[i].side = q.side /\ rows[i].who = q.who}

\* The best price is found: whenever a book quotes an outcome and its mirror
\* image with a margin, and the one probability predicted for the outcome
\* beats both its fair share of the two prices and its own price, then there
\* is an edge of that outcome that pays at least as much.  The exceptions are
\* markets with a third side (a draw) and a quote the same book replaced, with
\* a later snapshot or with the line of the same size (_group_markets keeps one
\* quote per side).
BestOfferIsKept ==
  pc = "done" =>
    \A i, j \in Priced(feed) : \A k \in DOMAIN rows :
      LET q == feed[i]  r == feed[j]  p == rows[k].p
          mine == Num(q) * Den(r)
          both == mine + Num(r) * Den(q)
      IN  /\ Stands(feed, i) /\ Stands(feed, j)
          /\ q.book = r.book /\ Mirrored(q, r) /\ SameOutcome(q, rows[k])
          /\ RowsFor(q) = {k}
          /\ \A d \in Priced(feed) :
               GroupKey(feed[d]) = GroupKey(q) => feed[d].side \in {q.side, r.side}
          /\ p \in 1 .. 99 /\ both >= Den(q) * Den(r)
          /\ p * both > 100 * mine /\ p * Den(q) > 100 * Num(q)
          => \E c \in edges : SameOutcome(c, q) /\ ~PaysMore(q, c)
=============================================================================
