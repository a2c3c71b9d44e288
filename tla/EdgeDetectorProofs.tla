------------------------- MODULE EdgeDetectorProofs -------------------------
(***************************************************************************)
(* Proofs about EdgeDetector for any quotes, predictions and props: every  *)
(* edge has a positive expected value at a quoted price, and therefore two *)
(* edges on both sides of one outcome are bets that cannot both lose money *)
(* together; the probability behind an edge is its own outcome's; and of   *)
(* the offers worth betting none is passed over for one that pays less.    *)
(***************************************************************************)
EXTENDS EdgeDetector, SequenceTheorems, FiniteSetTheorems, WellFoundedInduction, TLAPS

-----------------------------------------------------------------------------
(***************************************************************************)
(* Arithmetic: n / d is the probability a price implies.                   *)
(***************************************************************************)

LEMMA ProductMonotonic ==
  ASSUME NEW x \in Int, NEW y \in Int, NEW z \in Int, x < y, z > 0
  PROVE  x * z < y * z
OBVIOUS

\* Two chances that beat the prices n1 / d1 and n2 / d2 and do not exceed 100
\* percent together: the prices leave a gap.
LEMMA ChancesBeatPrices ==
  ASSUME NEW p \in Nat, NEW r \in Nat, p + r <= 100,
         NEW n1 \in Nat, NEW n2 \in Nat, NEW d1 \in Nat, NEW d2 \in Nat, d1 > 0, d2 > 0,
         p * d1 > 100 * n1, r * d2 > 100 * n2
  PROVE  n1 * d2 + n2 * d1 < d1 * d2
<1>1. (100 * n1) * d2 < (p * d1) * d2
  BY ProductMonotonic
<1>2. (100 * n2) * d1 < (r * d2) * d1
  BY ProductMonotonic
<1> DEFINE D == d1 * d2
           A == n1 * d2
           B == n2 * d1
<1>3. (100 * n1) * d2 = 100 * A /\ (100 * n2) * d1 = 100 * B
  OBVIOUS
<1>4. (p * d1) * d2 = p * D /\ (r * d2) * d1 = r * D
  OBVIOUS
<1>5. D \in Nat /\ A \in Nat /\ B \in Nat
  OBVIOUS
<1> HIDE DEF D, A, B
<1>6. 100 * A < p * D /\ 100 * B < r * D
  BY <1>1, <1>2, <1>3, <1>4
<1>7. p * D + r * D = (p + r) * D
  BY <1>5
<1>8. (p + r) * D <= 100 * D
  BY <1>5
<1>9. p * D \in Int /\ r * D \in Int
  BY <1>5
<1>10. 100 * A + 100 * B < 100 * D
  BY <1>5, <1>6, <1>7, <1>8, <1>9
<1>11. A + B < D
  BY <1>5, <1>10
<1> QED
  BY <1>11 DEF A, B, D

-----------------------------------------------------------------------------
(***************************************************************************)
(* The invariant.                                                          *)
(***************************************************************************)

QuotedPrice(x) == x.odds \in Int /\ (x.odds <= -10 \/ x.odds >= 10)

FeedOK == \A i \in DOMAIN feed : feed[i] \in Quotes

\* An edge is worth betting at its own price.
EdgesOK == \A c \in edges : QuotedPrice(c) /\ c.p \in 1 .. 99 /\ PositiveEv(c.p, c)

DetectorInv == FeedOK /\ EdgesOK

LEMMA PriceParts ==
  ASSUME NEW x, QuotedPrice(x)
  PROVE  Num(x) \in Nat /\ Den(x) \in Nat /\ Den(x) > 0
BY DEF QuotedPrice, Num, Den

LEMMA CandidateOK ==
  ASSUME FeedOK, NEW preds, NEW c \in Candidates(feed, preds)
  PROVE  QuotedPrice(c) /\ c.p \in 1 .. 99 /\ PositiveEv(c.p, c)
<1>1. PICK g \in Groups(feed) :
        \E q \in g : \E p \in Matched(preds, q, g) : c = Edge(p, q) /\ IsEdge(p, q, g)
  BY DEF Candidates
<1>2. PICK q \in g : \E p \in Matched(preds, q, g) : c = Edge(p, q) /\ IsEdge(p, q, g)
  BY <1>1
<1>3. PICK p \in Matched(preds, q, g) : c = Edge(p, q) /\ IsEdge(p, q, g)
  BY <1>2
<1>4. q \in Current(feed)
  BY <1>2 DEF Groups
<1>5. q \in Quotes /\ q.odds # 0
  BY <1>4 DEF Current, Priced, FeedOK
<1>6. QuotedPrice(q)
  BY <1>5, QuoteAssumption DEF QuotedPrice
<1>7. c.odds = q.odds /\ c.p = p
  BY <1>3 DEF Edge
<1>8. p \in 1 .. 99 /\ PositiveEv(p, q)
  BY <1>3 DEF IsEdge
<1> QED
  BY <1>6, <1>7, <1>8 DEF QuotedPrice, PositiveEv, Num, Den

LEMMA InitInv == Init => DetectorInv
BY DEF Init, DetectorInv, FeedOK, EdgesOK

LEMMA NextInv ==
  ASSUME DetectorInv, [Next]_vars
  PROVE  DetectorInv'
<1>1. CASE Fetch
  <2>1. feed' \in BoundedSeq(Quotes, MaxQuotes) /\ edges' = edges
    BY <1>1 DEF Fetch
  <2>2. FeedOK'
    BY <2>1 DEF FeedOK, BoundedSeq, SeqOf
  <2> QED
    BY <2>1, <2>2 DEF DetectorInv, EdgesOK
<1>2. CASE PropRows \/ NoProps \/ SkipGame \/ UNCHANGED vars
  <2>1. feed' = feed /\ edges' = edges
    BY <1>2 DEF PropRows, NoProps, SkipGame, vars
  <2> QED
    BY <2>1 DEF DetectorInv, FeedOK, EdgesOK
<1>3. CASE Detect
  <2>1. feed' = feed /\ edges' \subseteq Candidates(feed, rows)
    BY <1>3 DEF Detect, Detected
  <2>2. FeedOK'
    BY <2>1 DEF DetectorInv, FeedOK
  <2>3. EdgesOK'
    BY <2>1, CandidateOK DEF DetectorInv, EdgesOK
  <2> QED
    BY <2>2, <2>3 DEF DetectorInv
<1> QED
  BY <1>1, <1>2, <1>3 DEF Next

\* Every edge is bet at a price somebody quoted, with a positive expected value.
THEOREM DetectorInvariant == Spec => []DetectorInv
<1> QED
  BY InitInv, NextInv, PTL DEF Spec

LEMMA InvImpliesArbitrage == DetectorInv => OppositeEdgesAreArbitrage
<1> SUFFICES ASSUME DetectorInv, NEW c \in edges, NEW o \in edges, c.p + o.p <= 100
             PROVE  Num(c) * Den(o) + Num(o) * Den(c) < Den(c) * Den(o)
  BY DEF OppositeEdgesAreArbitrage
<1>1. /\ c.p \in Nat /\ PositiveEv(c.p, c) /\ QuotedPrice(c)
      /\ o.p \in Nat /\ PositiveEv(o.p, o) /\ QuotedPrice(o)
  BY DEF DetectorInv, EdgesOK
<1>2. /\ Num(c) \in Nat /\ Den(c) \in Nat /\ Den(c) > 0
      /\ Num(o) \in Nat /\ Den(o) \in Nat /\ Den(o) > 0
  BY <1>1, PriceParts
<1>3. c.p * Den(c) > 100 * Num(c) /\ o.p * Den(o) > 100 * Num(o)
  BY <1>1 DEF PositiveEv
<1> QED
  BY <1>1, <1>2, <1>3, ChancesBeatPrices

\* A run never bets a game against itself at a loss: when both outcomes of a
\* market are edges, their prices are an arbitrage.
THEOREM OppositeEdges == Spec => []OppositeEdgesAreArbitrage
BY DetectorInvariant, InvImpliesArbitrage, PTL

-----------------------------------------------------------------------------
(***************************************************************************)
(* Whose probability an edge has.                                          *)
(***************************************************************************)

\* The rows are a sequence; those of team markets are about nobody.
RowsOK ==
  /\ rows \in Seq(ToSet(rows))
  /\ \A i \in DOMAIN rows : ~IsProp(rows[i]) => rows[i].who = NoOne

\* A function has finitely many values on a finite set.
LEMMA FiniteImage ==
  ASSUME NEW f, IsFiniteSet(DOMAIN f)
  PROVE  IsFiniteSet({f[x] : x \in DOMAIN f})
<1> DEFINE T == {f[x] : x \in DOMAIN f}
           g == [x \in DOMAIN f |-> f[x]]
<1>1. g \in Surjection(DOMAIN f, T)
  <2>1. g \in [DOMAIN f -> T] /\ \A t \in T : \E x \in DOMAIN f : g[x] = t
    OBVIOUS
  <2> QED
    BY <2>1 DEF Surjection
<1> QED
  BY <1>1, FS_Surjection

\* The elements of a finite set can be put in a sequence.
LEMMA SetToSeqIsSeq ==
  ASSUME NEW S, IsFiniteSet(S)
  PROVE  SetToSeq(S) \in Seq(S)
<1>1. Cardinality(S) \in Nat /\ ExistsBijection(1 .. Cardinality(S), S)
  BY FS_CardinalityType
<1>2. \E f \in [1 .. Cardinality(S) -> S] : IsInjective(f)
  BY <1>1 DEF ExistsBijection, Bijection, Injection
<1>3. SetToSeq(S) \in [1 .. Cardinality(S) -> S]
  BY <1>2 DEF SetToSeq
<1> QED
  BY <1>1, <1>3

\* A sequence has finitely many elements.
LEMMA FiniteElements ==
  ASSUME NEW S, NEW q \in Seq(S)
  PROVE  IsFiniteSet(ToSet(q))
<1>1. DOMAIN q = 1 .. Len(q) /\ Len(q) \in Nat
  OBVIOUS
<1>2. IsFiniteSet(DOMAIN q)
  BY <1>1, FS_Interval
<1> QED
  BY <1>2, FiniteImage DEF ToSet

\* What the prop step appends to the rows is about players.
LEMMA RewrittenAreProps ==
  ASSUME NEW asked, IsFiniteSet(asked), NEW chance \in [asked -> PropChance]
  PROVE  \E S : Rewritten(chance) \in Seq(S) /\ \A r \in S : IsProp(r)
<1> DEFINE row(b, a) == [market |-> "PLAYER_PROP", side |-> a.side, line |-> a.line,
                         who |-> <<b.slug, a.stat>>, tagged |-> TRUE, p |-> chance[a]]
           of(b) == {a \in DOMAIN chance : a.uuid = b.uuid}
           rowsOf(b) == {row(b, a) : a \in of(b)}
           sets == [b \in Bridge |-> rowsOf(b)]
           S == UNION {rowsOf(b) : b \in Bridge}
<1>1. Rewritten(chance) = SetToSeq(S)
  BY DEF Rewritten
<1>2. \A r \in S : IsProp(r)
  BY DEF IsProp
<1>3. IsFiniteSet(Bridge)
  <2>1. Bridge \subseteq ToSet(Roster)
    BY DEF Bridge, ToSet
  <2> QED
    BY <2>1, OrderAssumption, FiniteElements, FS_Subset
<1>4. ASSUME NEW b \in Bridge PROVE IsFiniteSet(rowsOf(b))
  <2> DEFINE f == [a \in of(b) |-> row(b, a)]
  <2>1. IsFiniteSet(of(b))
    <3>1. of(b) \subseteq asked
      OBVIOUS
    <3> QED
      BY <3>1, FS_Subset
  <2>2. DOMAIN f = of(b) /\ rowsOf(b) = {f[a] : a \in DOMAIN f}
    OBVIOUS
  <2> HIDE DEF f, of, row
  <2> QED
    BY <2>1, <2>2, FiniteImage
<1>5. IsFiniteSet({rowsOf(b) : b \in Bridge})
  <2>1. DOMAIN sets = Bridge /\ {rowsOf(b) : b \in Bridge} = {sets[b] : b \in DOMAIN sets}
    OBVIOUS
  <2> HIDE DEF sets, rowsOf
  <2> QED
    BY <1>3, <2>1, FiniteImage
<1>6. IsFiniteSet(S)
  <2> HIDE DEF rowsOf
  <2> QED
    BY <1>4, <1>5, FS_UNION
<1> HIDE DEF S
<1> QED
  BY <1>1, <1>2, <1>6, SetToSeqIsSeq

\* There are finitely many requests.
LEMMA RequestsFinite ==
  ASSUME NEW f, IsFiniteSet(ToSet(f))
  PROVE  IsFiniteSet(Requests(f))
<1> DEFINE request(b, q) == [uuid |-> b.uuid, stat |-> q.who[2], line |-> q.line, side |-> q.side]
           of(b) == {q \in ToSet(f) : /\ IsProp(q) /\ q.who[1] = b.slug
                                      /\ b.stats = {} \/ q.who[2] \in b.stats}
           asked(b) == {request(b, q) : q \in of(b)}
           sets == [b \in Bridge |-> asked(b)]
<1>1. Requests(f) = UNION {asked(b) : b \in Bridge}
  BY DEF Requests
<1>2. IsFiniteSet(Bridge)
  <2>1. Bridge \subseteq ToSet(Roster)
    BY DEF Bridge, ToSet
  <2> QED
    BY <2>1, OrderAssumption, FiniteElements, FS_Subset
<1>3. ASSUME NEW b \in Bridge PROVE IsFiniteSet(asked(b))
  <2> DEFINE g == [q \in of(b) |-> request(b, q)]
  <2>1. IsFiniteSet(of(b))
    <3>1. of(b) \subseteq ToSet(f)
      OBVIOUS
    <3> QED
      BY <3>1, FS_Subset
  <2>2. DOMAIN g = of(b) /\ asked(b) = {g[q] : q \in DOMAIN g}
    OBVIOUS
  <2> HIDE DEF g, of, request
  <2> QED
    BY <2>1, <2>2, FiniteImage
<1>4. IsFiniteSet({asked(b) : b \in Bridge})
  <2>1. DOMAIN sets = Bridge /\ {asked(b) : b \in Bridge} = {sets[b] : b \in DOMAIN sets}
    OBVIOUS
  <2> HIDE DEF sets, asked
  <2> QED
    BY <1>2, <2>1, FiniteImage
<1> HIDE DEF asked
<1> QED
  BY <1>1, <1>3, <1>4, FS_UNION

LEMMA PairHasTwo ==
  ASSUME NEW q, NEW r, q # r
  PROVE  IsFiniteSet({q, r}) /\ Cardinality({q, r}) = 2
<1>1. IsFiniteSet({q}) /\ Cardinality({q}) = 1
  BY FS_Singleton
<1> DEFINE one == {q}
<1>2. r \notin one /\ {q, r} = one \cup {r}
  OBVIOUS
<1>3. IsFiniteSet(one) /\ Cardinality(one) = 1
  BY <1>1
<1> HIDE DEF one
<1>4. Cardinality(one \cup {r}) = 2 /\ IsFiniteSet(one \cup {r})
  BY <1>2, <1>3, FS_AddElement
<1> QED
  BY <1>2, <1>4

LEMMA PairIsBoth ==
  ASSUME NEW g, IsFiniteSet(g), Cardinality(g) = 2, NEW q \in g, NEW r \in g, q # r
  PROVE  g = {q, r}
<1>1. IsFiniteSet({q, r}) /\ Cardinality({q, r}) = 2
  BY PairHasTwo
<1> QED
  BY <1>1, FS_Subset

\* Two sides that make a complete market are opposite.
LEMMA PairIsOpposite ==
  ASSUME NEW g, Complete(g), Cardinality(g) = 2, IsFiniteSet(g), NEW q \in g, NEW r \in g,
         q.side # r.side
  PROVE  Opposite(q.side, r.side)
<1>1. g = {q, r}
  BY PairIsBoth
<1>2. {x.side : x \in g} = {q.side, r.side}
  BY <1>1
<1> QED
  BY <1>2 DEF Complete, Opposite, TwoWay

\* A market has one quote for each side: the last one.
LEMMA OneQuotePerSide ==
  ASSUME feed \in Seq(Quotes), NEW q \in Current(feed), NEW r \in Current(feed),
         GroupKey(q) = GroupKey(r), q # r
  PROVE  q.side # r.side
<1>1. PICK i \in Priced(feed) : q = feed[i] /\ \A j \in Priced(feed) : j > i => ~SameSlot(feed[i], feed[j])
  BY DEF Current
<1>2. PICK j \in Priced(feed) : r = feed[j] /\ \A k \in Priced(feed) : k > j => ~SameSlot(feed[j], feed[k])
  BY DEF Current
<1>3. i \in Nat /\ j \in Nat /\ i # j
  BY <1>1, <1>2 DEF Priced
<1> QED
  BY <1>1, <1>2, <1>3 DEF SameSlot

\* A market is a finite set of current quotes with one key.
LEMMA GroupFacts ==
  ASSUME feed \in Seq(Quotes), NEW g \in Groups(feed)
  PROVE  /\ g \subseteq Current(feed) /\ IsFiniteSet(g)
         /\ \A q, r \in g : GroupKey(q) = GroupKey(r)
<1>1. PICK x \in Current(feed) : g = {r \in Current(feed) : GroupKey(r) = GroupKey(x)}
  BY DEF Groups
<1>2. Current(feed) \subseteq ToSet(feed)
  BY DEF Current, Priced, ToSet
<1>3. IsFiniteSet(g)
  <2>1. IsFiniteSet(ToSet(feed)) /\ g \subseteq ToSet(feed)
    BY <1>1, <1>2, FiniteElements
  <2> QED
    BY <2>1, FS_Subset
<1> QED
  BY <1>1, <1>3

\* What ProbabilityIsItsOwn asks of an edge.
OwnChance(c) ==
  \/ \E i \in DOMAIN rows :
       /\ rows[i].market = c.market /\ rows[i].side = c.side /\ rows[i].who = c.who
       /\ (rows[i].line = c.line \/ (rows[i].tagged /\ ~IsProp(c)))
       /\ c.p = rows[i].p
  \/ \E i \in DOMAIN rows : Mirrored(c, rows[i]) /\ c.p = 100 - rows[i].p
  \/ Crossed(c)

\* The complement of the other side's probability is one of the mirror image,
\* unless the two quotes are of one handicap.
LEMMA ComplementIsItsOwn ==
  ASSUME feed \in Seq(Quotes), NEW g \in Groups(feed), Complete(g), Cardinality(g) = 2,
         NEW q \in g, NEW r \in g \ {q}, NEW i \in DOMAIN rows, SameOutcome(r, rows[i]),
         NEW c, c = Edge(100 - rows[i].p, q)
  PROVE  OwnChance(c)
<1>1. /\ q \in Current(feed) /\ r \in Current(feed) /\ IsFiniteSet(g) /\ GroupKey(q) = GroupKey(r)
  BY GroupFacts
<1>2. Opposite(q.side, r.side)
  BY <1>1, OneQuotePerSide, PairIsOpposite
<1>3. PICK m \in Priced(feed) : q = feed[m]
  BY <1>1 DEF Current
<1>4. PICK n \in Priced(feed) : r = feed[n]
  BY <1>1 DEF Current
<1>5. m \in DOMAIN feed /\ n \in DOMAIN feed /\ q \in Quotes /\ r \in Quotes
  BY <1>3, <1>4 DEF Priced
<1>6. /\ q.market = r.market /\ q.book = r.book /\ q.who = r.who
      /\ Size(q.line) = Size(r.line)
  BY <1>1 DEF GroupKey
<1>7. /\ c.market = q.market /\ c.side = q.side /\ c.who = q.who /\ c.line = q.line
      /\ c.book = q.book /\ c.p = 100 - rows[i].p
  BY DEF Edge
<1>8. /\ rows[i].market = r.market /\ rows[i].side = r.side /\ rows[i].line = r.line
      /\ rows[i].who = r.who
  BY DEF SameOutcome
<1>9. /\ q.line \in Int /\ r.line \in Int
      /\ q.market = "SPREAD" \/ (q.line >= 0 /\ r.line >= 0)
  BY <1>5, <1>6, LineAssumption
<1>10. q.line = r.line \/ q.line = -r.line
  BY <1>6, <1>9 DEF Size
<1>11. CASE q.line = IF q.market = "SPREAD" THEN -r.line ELSE r.line
  <2>1. Mirrored(c, rows[i])
    BY <1>2, <1>6, <1>7, <1>8, <1>11 DEF Mirrored
  <2> QED
    BY <1>7, <2>1 DEF OwnChance
<1>12. CASE ~(q.line = IF q.market = "SPREAD" THEN -r.line ELSE r.line)
  <2>1. q.market = "SPREAD" /\ q.line = r.line /\ q.line # 0
    BY <1>6, <1>9, <1>10, <1>12 DEF Size
  <2>2. GroupKey(c) = GroupKey(q)
    BY <1>7 DEF GroupKey
  <2>3. Crossed(c)
    BY <1>1, <1>2, <1>3, <1>4, <1>5, <2>1, <2>2 DEF Crossed
  <2> QED
    BY <2>3 DEF OwnChance
<1> QED
  BY <1>11, <1>12

\* Every edge that is built has a probability of its own.
LEMMA CandidateIsItsOwn ==
  ASSUME feed \in Seq(Quotes), RowsOK, NEW c \in Candidates(feed, rows)
  PROVE  OwnChance(c)
<1>1. PICK g \in Groups(feed) :
        Complete(g) /\ \E q \in g : \E p \in Matched(rows, q, g) : c = Edge(p, q)
  BY DEF Candidates
<1>2. PICK q \in g : \E p \in Matched(rows, q, g) : c = Edge(p, q)
  BY <1>1
<1>3. PICK p \in Matched(rows, q, g) : c = Edge(p, q)
  BY <1>2
<1>4. /\ c.market = q.market /\ c.side = q.side /\ c.who = q.who /\ c.line = q.line /\ c.p = p
  BY <1>3 DEF Edge
<1>5. q \in Quotes
  BY <1>2, GroupFacts DEF Current, Priced
<1>6. CASE p \in BySide(rows, q)
  <2>1. ~IsProp(q)
    BY <1>6 DEF BySide
  <2>2. PICK i \in DOMAIN rows : /\ rows[i].tagged /\ ~IsProp(rows[i])
                                 /\ rows[i].market = q.market /\ rows[i].side = q.side
                                 /\ p = rows[i].p
    BY <1>6, <2>1 DEF BySide, LastOf
  <2>3. rows[i].who = q.who
    BY <1>5, <2>1, <2>2, SubjectAssumption DEF RowsOK, IsProp
  <2>4. ~IsProp(c)
    BY <1>4, <2>1 DEF IsProp
  <2> QED
    BY <1>4, <2>2, <2>3, <2>4 DEF OwnChance
<1>7. CASE p \in ByOutcome(rows, q)
  <2>1. PICK i \in DOMAIN rows : SameOutcome(q, rows[i]) /\ p = rows[i].p
    BY <1>7 DEF ByOutcome, LastOf
  <2> QED
    BY <1>4, <2>1 DEF OwnChance, SameOutcome
<1>8. CASE p \notin BySide(rows, q) \cup ByOutcome(rows, q)
  <2>1. PICK r \in g \ {q} : Cardinality(g) = 2 /\ \E x \in ByOutcome(rows, r) : p = 100 - x
    BY <1>8 DEF Matched
  <2>2. PICK i \in DOMAIN rows : SameOutcome(r, rows[i]) /\ p = 100 - rows[i].p
    BY <2>1 DEF ByOutcome, LastOf
  <2> QED
    BY <1>1, <1>3, <2>1, <2>2, ComplementIsItsOwn
<1> QED
  BY <1>6, <1>7, <1>8

\* The quotes are given ones, the rows in order; what is built is built of them.
ChanceInv ==
  /\ feed \in Seq(Quotes) /\ RowsOK
  /\ pc # "done" => edges = {}
  /\ edges \subseteq Candidates(feed, rows)

LEMMA ChanceInit == Init => ChanceInv
BY DEF Init, ChanceInv, RowsOK, ToSet

LEMMA ChanceNext ==
  ASSUME ChanceInv, [Next]_vars
  PROVE  ChanceInv'
<1>1. CASE Fetch
  <2>1. /\ pc = "fetch" /\ feed' \in BoundedSeq(Quotes, MaxQuotes) /\ rows' \in TeamRows
        /\ edges' = edges
    BY <1>1 DEF Fetch
  <2>2. feed' \in Seq(Quotes)
    BY <2>1, BoundAssumption DEF BoundedSeq, SeqOf
  <2>3. RowsOK'
    BY <2>1, OrderAssumption, SubjectAssumption DEF RowsOK
  <2>4. edges' = {}
    BY <2>1 DEF ChanceInv
  <2> QED
    BY <2>2, <2>3, <2>4 DEF ChanceInv
<1>2. CASE PropRows
  <2>1. PICK answered \in SUBSET Requests(feed) :
          \E chance \in [answered -> PropChance] : rows' = rows \o Rewritten(chance)
    BY <1>2 DEF PropRows
  <2>2. PICK chance \in [answered -> PropChance] : rows' = rows \o Rewritten(chance)
    BY <2>1
  <2>3. IsFiniteSet(answered)
    BY <2>1, FiniteElements, RequestsFinite, FS_Subset DEF ChanceInv
  <2>4. PICK S : Rewritten(chance) \in Seq(S) /\ \A r \in S : IsProp(r)
    BY <2>3, RewrittenAreProps
  <2> DEFINE added == Rewritten(chance)
             T == ToSet(rows) \cup S
  <2> HIDE DEF added
  <2>5. /\ rows \in Seq(T) /\ added \in Seq(T) /\ rows' = rows \o added
        /\ \A i \in 1 .. Len(added) : IsProp(added[i])
    <3>1. rows \in Seq(ToSet(rows)) /\ added \in Seq(S)
      BY <2>4 DEF ChanceInv, RowsOK, added
    <3> QED
      BY <2>2, <2>4, <3>1 DEF added
  <2> HIDE DEF T
  <2>6. /\ rows' \in Seq(T) /\ Len(rows') = Len(rows) + Len(added)
        /\ \A i \in 1 .. Len(rows') : rows'[i] = IF i <= Len(rows) THEN rows[i] ELSE added[i - Len(rows)]
    BY <2>5, ConcatProperties
  <2>7. ASSUME NEW i \in DOMAIN rows', ~IsProp(rows'[i]) PROVE rows'[i].who = NoOne
    <3>1. /\ DOMAIN rows' = 1 .. Len(rows') /\ Len(rows) \in Nat /\ Len(added) \in Nat
          /\ DOMAIN rows = 1 .. Len(rows)
      BY <2>5, <2>6
    <3>2. CASE i <= Len(rows)
      <4>1. i \in DOMAIN rows /\ rows'[i] = rows[i]
        BY <2>6, <3>1, <3>2
      <4> QED
        BY <2>7, <4>1 DEF ChanceInv, RowsOK
    <3>3. CASE ~(i <= Len(rows))
      <4>1. i - Len(rows) \in 1 .. Len(added) /\ rows'[i] = added[i - Len(rows)]
        BY <2>6, <3>1, <3>3
      <4> QED
        BY <2>5, <2>7, <4>1
    <3> QED
      BY <3>2, <3>3
  <2>8. rows' \in Seq(ToSet(rows'))
    BY <2>6 DEF ToSet
  <2>9. feed' = feed /\ edges' = {}
    BY <1>2 DEF PropRows, ChanceInv
  <2> QED
    BY <2>7, <2>8, <2>9 DEF ChanceInv, RowsOK
<1>3. CASE NoProps \/ SkipGame
  <2>1. UNCHANGED <<feed, rows, edges>> /\ edges = {}
    BY <1>3 DEF NoProps, SkipGame, ChanceInv
  <2> QED
    BY <2>1 DEF ChanceInv, RowsOK
<1>4. CASE Detect
  <2>1. UNCHANGED <<feed, rows>> /\ edges' \subseteq Candidates(feed, rows) /\ pc' = "done"
    BY <1>4 DEF Detect, Detected
  <2> QED
    BY <2>1 DEF ChanceInv, RowsOK
<1>5. CASE UNCHANGED vars
  BY <1>5 DEF vars, ChanceInv, RowsOK
<1> QED
  BY <1>1, <1>2, <1>3, <1>4, <1>5 DEF Next

\* No edge is ever priced by the probability of another player, stat or
\* outcome, or by a complement that is not one, but for Crossed: for any
\* quotes, rows, players and answers of the prediction service.
THEOREM OwnProbabilities == Spec => []ProbabilityIsItsOwn
<1>1. ChanceInv => ProbabilityIsItsOwn
  BY CandidateIsItsOwn DEF ChanceInv, ProbabilityIsItsOwn, OwnChance
<1>2. Spec => []ChanceInv
  BY ChanceInit, ChanceNext, PTL DEF Spec
<1> QED
  BY <1>1, <1>2, PTL

-----------------------------------------------------------------------------
(***************************************************************************)
(* Least elements, and induction over a set of numbers.                    *)
(***************************************************************************)

LEMMA LeastNumber ==
  ASSUME NEW T \in SUBSET Nat, T # {}
  PROVE  \E x \in T : \A y \in T : x <= y
<1> DEFINE R == OpToRel(<, Nat)
<1>1. IsWellFoundedOn(R, Nat) /\ T \subseteq Nat
  BY NatLessThanWellFounded
<1> HIDE DEF R
<1>2. PICK x \in T : \A y \in T : <<y, x>> \notin R
  BY <1>1, WFMin
<1>3. \A y \in T : ~(y < x)
  BY <1>2 DEF R, OpToRel
<1> QED
  BY <1>3

LEMMA UpwardInduction ==
  ASSUME NEW N, 0 \in N, \A n \in Nat : n \in N => n + 1 \in N
  PROVE  Nat \subseteq N
<1> SUFFICES ASSUME Nat \ N # {} PROVE FALSE
  OBVIOUS
<1>1. PICK x \in Nat \ N : \A y \in Nat \ N : x <= y
  BY LeastNumber
<1>2. x - 1 \in Nat /\ x - 1 \in N /\ x = (x - 1) + 1
  BY <1>1
<1> QED
  BY <1>1, <1>2

-----------------------------------------------------------------------------
(***************************************************************************)
(* The prices of two quotes, and the better of them.                       *)
(***************************************************************************)

LEMMA PositiveParts ==
  ASSUME NEW x, QuotedPrice(x)
  PROVE  Num(x) \in Nat \ {0} /\ Den(x) \in Nat \ {0}
BY DEF QuotedPrice, Num, Den

\* d1 / n1 > d2 / n2 >= d3 / n3.
LEMMA FractionsCompare ==
  ASSUME NEW n1 \in Nat \ {0}, NEW d1 \in Nat \ {0}, NEW n2 \in Nat \ {0}, NEW d2 \in Nat \ {0},
         NEW n3 \in Nat \ {0}, NEW d3 \in Nat \ {0}, d1 * n2 > d2 * n1, ~(d3 * n2 > d2 * n3)
  PROVE  d1 * n3 > d3 * n1
<1>1. (d2 * n1) * n3 < (d1 * n2) * n3
  <2>1. d2 * n1 \in Int /\ d1 * n2 \in Int
    OBVIOUS
  <2> QED
    BY <2>1, ProductMonotonic
<1>2. (d3 * n2) * n1 <= (d2 * n3) * n1
  <2> DEFINE x == d3 * n2
             y == d2 * n3
  <2>1. x \in Int /\ y \in Int /\ x <= y
    OBVIOUS
  <2> HIDE DEF x, y
  <2>2. x = y \/ x * n1 < y * n1
    BY <2>1, ProductMonotonic
  <2>3. x * n1 \in Int /\ y * n1 \in Int
    BY <2>1
  <2>4. x * n1 <= y * n1
    BY <2>2, <2>3
  <2> QED
    BY <2>4 DEF x, y
<1> DEFINE a == d1 * n3
           b == d3 * n1
<1>3. (d1 * n2) * n3 = a * n2 /\ (d3 * n2) * n1 = b * n2 /\ (d2 * n1) * n3 = (d2 * n3) * n1
  OBVIOUS
<1>4. a \in Int /\ b \in Int /\ (d2 * n3) * n1 \in Int
  OBVIOUS
<1> HIDE DEF a, b
<1>5. b * n2 \in Int /\ a * n2 \in Int
  BY <1>4
<1>6. b * n2 < a * n2
  BY <1>1, <1>2, <1>3, <1>4, <1>5
<1>7. a > b
  <2> SUFFICES ASSUME a <= b PROVE FALSE
    BY <1>4
  <2>1. a = b \/ a * n2 < b * n2
    BY <1>4, ProductMonotonic
  <2> QED
    BY <1>5, <1>6, <2>1
<1> QED
  BY <1>7 DEF a, b

LEMMA PaysMoreOrder ==
  ASSUME NEW x, QuotedPrice(x), NEW y, QuotedPrice(y)
  PROVE  /\ PaysMore(x, y) => ~PaysMore(y, x)
         /\ \A z : QuotedPrice(z) /\ PaysMore(x, y) /\ ~PaysMore(z, y) => PaysMore(x, z)
<1>1. Num(x) \in Nat \ {0} /\ Den(x) \in Nat \ {0} /\ Num(y) \in Nat \ {0} /\ Den(y) \in Nat \ {0}
  BY PositiveParts
<1>2. PaysMore(x, y) => ~PaysMore(y, x)
  <2>1. Den(x) * Num(y) \in Int /\ Den(y) * Num(x) \in Int
    BY <1>1
  <2> QED
    BY <2>1 DEF PaysMore
<1>3. ASSUME NEW z, QuotedPrice(z), PaysMore(x, y), ~PaysMore(z, y) PROVE PaysMore(x, z)
  <2>1. Num(z) \in Nat \ {0} /\ Den(z) \in Nat \ {0}
    BY <1>3, PositiveParts
  <2>2. Den(x) * Num(y) > Den(y) * Num(x) /\ ~(Den(z) * Num(y) > Den(y) * Num(z))
    BY <1>3 DEF PaysMore
  <2>3. Den(x) * Num(z) > Den(z) * Num(x)
    BY <1>1, <2>1, <2>2, FractionsCompare
  <2> QED
    BY <2>3 DEF PaysMore
<1> QED
  BY <1>2, <1>3

\* Of finitely many offers, no two of one market, one beats all the others.
LEMMA BestExists ==
  ASSUME NEW A, A # {}, NEW f, NEW bound \in Nat,
         \A c \in A : QuotedPrice(c) /\ Start(f, c) \in Nat /\ Start(f, c) <= bound,
         \A c, o \in A : c # o => Start(f, c) # Start(f, o)
  PROVE  \E c \in A : \A o \in A \ {c} : Beats(f, c, o)
<1> DEFINE upTo(n) == {c \in A : Start(f, c) <= n}
           Best(n) == \E c \in upTo(n) : \A o \in upTo(n) \ {c} : Beats(f, c, o)
           N == {n \in Nat : upTo(n) = {} \/ Best(n)}
<1>1. 0 \in N
  <2>1. \A c, o \in upTo(0) : c = o
    OBVIOUS
  <2> QED
    BY <2>1
<1>2. ASSUME NEW n \in Nat, n \in N PROVE n + 1 \in N
  <2>1. CASE upTo(n + 1) = upTo(n)
    BY <1>2, <2>1
  <2>2. CASE upTo(n + 1) # upTo(n)
    <3>1. PICK d \in A : Start(f, d) = n + 1
      BY <2>2
    <3>2. upTo(n + 1) = upTo(n) \cup {d} /\ d \notin upTo(n) /\ d \in upTo(n + 1)
      BY <3>1
    <3>3. CASE upTo(n) = {}
      BY <3>2, <3>3
    <3>4. CASE upTo(n) # {}
      <4>1. PICK c \in upTo(n) : \A o \in upTo(n) \ {c} : Beats(f, c, o)
        BY <1>2, <3>4
      <4>2. c \in A /\ QuotedPrice(c) /\ QuotedPrice(d) /\ Start(f, c) < Start(f, d)
        BY <3>1, <4>1
      <4>3. CASE Beats(f, c, d)
        <5>1. \A o \in upTo(n + 1) \ {c} : Beats(f, c, o)
          BY <3>2, <4>1, <4>3
        <5> QED
          BY <3>2, <4>1, <5>1
      <4>4. CASE ~Beats(f, c, d)
        <5>1. PaysMore(d, c)
          BY <4>2, <4>4 DEF Beats
        <5>2. ASSUME NEW o \in upTo(n) PROVE PaysMore(d, o)
          <6>1. CASE o = c
            BY <5>1, <6>1
          <6>2. CASE o # c
            <7>1. QuotedPrice(o) /\ Beats(f, c, o)
              BY <4>1, <6>2
            <7>2. ~PaysMore(o, c)
              BY <4>2, <7>1, PaysMoreOrder DEF Beats
            <7> QED
              BY <4>2, <5>1, <7>1, <7>2, PaysMoreOrder
          <6> QED
            BY <6>1, <6>2
        <5>3. \A o \in upTo(n + 1) \ {d} : Beats(f, d, o)
          BY <3>2, <5>2 DEF Beats
        <5> QED
          BY <3>2, <5>3
      <4> QED
        BY <4>3, <4>4
    <3> QED
      BY <3>3, <3>4
  <2> QED
    BY <2>1, <2>2
<1>3. bound \in N
  <2> HIDE DEF N
  <2> QED
    BY <1>1, <1>2, UpwardInduction
<1>4. upTo(bound) = A
  OBVIOUS
<1> QED
  BY <1>3, <1>4

-----------------------------------------------------------------------------
(***************************************************************************)
(* What the markets of two sides weigh.                                    *)
(***************************************************************************)

Drawn(s) == CHOOSE x \in s : TRUE

\* t is the product of the denominators, or the sum of the weights in g, of
\* every part of S.
Multiplies(t, S) ==
  t = [s \in SUBSET S |-> IF s = {} THEN 1 ELSE Den(Drawn(s)) * t[s \ {Drawn(s)}]]
AddsUp(t, g) ==
  t = [s \in SUBSET g |-> IF s = {} THEN 0 ELSE Weight(Drawn(s), g) + t[s \ {Drawn(s)}]]

LEMMA DrawnFromOne ==
  ASSUME NEW q
  PROVE  Drawn({q}) = q /\ {q} \ {Drawn({q})} = {}
BY DEF Drawn

LEMMA DrawnFromTwo ==
  ASSUME NEW q, NEW r, q # r
  PROVE  \/ Drawn({q, r}) = q /\ {q, r} \ {Drawn({q, r})} = {r}
         \/ Drawn({q, r}) = r /\ {q, r} \ {Drawn({q, r})} = {q}
<1>1. Drawn({q, r}) \in {q, r}
  <2>1. \E x \in {q, r} : TRUE
    OBVIOUS
  <2> QED
    BY <2>1 DEF Drawn
<1>2. {q, r} \ {q} = {r} /\ {q, r} \ {r} = {q}
  OBVIOUS
<1> QED
  BY <1>1, <1>2

LEMMA WholeOfOne ==
  ASSUME NEW q, Den(q) \in Nat
  PROVE  Whole({q}) = Den(q)
<1> DEFINE g == {q}
           w == [s \in SUBSET g |-> IF s = {} THEN 1 ELSE Den(q)]
<1>1. {} \in SUBSET g /\ g \in SUBSET g /\ g # {} /\ \A s \in SUBSET g : s = {} \/ s = g
  OBVIOUS
<1>2. Drawn(g) = q /\ g \ {Drawn(g)} = {}
  BY DrawnFromOne
<1>3. Multiplies(w, g)
  <2>1. w[{}] = 1 /\ w[g] = Den(q) /\ Den(q) * 1 = Den(q)
    OBVIOUS
  <2>2. w = [s \in SUBSET g |-> w[s]]
    OBVIOUS
  <2> HIDE DEF w, g
  <2>3. w[g] = Den(Drawn(g)) * w[g \ {Drawn(g)}]
    BY <1>2, <2>1
  <2>4. \A s \in SUBSET g : w[s] = IF s = {} THEN 1 ELSE Den(Drawn(s)) * w[s \ {Drawn(s)}]
    BY <1>1, <2>1, <2>3
  <2> QED
    BY <2>2, <2>4 DEF Multiplies
<1>4. PICK t : Multiplies(t, g) /\ Whole(g) = t[g]
  <2> HIDE DEF w, g
  <2>1. \E t : Multiplies(t, g)
    BY <1>3
  <2> QED
    BY <2>1 DEF Whole, MapThenFoldSet, Multiplies, Drawn
<1> HIDE DEF w, g
<1>5. \A s \in SUBSET g : t[s] = IF s = {} THEN 1 ELSE Den(Drawn(s)) * t[s \ {Drawn(s)}]
  BY <1>4 DEF Multiplies
<1>6. t[{}] = 1 /\ t[g] = Den(q) * t[{}]
  BY <1>1, <1>2, <1>5
<1> QED
  BY <1>4, <1>6 DEF g

\* What is below is about any two numbers a and b that belong to q and r.
TwoParts(q, r, g) ==
  /\ {} \in SUBSET g /\ {q} \in SUBSET g /\ {r} \in SUBSET g /\ g \in SUBSET g
  /\ {q} # {} /\ {r} # {} /\ g # {} /\ {q} # {r} /\ {q} # g /\ {r} # g
  /\ \A s \in SUBSET g : s = {} \/ s = {q} \/ s = {r} \/ s = g
  /\ Drawn({q}) = q /\ {q} \ {Drawn({q})} = {}
  /\ Drawn({r}) = r /\ {r} \ {Drawn({r})} = {}
  /\ \/ Drawn(g) = q /\ g \ {Drawn(g)} = {r}
     \/ Drawn(g) = r /\ g \ {Drawn(g)} = {q}

LEMMA PartsOfTwo ==
  ASSUME NEW q, NEW r, q # r
  PROVE  TwoParts(q, r, {q, r})
<1>1. \A s \in SUBSET {q, r} : s = {} \/ s = {q} \/ s = {r} \/ s = {q, r}
  OBVIOUS
<1>2. {q} # {r} /\ {q} # {q, r} /\ {r} # {q, r} /\ {q} # {} /\ {r} # {} /\ {q, r} # {}
  OBVIOUS
<1>3. {} \in SUBSET {q, r} /\ {q} \in SUBSET {q, r} /\ {r} \in SUBSET {q, r}
  OBVIOUS
<1> QED
  BY <1>1, <1>2, <1>3, DrawnFromOne, DrawnFromTwo DEF TwoParts

LEMMA WholeOfTwo ==
  ASSUME NEW q, NEW r, q # r, Den(q) \in Nat, Den(r) \in Nat
  PROVE  Whole({q, r}) = Den(q) * Den(r)
<1> DEFINE g == {q, r}
           a == Den(q)
           b == Den(r)
           w == [s \in SUBSET g |-> IF s = {} THEN 1 ELSE IF s = {q} THEN a
                                    ELSE IF s = {r} THEN b ELSE a * b]
<1>1. TwoParts(q, r, g)
  BY PartsOfTwo
<1>2. a * b = b * a /\ a * 1 = a /\ b * 1 = b
  OBVIOUS
<1>3. w = [s \in SUBSET g |-> w[s]]
  OBVIOUS
<1> HIDE DEF g
<1>4. w[{}] = 1 /\ w[{q}] = a /\ w[{r}] = b /\ w[g] = a * b
  BY <1>1 DEF TwoParts
<1> HIDE DEF w, a, b
<1>5. a = Den(q) /\ b = Den(r)
  BY DEF a, b
<1>6. Multiplies(w, g)
  <2>1. ASSUME NEW s \in SUBSET g
        PROVE  w[s] = IF s = {} THEN 1 ELSE Den(Drawn(s)) * w[s \ {Drawn(s)}]
    BY <1>1, <1>2, <1>4, <1>5 DEF TwoParts
  <2> QED
    BY <1>3, <2>1 DEF Multiplies
<1>7. PICK t : Multiplies(t, g) /\ Whole(g) = t[g]
  <2>1. \E t : Multiplies(t, g)
    BY <1>6
  <2> QED
    BY <2>1 DEF Whole, MapThenFoldSet, Multiplies, Drawn
<1>8. \A s \in SUBSET g : t[s] = IF s = {} THEN 1 ELSE Den(Drawn(s)) * t[s \ {Drawn(s)}]
  BY <1>7 DEF Multiplies
<1>9. t[{}] = 1
  BY <1>1, <1>8 DEF TwoParts
<1>10. t[{q}] = a /\ t[{r}] = b
  BY <1>1, <1>2, <1>5, <1>8, <1>9 DEF TwoParts
<1>11. t[g] = Den(Drawn(g)) * t[g \ {Drawn(g)}]
  BY <1>1, <1>8 DEF TwoParts
<1>12. t[g] = a * b
  BY <1>1, <1>2, <1>5, <1>10, <1>11 DEF TwoParts
<1> QED
  BY <1>5, <1>7, <1>12 DEF g

LEMMA OverroundOfTwo ==
  ASSUME NEW q, NEW r, q # r, QuotedPrice(q), QuotedPrice(r)
  PROVE  /\ Weight(q, {q, r}) = Num(q) * Den(r)
         /\ Overround({q, r}) = Num(q) * Den(r) + Num(r) * Den(q)
<1> DEFINE g == {q, r}
           a == Weight(q, g)
           b == Weight(r, g)
           w == [s \in SUBSET g |-> IF s = {} THEN 0 ELSE IF s = {q} THEN a
                                    ELSE IF s = {r} THEN b ELSE a + b]
<1>1. a = Num(q) * Den(r) /\ b = Num(r) * Den(q) /\ a \in Nat /\ b \in Nat
  <2>1. Num(q) \in Nat /\ Den(q) \in Nat /\ Num(r) \in Nat /\ Den(r) \in Nat
    BY PriceParts
  <2>2. {q, r} \ {q} = {r} /\ {q, r} \ {r} = {q}
    OBVIOUS
  <2>3. a = Num(q) * Den(r) /\ b = Num(r) * Den(q)
    BY <2>1, <2>2, WholeOfOne DEF Weight
  <2> QED
    BY <2>1, <2>3
<1>2. TwoParts(q, r, g)
  BY PartsOfTwo
<1>3. w = [s \in SUBSET g |-> w[s]]
  OBVIOUS
<1> HIDE DEF a, b, g
<1>4. w[{}] = 0 /\ w[{q}] = a /\ w[{r}] = b /\ w[g] = a + b
  BY <1>2 DEF TwoParts
<1> HIDE DEF w
<1>5. a = Weight(q, g) /\ b = Weight(r, g)
  BY DEF a, b
<1>6. AddsUp(w, g)
  <2>1. ASSUME NEW s \in SUBSET g
        PROVE  w[s] = IF s = {} THEN 0 ELSE Weight(Drawn(s), g) + w[s \ {Drawn(s)}]
    BY <1>1, <1>2, <1>4, <1>5 DEF TwoParts
  <2> QED
    BY <1>3, <2>1 DEF AddsUp
<1>7. PICK t : AddsUp(t, g) /\ Overround(g) = t[g]
  <2>1. \E t : AddsUp(t, g)
    BY <1>6
  <2> QED
    BY <2>1 DEF Overround, MapThenSumSet, MapThenFoldSet, AddsUp, Drawn
<1>8. \A s \in SUBSET g : t[s] = IF s = {} THEN 0 ELSE Weight(Drawn(s), g) + t[s \ {Drawn(s)}]
  BY <1>7 DEF AddsUp
<1>9. t[{}] = 0
  BY <1>2, <1>8 DEF TwoParts
<1>10. t[{q}] = a /\ t[{r}] = b
  <2>1. t[{q}] = a + 0 /\ t[{r}] = b + 0
    BY <1>2, <1>5, <1>8, <1>9 DEF TwoParts
  <2> QED
    BY <1>1, <2>1
<1>11. t[g] = Weight(Drawn(g), g) + t[g \ {Drawn(g)}]
  BY <1>2, <1>8 DEF TwoParts
<1>12. t[g] = a + b
  <2>1. t[g] = a + b \/ t[g] = b + a
    BY <1>2, <1>5, <1>10, <1>11 DEF TwoParts
  <2> QED
    BY <1>1, <2>1
<1> QED
  BY <1>1, <1>5, <1>7, <1>12 DEF g

-----------------------------------------------------------------------------
(***************************************************************************)
(* The best offer.                                                         *)
(***************************************************************************)

\* A market is all the current quotes with the key of any of its quotes.
LEMMA GroupIs ==
  ASSUME NEW g \in Groups(feed), NEW q \in g
  PROVE  g = {r \in Current(feed) : GroupKey(r) = GroupKey(q)}
BY DEF Groups

LEMMA CurrentIsQuoted ==
  ASSUME feed \in Seq(Quotes), NEW q \in Current(feed)
  PROVE  q \in Quotes /\ QuotedPrice(q)
<1>1. q \in Quotes /\ q.odds # 0
  BY DEF Current, Priced
<1> QED
  BY <1>1, QuoteAssumption DEF QuotedPrice

\* What an edge is made of.
LEMMA CandidateSource ==
  ASSUME feed \in Seq(Quotes), NEW c \in Candidates(feed, rows)
  PROVE  \E g \in Groups(feed) : \E q \in g : \E p \in Matched(rows, q, g) :
           q \in Current(feed) /\ c = Edge(p, q)
<1>1. PICK g \in Groups(feed) : \E q \in g : \E p \in Matched(rows, q, g) : c = Edge(p, q)
  BY DEF Candidates
<1>2. g \subseteq Current(feed)
  BY GroupFacts
<1> QED
  BY <1>1, <1>2

LEMMA LastIsOne ==
  ASSUME RowsOK, NEW q
  PROVE  /\ \A x, y \in BySide(rows, q) : x = y
         /\ \A x, y \in ByOutcome(rows, q) : x = y
<1>1. DOMAIN rows \subseteq Int
  BY DEF RowsOK
<1>2. \A i, j \in DOMAIN rows : i <= j /\ j <= i => i = j
  BY <1>1
<1> QED
  BY <1>2 DEF BySide, ByOutcome, LastOf

\* At most one probability is matched with a quote.
LEMMA OnePrediction ==
  ASSUME feed \in Seq(Quotes), RowsOK, NEW g \in Groups(feed), NEW q \in g,
         NEW x \in Matched(rows, q, g), NEW y \in Matched(rows, q, g)
  PROVE  x = y
<1> DEFINE own == IF BySide(rows, q) # {} THEN BySide(rows, q) ELSE ByOutcome(rows, q)
<1>1. CASE own # {} \/ Cardinality(g) # 2
  <2>1. x \in own /\ y \in own
    BY <1>1 DEF Matched
  <2> QED
    BY <2>1, LastIsOne
<1>2. CASE ~(own # {} \/ Cardinality(g) # 2)
  <2>1. /\ \E r \in g \ {q} : \E z \in ByOutcome(rows, r) : x = 100 - z
        /\ \E r \in g \ {q} : \E z \in ByOutcome(rows, r) : y = 100 - z
    BY <1>2 DEF Matched
  <2>2. \A r, s \in g \ {q} : r = s
    <3>1. IsFiniteSet(g) /\ Cardinality(g) = 2
      BY <1>2, GroupFacts
    <3> QED
      BY <3>1, PairIsBoth
  <2> QED
    BY <2>1, <2>2, LastIsOne
<1> QED
  BY <1>1, <1>2

\* A book has one edge of an outcome.
LEMMA OneEdgePerBook ==
  ASSUME feed \in Seq(Quotes), RowsOK, NEW c \in Candidates(feed, rows),
         NEW o \in Candidates(feed, rows), SameOutcome(c, o), c.book = o.book
  PROVE  c = o
<1>1. PICK g \in Groups(feed), q \in Current(feed) :
        q \in g /\ \E p \in Matched(rows, q, g) : c = Edge(p, q)
  BY CandidateSource
<1>2. PICK h \in Groups(feed), r \in Current(feed) :
        r \in h /\ \E p \in Matched(rows, r, h) : o = Edge(p, r)
  BY CandidateSource
<1>3. /\ q.market = r.market /\ q.side = r.side /\ q.line = r.line /\ q.who = r.who
      /\ q.book = r.book
  BY <1>1, <1>2 DEF Edge, SameOutcome
<1>4. GroupKey(q) = GroupKey(r)
  BY <1>3 DEF GroupKey
<1>5. q = r
  BY <1>3, <1>4, OneQuotePerSide
<1>6. g = h
  <2>1. g = {x \in Current(feed) : GroupKey(x) = GroupKey(q)}
    BY <1>1, GroupIs
  <2>2. h = {x \in Current(feed) : GroupKey(x) = GroupKey(r)}
    BY <1>2, GroupIs
  <2> QED
    BY <2>1, <2>2, <1>4
<1>7. PICK p \in Matched(rows, q, g) : c = Edge(p, q)
  BY <1>1
<1>8. PICK u \in Matched(rows, q, g) : o = Edge(u, q)
  BY <1>2, <1>5, <1>6
<1>9. q \in g /\ p = u
  BY <1>1, OnePrediction
<1> QED
  BY <1>7, <1>8, <1>9

\* The market of an edge begins where a quote of it does.
LEMMA StartFacts ==
  ASSUME feed \in Seq(Quotes), NEW c \in Candidates(feed, rows)
  PROVE  Start(feed, c) \in Priced(feed) /\ GroupKey(feed[Start(feed, c)]) = GroupKey(c)
<1> DEFINE S == {i \in Priced(feed) : GroupKey(feed[i]) = GroupKey(c)}
<1>1. PICK q \in Current(feed) : \E p : c = Edge(p, q)
  BY CandidateSource
<1>2. GroupKey(c) = GroupKey(q)
  BY <1>1 DEF GroupKey, Edge
<1>3. \E i \in Priced(feed) : q = feed[i]
  BY DEF Current
<1>4. S # {} /\ S \in SUBSET Nat
  BY <1>2, <1>3 DEF Priced
<1> HIDE DEF S
<1>5. Min(S) \in S
  BY <1>4, LeastNumber DEF Min
<1> QED
  BY <1>5 DEF Start, S

\* Of all the edges of one outcome, one is kept, and none pays more.
LEMMA BestIsDetected ==
  ASSUME feed \in Seq(Quotes), RowsOK, NEW b \in Candidates(feed, rows)
  PROVE  \E c \in Detected(feed, rows) : SameOutcome(c, b) /\ ~PaysMore(b, c)
<1> DEFINE all == Candidates(feed, rows)
           A == {c \in all : SameOutcome(c, b)}
<1>1. /\ A # {} /\ A \subseteq all /\ \A c \in A : SameOutcome(c, b)
      /\ \A o \in all : (\E c \in A : SameOutcome(o, c)) => o \in A
  BY DEF SameOutcome
<1>2. \A c \in A : QuotedPrice(c) /\ Start(feed, c) \in Nat /\ Start(feed, c) <= Len(feed)
  <2>1. FeedOK
    BY DEF FeedOK
  <2>2. Priced(feed) \subseteq 1 .. Len(feed) /\ Len(feed) \in Nat
    BY DEF Priced
  <2> QED
    BY <2>1, <2>2, CandidateOK, StartFacts
<1>3. ASSUME NEW c \in A, NEW o \in A, c # o PROVE Start(feed, c) # Start(feed, o)
  <2>1. SameOutcome(c, o)
    BY DEF SameOutcome
  <2>2. c.book # o.book
    BY <1>3, <2>1, OneEdgePerBook
  <2>3. GroupKey(c) # GroupKey(o)
    BY <2>2 DEF GroupKey
  <2> QED
    BY <2>3, StartFacts
<1>4. Len(feed) \in Nat
  OBVIOUS
<1> HIDE DEF A
<1>5. PICK c \in A : \A o \in A \ {c} : Beats(feed, c, o)
  BY <1>1, <1>2, <1>3, <1>4, BestExists
<1>6. c \in Detected(feed, rows)
  BY <1>1, <1>5 DEF Detected
<1>7. b \in A
  BY DEF A, SameOutcome
<1>8. ~PaysMore(b, c)
  <2>1. CASE c = b
    BY <1>2, <1>7, <2>1, PaysMoreOrder
  <2>2. CASE c # b
    <3>1. Beats(feed, c, b)
      BY <1>5, <1>7, <2>2
    <3> QED
      BY <1>2, <1>7, <3>1, PaysMoreOrder DEF Beats
  <2> QED
    BY <2>1, <2>2
<1> QED
  BY <1>1, <1>5, <1>6, <1>8

\* A quote that no later one of its slot replaces is current.
LEMMA StandingIsCurrent ==
  ASSUME feed \in Seq(Quotes), NEW i \in Priced(feed), Stands(feed, i)
  PROVE  feed[i] \in Current(feed)
<1>1. \A j \in Priced(feed) : j > i => ~SameSlot(feed[i], feed[j])
  BY DEF Stands, SameSlot, GroupKey
<1> QED
  BY <1>1 DEF Current

LEMMA MirroredShareMarket ==
  ASSUME NEW q \in Quotes, NEW r \in Quotes, Mirrored(q, r), q.book = r.book
  PROVE  GroupKey(q) = GroupKey(r) /\ q.side # r.side /\ {q.side, r.side} \in TwoWay
<1>1. q.line \in Int /\ r.line \in Int
  BY LineAssumption
<1>2. Size(q.line) = Size(r.line)
  BY <1>1 DEF Mirrored, Size
<1> QED
  BY <1>2 DEF Mirrored, Opposite, GroupKey

\* The two sides of a market nobody else is in make a market of their own.
LEMMA MarketOfTwo ==
  ASSUME feed \in Seq(Quotes), NEW q \in Current(feed), NEW r \in Current(feed),
         Mirrored(q, r), q.book = r.book,
         \A d \in Priced(feed) : GroupKey(feed[d]) = GroupKey(q) => feed[d].side \in {q.side, r.side}
  PROVE  {q, r} \in Groups(feed) /\ Complete({q, r}) /\ q # r
<1>1. /\ q \in Quotes /\ r \in Quotes
      /\ \A x \in Current(feed) : \E d \in Priced(feed) : x = feed[d]
  BY CurrentIsQuoted DEF Current
<1>2. GroupKey(q) = GroupKey(r) /\ q.side # r.side /\ {q.side, r.side} \in TwoWay
  BY <1>1, MirroredShareMarket
<1>3. ASSUME NEW x \in Current(feed), GroupKey(x) = GroupKey(q) PROVE x \in {q, r}
  <2>1. x.side \in {q.side, r.side}
    BY <1>1, <1>3
  <2> QED
    BY <1>2, <1>3, <2>1, OneQuotePerSide
<1>4. {x \in Current(feed) : GroupKey(x) = GroupKey(q)} = {q, r}
  BY <1>2, <1>3
<1>5. {x.side : x \in {q, r}} = {q.side, r.side}
  OBVIOUS
<1> QED
  BY <1>2, <1>4, <1>5 DEF Groups, Complete

\* The one row that could price q does.
LEMMA OwnRowMatches ==
  ASSUME feed \in Seq(Quotes), RowsOK, NEW q \in Quotes, NEW g, NEW k \in DOMAIN rows,
         SameOutcome(q, rows[k]), RowsFor(q) = {k}
  PROVE  rows[k].p \in Matched(rows, q, g)
<1>1. k \in Nat
  BY DEF RowsOK
<1>2. ByOutcome(rows, q) = {rows[k].p}
  <2>1. \A i \in DOMAIN rows : SameOutcome(q, rows[i]) => i \in RowsFor(q)
    BY DEF RowsFor, SameOutcome
  <2>2. {i \in DOMAIN rows : SameOutcome(q, rows[i])} = {k}
    BY <2>1
  <2> QED
    BY <1>1, <2>2 DEF ByOutcome, LastOf
<1>3. BySide(rows, q) \subseteq {rows[k].p}
  <2> SUFFICES ASSUME NEW x \in BySide(rows, q) PROVE x = rows[k].p
    OBVIOUS
  <2>1. ~IsProp(q)
    BY DEF BySide
  <2>2. PICK i \in DOMAIN rows : /\ ~IsProp(rows[i]) /\ rows[i].market = q.market
                                 /\ rows[i].side = q.side /\ x = rows[i].p
    BY <2>1 DEF BySide, LastOf
  <2>3. rows[i].who = q.who
    BY <2>1, <2>2, SubjectAssumption DEF RowsOK, IsProp
  <2>4. i \in RowsFor(q)
    BY <2>2, <2>3 DEF RowsFor
  <2> QED
    BY <2>2, <2>4
<1> QED
  BY <1>2, <1>3 DEF Matched

LEMMA OfferIsKept ==
  ASSUME feed \in Seq(Quotes), RowsOK, edges = Detected(feed, rows),
         NEW i \in Priced(feed), NEW j \in Priced(feed), NEW k \in DOMAIN rows,
         NEW q, q = feed[i], NEW r, r = feed[j], NEW p, p = rows[k].p,
         Stands(feed, i), Stands(feed, j), q.book = r.book, Mirrored(q, r),
         SameOutcome(q, rows[k]), RowsFor(q) = {k},
         \A d \in Priced(feed) : GroupKey(feed[d]) = GroupKey(q) => feed[d].side \in {q.side, r.side},
         p \in 1 .. 99,
         Num(q) * Den(r) + Num(r) * Den(q) >= Den(q) * Den(r),
         p * (Num(q) * Den(r) + Num(r) * Den(q)) > 100 * (Num(q) * Den(r)),
         p * Den(q) > 100 * Num(q)
  PROVE  \E c \in edges : SameOutcome(c, q) /\ ~PaysMore(q, c)
<1> DEFINE g == {q, r}
           b == Edge(p, q)
<1>1. q \in Current(feed) /\ r \in Current(feed)
  BY StandingIsCurrent
<1>2. q \in Quotes /\ QuotedPrice(q) /\ QuotedPrice(r)
  BY <1>1, CurrentIsQuoted
<1>3. g \in Groups(feed) /\ Complete(g) /\ q # r
  BY <1>1, MarketOfTwo
<1>4. p \in Matched(rows, q, g)
  BY <1>2, OwnRowMatches
<1>5. /\ Weight(q, g) = Num(q) * Den(r)
      /\ Overround(g) = Num(q) * Den(r) + Num(r) * Den(q)
  BY <1>2, <1>3, OverroundOfTwo
<1>6. Whole(g) = Den(q) * Den(r)
  BY <1>2, <1>3, PriceParts, WholeOfTwo
<1>7. Cardinality(g) = 2
  BY <1>3, PairHasTwo
<1>8. q \in g
  OBVIOUS
<1> HIDE DEF g
<1>9. Devigable(g)
  BY <1>5, <1>6 DEF Devigable
<1>10. IsEdge(p, q, g)
  BY <1>5, <1>7 DEF IsEdge, BeatsFair, PositiveEv
<1>11. b \in Candidates(feed, rows)
  BY <1>3, <1>4, <1>8, <1>9, <1>10 DEF Candidates
<1>12. PICK c \in edges : SameOutcome(c, b) /\ ~PaysMore(b, c)
  BY <1>11, BestIsDetected
<1>13. SameOutcome(c, q)
  BY <1>12 DEF SameOutcome, Edge
<1>14. Num(b) = Num(q) /\ Den(b) = Den(q)
  BY DEF Num, Den, Edge
<1>15. ~PaysMore(q, c)
  BY <1>12, <1>14 DEF PaysMore
<1> QED
  BY <1>12, <1>13, <1>15

\* Once detect has run, the edges are those it detects in what is there.
LEMMA DetectedOnce ==
  ASSUME pc = "done" => edges = Detected(feed, rows), [Next]_vars
  PROVE  (pc = "done" => edges = Detected(feed, rows))'
BY DEF Next, Fetch, PropRows, NoProps, Detect, SkipGame, vars

\* detect finds the best price of every outcome worth betting: for any quotes
\* in any order, any number of books, and whatever rows it is given.
THEOREM BestOffers == Spec => []BestOfferIsKept
<1> DEFINE Found == pc = "done" => edges = Detected(feed, rows)
<1>1. ChanceInv /\ Found => BestOfferIsKept
  <2> SUFFICES ASSUME ChanceInv, Found, pc = "done"
               PROVE  BestOfferIsKept
    BY DEF BestOfferIsKept
  <2>1. feed \in Seq(Quotes) /\ RowsOK /\ edges = Detected(feed, rows)
    BY DEF ChanceInv
  <2> HIDE DEF Found
  <2>2. ASSUME NEW i \in Priced(feed), NEW j \in Priced(feed), NEW k \in DOMAIN rows
        PROVE  LET q == feed[i]  r == feed[j]  p == rows[k].p
                   mine == Num(q) * Den(r)
                   both == mine + Num(r) * Den(q)
               IN  /\ Stands(feed, i) /\ Stands(feed, j)
                   /\ q.book = r.book /\ Mirrored(q, r) /\ SameOutcome(q, rows[k])
                   /\ RowsFor(q) = {k}
                   /\ \A d \in Priced(feed) :
                        GroupKey(feed[d]) = GroupKey(q) => feed[d].side \in {q.side, r.side}
                   /\ p \in 1 .. 99 /\ both >= Den(q) * Den(r)
                   /\ p * both > 100 * mine /\ p * Den(q) > 100 * Num(q)
                   => \E c \in edges : SameOutcome(c, q) /\ ~PaysMore(q, c)
    BY <2>1, OfferIsKept
  <2> QED
    BY <2>2 DEF BestOfferIsKept
<1>2. Init => Found
  BY DEF Init
<1>3. Found /\ [Next]_vars => Found'
  BY DetectedOnce
<1>4. Spec => []ChanceInv
  BY ChanceInit, ChanceNext, PTL DEF Spec
<1> HIDE DEF Found
<1> QED
  BY <1>1, <1>2, <1>3, <1>4, PTL DEF Spec
=============================================================================
