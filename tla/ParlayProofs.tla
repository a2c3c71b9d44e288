----------------------------- MODULE ParlayProofs -----------------------------
(***************************************************************************)
(* Proofs about Parlay and ParlayScan for any edges, requests, offers and  *)
(* predictions. The argument: what is resolved keeps the game, market,     *)
(* side and subject it was validated with, whatever line and book it is    *)
(* priced at (Working); two validated legs never exclude each other for    *)
(* the prior; a parlay is in the table before it is bet on (Recorded), and *)
(* its key names all that the request says of its legs; and the prior of   *)
(* two opposed legs is never positive, so that their joint probability is  *)
(* at most their product (GainInv). Last, by counting: the combinations    *)
(* are strictly ordered, so each has a place of its own, and at most       *)
(* fifteen come before a pair.                                             *)
(***************************************************************************)
EXTENDS ParlayScan, SequenceTheorems, FiniteSetTheorems, TLAPS

-----------------------------------------------------------------------------
(***************************************************************************)
(* The rules.                                                              *)
(***************************************************************************)

\* Two legs that may be combined do not make the prior raise: _validate_legs
\* refuses whatever correlation_prior considers mutually exclusive.
THEOREM CompatibleNeverRaise ==
  ASSUME NEW a, NEW b, Compatible(a, b)
  PROVE  ~Raises(a, b)
<1> SUFFICES ASSUME Raises(a, b) PROVE FALSE
  OBVIOUS
<1>1. a.game = b.game /\ a.market = b.market /\ a.side # b.side
  BY DEF Raises
<1>2. CASE a.market = PlayerProp
  <2>1. a.who = b.who
    BY <1>2 DEF Raises
  <2>2. Identity(a) = Identity(b)
    BY <1>1, <1>2, <2>1 DEF Identity
  <2> QED
    BY <2>2 DEF Compatible
<1>3. CASE a.market # PlayerProp
  BY <1>1, <1>3 DEF Exclusive, Compatible
<1> QED
  BY <1>2, <1>3

\* Nor does it matter which of them comes first.
THEOREM RaisesIsSymmetric ==
  ASSUME NEW a, NEW b
  PROVE  Raises(a, b) <=> Raises(b, a)
BY DEF Raises

LEMMA PriorParts ==
  ASSUME NEW a, NEW b
  PROVE  /\ Magnitude(a, b) \in Nat /\ Magnitude(a, b) = Magnitude(b, a)
         /\ Direction(a) \in {-1, 1} /\ Agreement(a, b) \in {-1, 0, 1}
<1>1. {a.market, b.market} = {b.market, a.market}
  OBVIOUS
<1>2. \A e \in Priors : e[2] \in Nat
  BY DEF Priors
<1>3. Magnitude(a, b) = Magnitude(b, a)
  BY <1>1 DEF Magnitude
<1>4. Magnitude(a, b) \in Nat
  <2> DEFINE markets == {a.market, b.market}
             known == {e \in Priors : e[1] = markets}
  <2>1. known # {} => (CHOOSE e \in known : TRUE) \in known
    OBVIOUS
  <2>2. \A e \in known : e[2] \in Nat
    BY <1>2
  <2>3. Magnitude(a, b) = IF known = {} THEN 0 ELSE (CHOOSE e \in known : TRUE)[2]
    BY DEF Magnitude, MagnitudeOf
  <2> HIDE DEF known
  <2> QED
    BY <2>1, <2>2, <2>3
<1>5. Direction(a) \in {-1, 1} /\ Agreement(a, b) \in {-1, 0, 1}
  BY DEF Direction, Agreement
<1> QED
  BY <1>3, <1>4, <1>5

\* The correlation assumed of two legs does not depend on which comes first.
THEOREM PriorIsSymmetric ==
  ASSUME NEW a, NEW b
  PROVE  Prior(a, b) = Prior(b, a)
<1> DEFINE m == Magnitude(a, b)
           da == Direction(a)
           db == Direction(b)
<1>1. m \in Nat /\ m = Magnitude(b, a) /\ da \in {-1, 1} /\ db \in {-1, 1}
  BY PriorParts
<1>2. Agreement(a, b) \in {-1, 0, 1} /\ Agreement(b, a) \in {-1, 0, 1}
  BY PriorParts
<1>3. m * da * db = m * db * da
  BY <1>1
<1> HIDE DEF m, da, db
<1>4. CASE a.game # b.game
  BY <1>4 DEF Prior
<1>5. CASE a.game = b.game /\ {a.market, b.market} \subseteq TeamMarkets
  BY <1>1, <1>5 DEF Prior, m
<1>6. CASE a.game = b.game /\ ~({a.market, b.market} \subseteq TeamMarkets)
  <2> DEFINE x == IF a.market \in TeamMarkets THEN Agreement(a, b)
                  ELSE IF b.market \in TeamMarkets THEN Agreement(b, a) ELSE 1
             y == IF b.market \in TeamMarkets THEN Agreement(b, a)
                  ELSE IF a.market \in TeamMarkets THEN Agreement(a, b) ELSE 1
  <2>1. x = y
    BY <1>6
  <2>2. Prior(a, b) = m * da * db * x
    BY <1>6 DEF Prior, m, da, db
  <2>3. Prior(b, a) = m * db * da * y
    BY <1>1, <1>6 DEF Prior, m, da, db
  <2> HIDE DEF x, y
  <2> QED
    BY <2>1, <2>2, <2>3, <1>3
<1> QED
  BY <1>4, <1>5, <1>6

LEMMA ValidNeverRaise ==
  ASSUME NEW q, ValidLegs(q), NEW i \in 1 .. Len(q), NEW j \in 1 .. Len(q), i # j
  PROVE  ~Raises(q[i], q[j])
BY CompatibleNeverRaise DEF ValidLegs

-----------------------------------------------------------------------------
(***************************************************************************)
(* The invariant.                                                          *)
(***************************************************************************)

IsSeq(q) == q \in Seq(ToSet(q))

\* A resolved leg has no more to it than this.
Shaped(l) ==
  l = [game |-> l.game, market |-> l.market, side |-> l.side, who |-> l.who,
       team |-> TeamOf(l.market, l.who), line |-> l.line, book |-> l.book, odds |-> l.odds,
       p |-> l.p]

ShapedLegs(q) == IsSeq(q) /\ \A i \in 1 .. Len(q) : Shaped(q[i])

SameRole(l, s) ==
  l.game = s.game /\ l.market = s.market /\ l.side = s.side /\ l.who = s.who

\* What is being priced has been validated, and keeps what was validated.
Working ==
  /\ pc = "validate" => legs = <<>>
  /\ pc = "price" =>
       /\ ValidLegs(Specs)
       /\ Len(legs) <= Len(Specs)
       /\ \A i \in 1 .. Len(legs) : SameRole(legs[i], Specs[i])

ShapedRow(r) ==
  /\ r = [legs |-> r.legs, byPrior |-> r.byPrior, meets |-> r.meets, bet |-> r.bet]
  /\ ShapedLegs(r.legs)

RowsOK == IsSeq(rows) /\ \A i \in 1 .. Len(rows) : ShapedRow(rows[i])

\* A link is the key of the parlay's own legs.
Linked ==
  \A i \in 1 .. Len(rows) :
    rows[i].bet # NoBet => rows[i].bet = BetKey(rows[i].legs) /\ rows[i].bet \in DOMAIN bets

LastIsCurrent ==
  Len(rows) > 0 /\ rows[Len(rows)].legs = legs /\ rows[Len(rows)].meets

\* The actionable parlay at hand is the last of the table before it is bet on.
Recorded ==
  /\ pc = "bet" /\ MeetsThreshold => LastIsCurrent
  /\ pc = "link" => LastIsCurrent /\ BetKey(legs) \in DOMAIN bets

ScanInv ==
  /\ ShapedLegs(legs)
  /\ RowsOK
  /\ Working
  /\ Linked
  /\ Recorded
  /\ BetsAreOnRecord
  /\ NeverRaises
-----------------------------------------------------------------------------
(***************************************************************************)
(* Sequences and keys.                                                     *)
(***************************************************************************)

LEMMA EmptyIsSeq == IsSeq(<<>>) /\ Len(<<>>) = 0
BY DEF IsSeq, ToSet

LEMMA SeqIsSeq ==
  ASSUME NEW S, NEW q \in Seq(S)
  PROVE  IsSeq(q)
<1>1. q \in Seq(Range(q))
  BY SeqOfRange
<1> QED
  BY <1>1 DEF IsSeq, ToSet, Range

LEMMA SeqFacts ==
  ASSUME NEW q, IsSeq(q)
  PROVE  Len(q) \in Nat /\ DOMAIN q = 1 .. Len(q)
BY DEF IsSeq

LEMMA AppendFacts ==
  ASSUME NEW q, IsSeq(q), NEW x
  PROVE  /\ IsSeq(Append(q, x))
         /\ Len(Append(q, x)) = Len(q) + 1
         /\ \A i \in 1 .. Len(q) : Append(q, x)[i] = q[i]
         /\ Append(q, x)[Len(q) + 1] = x
<1> DEFINE S == ToSet(q) \union {x}
<1>1. q \in Seq(S) /\ x \in S
  BY DEF IsSeq
<1>2. /\ Append(q, x) \in Seq(S)
      /\ Len(Append(q, x)) = Len(q) + 1
      /\ \A i \in 1 .. Len(q) : Append(q, x)[i] = q[i]
      /\ Append(q, x)[Len(q) + 1] = x
  BY <1>1
<1>3. IsSeq(Append(q, x))
  BY <1>2, SeqIsSeq
<1> QED
  BY <1>2, <1>3

\* Parlays with one key are asked for with the same legs.
LEMMA KeyTellsBody ==
  ASSUME NEW q, NEW r, IsSeq(q), IsSeq(r), BetKey(q) = BetKey(r)
  PROVE  ToSet(Body(q)) \subseteq ToSet(Body(r))
<1>0. DOMAIN Body(q) = DOMAIN q /\ DOMAIN Body(r) = DOMAIN r
  BY DEF Body
<1> SUFFICES ASSUME NEW i \in DOMAIN q PROVE BodyLeg(q[i]) \in ToSet(Body(r))
  BY <1>0 DEF ToSet, Body
<1>1. BetIdentity(q[i]) \in DOMAIN BetKey(r)
  <2>1. BetIdentity(q[i]) \in DOMAIN BetKey(q)
    BY DEF BetKey
  <2> QED
    BY <2>1
<1>2. PICK j \in DOMAIN r : BetIdentity(r[j]) = BetIdentity(q[i])
  BY <1>1 DEF BetKey
<1>3. BodyLeg(q[i]) = BodyLeg(r[j])
  BY <1>2 DEF BetIdentity, BodyLeg
<1> QED
  BY <1>0, <1>2, <1>3 DEF ToSet, Body

-----------------------------------------------------------------------------
(***************************************************************************)
(* The invariant is kept.                                                  *)
(***************************************************************************)

\* Nothing is worked on before or after an evaluation.
AtRest == {"idle", "next", "validate"}

LEMMA InitInv == Init => ScanInv
<1> SUFFICES ASSUME Init PROVE ScanInv
  OBVIOUS
<1>1. ShapedLegs(legs) /\ RowsOK
  BY EmptyIsSeq DEF Init, ShapedLegs, RowsOK
<1>2. DOMAIN bets = {} /\ Len(rows) = 0
  BY DEF Init
<1> QED
  BY <1>1, <1>2 DEF Init, ScanInv, Working, Linked, Recorded, BetsAreOnRecord, NeverRaises

LEMMA StoresKept ==
  ASSUME ScanInv, UNCHANGED storeVars
  PROVE  RowsOK' /\ Linked' /\ BetsAreOnRecord'
BY DEF ScanInv, storeVars, RowsOK, Linked, BetsAreOnRecord

\* The steps that drop or begin an evaluation and leave the stores alone.
LEMMA AtRestInv ==
  ASSUME ScanInv, UNCHANGED <<storeVars, raised>>,
         pc' \in AtRest, legs' = <<>>
  PROVE  ScanInv'
<1>1. RowsOK' /\ Linked' /\ BetsAreOnRecord'
  BY StoresKept
<1>2. ShapedLegs(legs)'
  BY EmptyIsSeq DEF ShapedLegs
<1>3. Working' /\ Recorded'
  BY DEF Working, Recorded, AtRest
<1> QED
  BY <1>1, <1>2, <1>3 DEF ScanInv, NeverRaises

\* The steps in between that change neither the legs nor the stores.
LEMMA BetweenInv ==
  ASSUME ScanInv, UNCHANGED <<storeVars, raised, legs, job>>,
         Working', Recorded'
  PROVE  ScanInv'
<1>1. RowsOK' /\ Linked' /\ BetsAreOnRecord'
  BY StoresKept
<1>2. ShapedLegs(legs)'
  BY DEF ScanInv, ShapedLegs
<1> QED
  BY <1>1, <1>2 DEF ScanInv, NeverRaises

LEMMA RestingSteps ==
  ASSUME ScanInv, NextCombo \/ ScanEnds \/ Request \/ EvaluationFails \/ PersistFails
                  \/ NoBetting \/ Crash
  PROVE  ScanInv'
<1>1. UNCHANGED <<storeVars, raised>> /\ legs' = <<>>
  BY DEF NextCombo, ScanEnds, Request, EvaluationFails, PersistFails, NoBetting, Crash,
         Return, Take, storeVars
<1>2. pc' \in AtRest
  BY DEF NextCombo, ScanEnds, Request, EvaluationFails, PersistFails, NoBetting, Crash,
         Return, AtRest
<1> QED
  BY <1>1, <1>2, AtRestInv

LEMMA IdleSteps ==
  ASSUME ScanInv, EdgesChange \/ StartScan \/ Resolve
  PROVE  ScanInv'
<1>1. UNCHANGED <<storeVars, raised, legs, job>>
  BY DEF EdgesChange, StartScan, Resolve, workVars
<1>2. pc' \in {"idle", "next", "price"}
  BY DEF EdgesChange, StartScan, Resolve
<1>3. Recorded'
  BY <1>2 DEF Recorded
<1>4. Working'
  <2>1. CASE Resolve
    <3>1. ValidLegs(Specs) /\ legs = <<>> /\ pc' = "price"
      BY <2>1 DEF Resolve, Resolvable, ScanInv, Working
    <3>2. Specs' = Specs /\ legs' = legs
      BY <1>1 DEF Specs
    <3>3. Len(Specs) \in 2 .. 6
      BY <3>1 DEF ValidLegs
    <3> QED
      BY <3>1, <3>2, <3>3 DEF Working
  <2>2. CASE EdgesChange \/ StartScan
    BY <2>2 DEF EdgesChange, StartScan, Working
  <2> QED
    BY <2>1, <2>2
<1> QED
  BY <1>1, <1>3, <1>4, BetweenInv

LEMMA PriceLegInv ==
  ASSUME ScanInv, PriceLeg
  PROVE  ScanInv'
<1> DEFINE n == Len(legs) + 1
           s == Specs[n]
<1>1. PICK o, p : legs' = Append(legs, Resolved(s, o, p))
  BY DEF PriceLeg
<1>2. /\ pc = "price" /\ pc' = "price" /\ n - 1 < Len(Specs)
      /\ UNCHANGED <<storeVars, raised, job, joint>>
  BY DEF PriceLeg
<1>3. IsSeq(legs) /\ Len(legs) \in Nat
  BY SeqFacts DEF ScanInv, ShapedLegs
<1> DEFINE l == Resolved(s, o, p)
<1>4. /\ IsSeq(legs') /\ Len(legs') = n
      /\ \A i \in 1 .. Len(legs) : legs'[i] = legs[i]
      /\ legs'[n] = l
  BY <1>1, <1>3, AppendFacts
<1>5. Shaped(l) /\ SameRole(l, s)
  BY DEF Resolved, Shaped, SameRole
<1> HIDE DEF l
<1>6. ShapedLegs(legs')
  BY <1>3, <1>4, <1>5 DEF ScanInv, ShapedLegs
<1>7. Specs' = Specs
  BY <1>2 DEF Specs
<1>8. Working'
  <2>1. ValidLegs(Specs) /\ \A i \in 1 .. Len(legs) : SameRole(legs[i], Specs[i])
    BY <1>2 DEF ScanInv, Working
  <2>2. Len(Specs) \in Nat
    BY <2>1 DEF ValidLegs
  <2>3. \A i \in 1 .. n : SameRole(legs'[i], Specs[i])
    BY <2>1, <1>3, <1>4, <1>5
  <2> HIDE DEF s
  <2> QED
    BY <2>1, <2>2, <2>3, <1>2, <1>3, <1>4, <1>7 DEF Working
<1>9. RowsOK' /\ Linked' /\ BetsAreOnRecord'
  BY <1>2, StoresKept
<1>10. Recorded'
  BY <1>2 DEF Recorded
<1> QED
  BY <1>2, <1>6, <1>8, <1>9, <1>10 DEF ScanInv, NeverRaises

\* The heart of NeverRaises: the legs are not what was validated, but they are
\* alike in all the prior looks at.
LEMMA PriorDoesNotRaise ==
  ASSUME ScanInv, pc = "price"
  PROVE  ~PriorRaises
<1>1. /\ ValidLegs(Specs) /\ Len(legs) <= Len(Specs)
      /\ \A i \in 1 .. Len(legs) : SameRole(legs[i], Specs[i])
  BY DEF ScanInv, Working
<1>2. DOMAIN legs = 1 .. Len(legs) /\ Len(legs) \in Nat
  BY SeqFacts DEF ScanInv, ShapedLegs
<1>3. Len(Specs) \in Nat
  BY <1>1 DEF ValidLegs
<1> SUFFICES ASSUME NEW i \in 1 .. Len(legs), NEW j \in 1 .. Len(legs), i < j,
                    Raises(legs[i], legs[j])
             PROVE  FALSE
  BY <1>2 DEF PriorRaises
<1>4. Raises(Specs[i], Specs[j])
  BY <1>1 DEF Raises, SameRole
<1> QED
  BY <1>1, <1>2, <1>3, <1>4, ValidNeverRaise

LEMMA JointInv ==
  ASSUME ScanInv, JointProbability
  PROVE  ScanInv'
<1>1. ~PriorRaises
  BY PriorDoesNotRaise DEF JointProbability
<1>2. pc' = "decide" /\ UNCHANGED <<storeVars, raised, legs, job>>
  BY <1>1 DEF JointProbability
<1>3. Working' /\ Recorded'
  BY <1>2 DEF Working, Recorded
<1> QED
  BY <1>2, <1>3, BetweenInv

LEMMA DiscardInv ==
  ASSUME ScanInv, Discard
  PROVE  ScanInv'
<1>1. UNCHANGED <<storeVars, raised, legs, job, joint>> /\ pc' = "bet"
  BY DEF Discard, workVars
<1>2. ~MeetsThreshold'
  BY <1>1 DEF Discard, Keeps, MeetsThreshold
<1>3. Working' /\ Recorded'
  BY <1>1, <1>2 DEF Working, Recorded
<1> QED
  BY <1>1, <1>3, BetweenInv

LEMMA PersistInv ==
  ASSUME ScanInv, Persist
  PROVE  ScanInv'
<1> DEFINE row == [legs |-> legs, byPrior |-> joint.byPrior, meets |-> MeetsThreshold,
                   bet |-> NoBet]
           n == Len(rows) + 1
<1>1. /\ pc' = "bet" /\ rows' = Append(rows, row)
      /\ UNCHANGED <<legs, job, joint, bets, raised>>
  BY DEF Persist, workVars
<1>2. /\ row.legs = legs /\ row.meets = MeetsThreshold /\ row.bet = NoBet
      /\ ShapedRow(row)
  BY DEF ScanInv, ShapedRow
<1> HIDE DEF row
<1>3. IsSeq(rows) /\ Len(rows) \in Nat
  BY SeqFacts DEF ScanInv, RowsOK
<1>4. /\ IsSeq(rows') /\ Len(rows') = n
      /\ \A i \in 1 .. Len(rows) : rows'[i] = rows[i]
      /\ rows'[n] = row
  BY <1>1, <1>3, AppendFacts
<1>5. ShapedLegs(legs)'
  BY <1>1 DEF ScanInv, ShapedLegs
<1>6. RowsOK'
  BY <1>1, <1>2, <1>3, <1>4, <1>5 DEF ScanInv, RowsOK
<1>7. Linked'
  BY <1>1, <1>2, <1>3, <1>4 DEF ScanInv, Linked
<1>8. Recorded'
  <2>1. MeetsThreshold' = MeetsThreshold
    BY <1>1 DEF MeetsThreshold
  <2> QED
    BY <2>1, <1>1, <1>2, <1>3, <1>4 DEF Recorded, LastIsCurrent
<1>9. BetsAreOnRecord'
  <2>1. DOMAIN rows = 1 .. Len(rows) /\ DOMAIN rows' = 1 .. n
    BY <1>3, <1>4, SeqFacts
  <2> QED
    BY <2>1, <1>1, <1>3, <1>4 DEF ScanInv, BetsAreOnRecord
<1>10. Working'
  BY <1>1 DEF Working
<1> QED
  BY <1>1, <1>5, <1>6, <1>7, <1>8, <1>9, <1>10 DEF ScanInv, NeverRaises

\* What the emulator receives is a parlay of the table, under its key.
LEMMA ReceivedFacts ==
  ASSUME ScanInv, LastIsCurrent, UNCHANGED rows, bets' \in {bets, Received}
  PROVE  /\ Linked' /\ RowsOK' /\ BetsAreOnRecord'
         /\ DOMAIN bets \subseteq DOMAIN bets'
         /\ bets' = Received => BetKey(legs) \in DOMAIN bets'
<1>1. \A k \in DOMAIN bets' : \/ k \in DOMAIN bets /\ bets'[k] = bets[k]
                              \/ k = BetKey(legs) /\ bets'[k] = Body(legs)
  BY DEF Received
<1>2. DOMAIN bets \subseteq DOMAIN bets'
  BY DEF Received
<1>4. Linked' /\ RowsOK'
  BY <1>2 DEF ScanInv, Linked, RowsOK
<1>5. BetsAreOnRecord'
  <2>1. Len(rows) \in DOMAIN rows
    BY SeqFacts DEF ScanInv, RowsOK, LastIsCurrent
  <2> SUFFICES ASSUME NEW k \in DOMAIN bets'
               PROVE  \E i \in DOMAIN rows :
                        rows[i].meets /\ BetKey(rows[i].legs) = k /\ Body(rows[i].legs) = bets'[k]
    BY DEF BetsAreOnRecord
  <2>2. CASE k \in DOMAIN bets /\ bets'[k] = bets[k]
    BY <2>2 DEF ScanInv, BetsAreOnRecord
  <2>3. CASE k = BetKey(legs) /\ bets'[k] = Body(legs)
    BY <2>1, <2>3 DEF LastIsCurrent
  <2> QED
    BY <1>1, <2>2, <2>3
<1>6. bets' = Received => BetKey(legs) \in DOMAIN bets'
  BY DEF Received
<1> QED
  BY <1>2, <1>4, <1>5, <1>6

LEMMA PlaceParlayInv ==
  ASSUME ScanInv, PlaceParlay
  PROVE  ScanInv'
<1>1. /\ pc' = "link" /\ bets' = Received
      /\ UNCHANGED <<legs, rows, raised>>
  BY DEF PlaceParlay
<1>2. LastIsCurrent
  BY DEF PlaceParlay, Betting, ScanInv, Recorded
<1>3. /\ Linked' /\ RowsOK' /\ BetsAreOnRecord'
      /\ BetKey(legs) \in DOMAIN bets'
  BY <1>1, <1>2, ReceivedFacts
<1>4. ShapedLegs(legs)'
  BY <1>1 DEF ScanInv, ShapedLegs
<1>5. Working' /\ Recorded'
  BY <1>1, <1>2, <1>3 DEF Working, Recorded, LastIsCurrent
<1> QED
  BY <1>1, <1>3, <1>4, <1>5 DEF ScanInv, NeverRaises

LEMMA PlaceFailsInv ==
  ASSUME ScanInv, PlaceFails
  PROVE  ScanInv'
<1>1. /\ pc' \in AtRest /\ bets' \in {bets, Received} /\ legs' = <<>>
      /\ UNCHANGED <<rows, raised>>
  BY DEF PlaceFails, Return, Take, AtRest
<1>2. LastIsCurrent
  BY DEF PlaceFails, Betting, ScanInv, Recorded
<1>3. Linked' /\ RowsOK' /\ BetsAreOnRecord'
  BY <1>1, <1>2, ReceivedFacts
<1>4. ShapedLegs(legs)'
  BY <1>1, EmptyIsSeq DEF ShapedLegs
<1>5. Working' /\ Recorded'
  BY <1>1 DEF Working, Recorded, AtRest
<1> QED
  BY <1>1, <1>3, <1>4, <1>5 DEF ScanInv, NeverRaises

LEMMA LinkInv ==
  ASSUME ScanInv, Link
  PROVE  ScanInv'
<1> DEFINE n == Len(rows)
<1>1. /\ pc' \in AtRest /\ legs' = <<>> /\ UNCHANGED <<bets, raised>>
      /\ rows' = [rows EXCEPT ![n].bet = BetKey(legs)]
  BY DEF Link, Return, Take, AtRest
<1>2. LastIsCurrent /\ BetKey(legs) \in DOMAIN bets
  BY DEF Link, ScanInv, Recorded
<1>3. IsSeq(rows) /\ n \in Nat /\ n > 0 /\ DOMAIN rows = 1 .. n
  BY <1>2, SeqFacts DEF ScanInv, RowsOK, LastIsCurrent
<1>4. /\ DOMAIN rows' = 1 .. n
      /\ \A i \in 1 .. n : i # n => rows'[i] = rows[i]
      /\ rows'[n] = [rows[n] EXCEPT !.bet = BetKey(legs)]
  BY <1>1, <1>3
<1>5. IsSeq(rows') /\ Len(rows') = n
  <2>1. rows' \in Seq(ToSet(rows) \union {[rows[n] EXCEPT !.bet = BetKey(legs)]})
    BY <1>1, <1>3 DEF IsSeq
  <2>2. IsSeq(rows')
    BY <2>1, SeqIsSeq
  <2> QED
    BY <2>2, <1>3, <1>4, SeqFacts
<1>6. /\ ShapedRow(rows'[n]) /\ rows'[n].legs = rows[n].legs
      /\ rows'[n].meets = rows[n].meets /\ rows'[n].bet = BetKey(legs)
  <2> DEFINE r == rows[n]
  <2>1. ShapedRow(r)
    BY <1>3 DEF ScanInv, RowsOK
  <2>2. rows'[n] = [r EXCEPT !.bet = BetKey(legs)]
    BY <1>4
  <2> HIDE DEF r
  <2>3. rows'[n] = [legs |-> r.legs, byPrior |-> r.byPrior, meets |-> r.meets,
                    bet |-> BetKey(legs)]
    BY <2>1, <2>2 DEF ShapedRow
  <2>4. rows'[n].legs = r.legs /\ rows'[n].meets = r.meets /\ rows'[n].bet = BetKey(legs)
    BY <2>3
  <2>5. ShapedRow(rows'[n])
    <3>1. ShapedLegs(r.legs)
      BY <2>1 DEF ShapedRow
    <3> QED
      BY <2>3, <3>1 DEF ShapedRow
  <2> QED
    BY <2>4, <2>5 DEF r
<1>7. RowsOK'
  BY <1>3, <1>4, <1>5, <1>6 DEF ScanInv, RowsOK
<1>8. Linked'
  BY <1>1, <1>2, <1>3, <1>4, <1>5, <1>6 DEF ScanInv, Linked, LastIsCurrent
<1>9. BetsAreOnRecord'
  BY <1>1, <1>3, <1>4, <1>6 DEF ScanInv, BetsAreOnRecord
<1>10. Recorded'
  BY <1>1 DEF Recorded, AtRest
<1>11. ShapedLegs(legs)'
  BY <1>1, EmptyIsSeq DEF ShapedLegs
<1>12. Working'
  BY <1>1 DEF Working, AtRest
<1> QED
  BY <1>1, <1>7, <1>8, <1>9, <1>10, <1>11, <1>12 DEF ScanInv, NeverRaises

LEMMA StutterInv ==
  ASSUME ScanInv, UNCHANGED vars
  PROVE  ScanInv'
<1>1. UNCHANGED <<pc, storeVars, raised, legs, job, joint>>
  BY DEF vars, workVars
<1>2. Working'
  BY <1>1 DEF ScanInv, Working, Specs
<1>3. Recorded'
  BY <1>1 DEF ScanInv, Recorded, LastIsCurrent, MeetsThreshold, storeVars
<1> QED
  BY <1>1, <1>2, <1>3, BetweenInv

\* The invariant of the scan, for any edges, requests, offers and predictions.
THEOREM ScanInvariant == Spec => []ScanInv
<1>1. Init => ScanInv
  BY InitInv
<1>2. ScanInv /\ [Next]_vars => ScanInv'
  BY RestingSteps, IdleSteps, PriceLegInv, JointInv, DiscardInv, PersistInv,
     PlaceParlayInv, PlaceFailsInv, LinkInv, StutterInv DEF Next
<1> QED
  BY <1>1, <1>2, PTL DEF Spec

\* A validated parlay never ends a scan with a ValueError: the exclusions that
\* _validate_legs checks on the legs asked for still hold of the legs that are
\* priced, which may have another line and another book.
THEOREM NoValueError == Spec => []NeverRaises
<1>1. ScanInv => NeverRaises
  BY DEF ScanInv
<1> QED
  BY <1>1, ScanInvariant, PTL

\* No bet was asked for but on behalf of an actionable parlay of the table,
\* under its key and with its legs.
THEOREM BetsRecorded == Spec => []BetsAreOnRecord
<1>1. ScanInv => BetsAreOnRecord
  BY DEF ScanInv
<1> QED
  BY <1>1, ScanInvariant, PTL

\* The bet a parlay links to was asked for with exactly its legs.  The bet is
\* on record with a parlay of the same key, and the key tells the legs.
THEOREM LinksAreTrue == Spec => []LinkedBetIsItsOwn
<1>1. ScanInv => LinkedBetIsItsOwn
  <2> SUFFICES ASSUME ScanInv, NEW i \in DOMAIN rows, rows[i].bet # NoBet
               PROVE  /\ rows[i].bet \in DOMAIN bets
                      /\ ToSet(Body(rows[i].legs)) = ToSet(bets[rows[i].bet])
    BY DEF LinkedBetIsItsOwn
  <2>1. DOMAIN rows = 1 .. Len(rows)
    BY SeqFacts DEF ScanInv, RowsOK
  <2>2. rows[i].bet = BetKey(rows[i].legs) /\ rows[i].bet \in DOMAIN bets
    BY <2>1 DEF ScanInv, Linked
  <2>3. PICK j \in DOMAIN rows :
          BetKey(rows[j].legs) = rows[i].bet /\ Body(rows[j].legs) = bets[rows[i].bet]
    BY <2>2 DEF ScanInv, BetsAreOnRecord
  <2>4. IsSeq(rows[i].legs) /\ IsSeq(rows[j].legs)
    BY <2>1 DEF ScanInv, RowsOK, ShapedRow, ShapedLegs
  <2>5. /\ ToSet(Body(rows[i].legs)) \subseteq ToSet(Body(rows[j].legs))
        /\ ToSet(Body(rows[j].legs)) \subseteq ToSet(Body(rows[i].legs))
    BY <2>2, <2>3, <2>4, KeyTellsBody
  <2> QED
    BY <2>2, <2>3, <2>5
<1> QED
  BY <1>1, ScanInvariant, PTL
-----------------------------------------------------------------------------
(***************************************************************************)
(* Folds over a pair.                                                      *)
(***************************************************************************)

\* The parts of the indices of a pair, and how a fold takes them to pieces.
None == {}
OnlyFirst == {1}
OnlySecond == {2}
Both == 1 .. 2
Latest(s) == Max(s)
Earlier(s) == s \ {Max(s)}

PairParts ==
  /\ None \in SUBSET Both /\ OnlyFirst \in SUBSET Both /\ OnlySecond \in SUBSET Both
  /\ Both \in SUBSET Both
  /\ \A s \in SUBSET Both : s = None \/ s = OnlyFirst \/ s = OnlySecond \/ s = Both
  /\ OnlyFirst # None /\ OnlySecond # None /\ Both # None
  /\ OnlyFirst # OnlySecond /\ Both # OnlyFirst /\ Both # OnlySecond
  /\ Latest(OnlyFirst) = 1 /\ Latest(OnlySecond) = 2 /\ Latest(Both) = 2
  /\ Earlier(OnlyFirst) = None /\ Earlier(OnlySecond) = None /\ Earlier(Both) = OnlyFirst

LEMMA PairPartsHold == PairParts
<1>1. 1 .. 2 = {1, 2}
  OBVIOUS
<1>2. \A s \in SUBSET {1, 2} : s = {} \/ s = {1} \/ s = {2} \/ s = {1, 2}
  OBVIOUS
<1>3. {1} # {} /\ {2} # {} /\ {1, 2} # {} /\ {1} # {2} /\ {1, 2} # {1} /\ {1, 2} # {2}
  OBVIOUS
<1>4. Max({1}) = 1 /\ Max({2}) = 2 /\ Max({1, 2}) = 2
  BY DEF Max
<1>5. {1} \ {Max({1})} = {} /\ {2} \ {Max({2})} = {} /\ {1, 2} \ {Max({1, 2})} = {1}
  BY <1>4
<1>6. {} \in SUBSET {1, 2} /\ {1} \in SUBSET {1, 2} /\ {2} \in SUBSET {1, 2}
      /\ {1, 2} \in SUBSET {1, 2}
  OBVIOUS
<1> QED
  BY <1>1, <1>2, <1>3, <1>4, <1>5, <1>6
  DEF PairParts, None, OnlyFirst, OnlySecond, Both, Latest, Earlier

\* A fold makes something of each part: b of none, x of the first, y of the
\* second, and z of both.
Table(w, b, x, y, z) ==
  /\ w[None] = b /\ w[OnlyFirst] = x /\ w[OnlySecond] = y /\ w[Both] = z
  /\ w = [s \in SUBSET Both |-> w[s]]

LEMMA SomeTable ==
  ASSUME NEW b, NEW x, NEW y, NEW z
  PROVE  \E w : Table(w, b, x, y, z)
<1> DEFINE w == [s \in SUBSET Both |-> IF s = None THEN b ELSE IF s = OnlyFirst THEN x
                                       ELSE IF s = OnlySecond THEN y ELSE z]
<1>1. w[None] = b /\ w[OnlyFirst] = x /\ w[OnlySecond] = y /\ w[Both] = z
  BY PairPartsHold DEF PairParts
<1>2. w = [s \in SUBSET Both |-> w[s]]
  OBVIOUS
<1> HIDE DEF w
<1> QED
  BY <1>1, <1>2 DEF Table

Share(v, x) == (v * x) \div 100
Payout(v, t) == (v * t) \div 10

Multiplied(t, q) ==
  t = [s \in SUBSET DOMAIN q |-> IF s = None THEN 100 ELSE Share(t[Earlier(s)], q[Latest(s)])]

LEMMA ProductOfTwo ==
  ASSUME NEW q, DOMAIN q = 1 .. 2
  PROVE  Product(q) = Share(Share(100, q[1]), q[2])
<1> DEFINE x == Share(100, q[1])
           y == Share(100, q[2])
           z == Share(x, q[2])
<1>1. PairParts
  BY PairPartsHold
<1> HIDE DEF x, y, z
<1>2. PICK w : Table(w, 100, x, y, z)
  BY SomeTable
<1>3. x = Share(100, q[1]) /\ y = Share(100, q[2]) /\ z = Share(x, q[2])
  BY DEF x, y, z
<1>10. DOMAIN q = Both
  BY DEF Both
<1>4. Multiplied(w, q)
  <2>1. ASSUME NEW s \in SUBSET Both
        PROVE  w[s] = IF s = None THEN 100 ELSE Share(w[Earlier(s)], q[Latest(s)])
    BY <1>1, <1>2, <1>3 DEF PairParts, Table
  <2> QED
    BY <1>2, <1>10, <2>1 DEF Multiplied, Table
<1>5. PICK t : Multiplied(t, q) /\ Product(q) = t[DOMAIN q]
  <2>1. \E t : Multiplied(t, q)
    BY <1>4
  <2> QED
    BY <2>1
    DEF Product, FoldLeft, MapThenFoldSet, Multiplied, Share, None, Earlier, Latest
<1>6. \A s \in SUBSET Both :
        t[s] = IF s = None THEN 100 ELSE Share(t[Earlier(s)], q[Latest(s)])
  BY <1>5, <1>10 DEF Multiplied
<1>7. t[None] = 100
  BY <1>1, <1>6 DEF PairParts
<1>8. t[OnlyFirst] = x
  BY <1>1, <1>3, <1>6, <1>7 DEF PairParts
<1>9. t[Both] = z
  BY <1>1, <1>3, <1>6, <1>8 DEF PairParts
<1> QED
  BY <1>3, <1>5, <1>9, <1>10

Paid(t, q, p) ==
  t = [s \in SUBSET DOMAIN q |-> IF s = {} THEN p ELSE Payout(t[s \ {Max(s)}], q[Max(s)])]

LEMMA EvOfTwo ==
  ASSUME NEW q, DOMAIN q = 1 .. 2, NEW p
  PROVE  ParlayEv(p, q) = Payout(Payout(p, q[1]), q[2]) - 100
<1> DEFINE x == Payout(p, q[1])
           y == Payout(p, q[2])
           z == Payout(x, q[2])
<1>1. PairParts
  BY PairPartsHold
<1> HIDE DEF x, y, z
<1>2. PICK w : Table(w, p, x, y, z)
  BY SomeTable
<1>3. x = Payout(p, q[1]) /\ y = Payout(p, q[2]) /\ z = Payout(x, q[2])
  BY DEF x, y, z
<1>4. DOMAIN q = Both
  BY DEF Both
<1>5. Paid(w, q, p)
  <2>1. ASSUME NEW s \in SUBSET Both
        PROVE  w[s] = IF s = None THEN p ELSE Payout(w[Earlier(s)], q[Latest(s)])
    BY <1>1, <1>2, <1>3 DEF PairParts, Table
  <2> QED
    BY <1>2, <1>4, <2>1 DEF Paid, Table, None, Earlier, Latest
<1>6. PICK t : Paid(t, q, p) /\ ParlayEv(p, q) = t[DOMAIN q] - 100
  <2>1. \E t : Paid(t, q, p)
    BY <1>5
  <2> QED
    BY <2>1 DEF ParlayEv, FoldLeft, MapThenFoldSet, Paid, Payout
<1>7. \A s \in SUBSET Both : t[s] = IF s = None THEN p ELSE Payout(t[Earlier(s)], q[Latest(s)])
  BY <1>4, <1>6 DEF Paid, None, Earlier, Latest
<1>8. t[None] = p
  BY <1>1, <1>7 DEF PairParts
<1>9. t[OnlyFirst] = x
  BY <1>1, <1>3, <1>7, <1>8 DEF PairParts
<1>10. t[Both] = z
  BY <1>1, <1>3, <1>7, <1>9 DEF PairParts
<1> QED
  BY <1>3, <1>4, <1>6, <1>10

\* The loop of _joint_probability that gathers a game's legs.
Gather(ls, l, g) == IF l.game = g THEN Append(ls, l) ELSE ls

Gathered(t, g) ==
  t = [s \in SUBSET DOMAIN legs |->
         IF s = {} THEN <<>> ELSE Gather(t[s \ {Max(s)}], legs[Max(s)], g)]

LEMMA GameOfTwo ==
  ASSUME NEW g, IsSeq(legs), Len(legs) = 2, legs[1].game = g, legs[2].game = g
  PROVE  Of(g) = legs
<1> DEFINE e == <<>>
           x == Append(e, legs[1])
           y == Append(e, legs[2])
           z == Append(x, legs[2])
<1>1. PairParts
  BY PairPartsHold
<1>2. z = legs
  <2>1. IsSeq(e) /\ Len(e) = 0
    BY EmptyIsSeq
  <2> HIDE DEF e
  <2>2. IsSeq(x) /\ Len(x) = 0 + 1 /\ x[0 + 1] = legs[1]
    BY <2>1, AppendFacts
  <2>3. Len(x) = 1 /\ x[1] = legs[1]
    BY <2>2
  <2> HIDE DEF x
  <2>4. /\ IsSeq(z) /\ Len(z) = 1 + 1 /\ \A i \in 1 .. 1 : z[i] = x[i]
        /\ z[1 + 1] = legs[2]
    BY <2>2, <2>3, AppendFacts
  <2> HIDE DEF z
  <2>5. Len(z) = 2 /\ z[1] = legs[1] /\ z[2] = legs[2]
    BY <2>3, <2>4
  <2>6. DOMAIN z = 1 .. 2 /\ DOMAIN legs = 1 .. 2
    BY <2>4, <2>5, SeqFacts
  <2>7. \A i \in 1 .. 2 : z[i] = legs[i]
    BY <2>5
  <2>8. z = [i \in 1 .. 2 |-> z[i]] /\ legs = [i \in 1 .. 2 |-> legs[i]]
    BY <2>4, <2>6 DEF IsSeq
  <2> QED
    BY <2>7, <2>8
<1>3. x = Gather(e, legs[1], g) /\ y = Gather(e, legs[2], g) /\ z = Gather(x, legs[2], g)
  BY DEF Gather
<1> HIDE DEF e, x, y, z
<1>4. PICK w : Table(w, e, x, y, z)
  BY SomeTable
<1>5. DOMAIN legs = Both
  BY SeqFacts DEF Both
<1>7. Gathered(w, g)
  <2>1. ASSUME NEW s \in SUBSET Both
        PROVE  w[s] = IF s = None THEN e ELSE Gather(w[Earlier(s)], legs[Latest(s)], g)
    <3>1. w[None] = e /\ w[OnlyFirst] = x /\ w[OnlySecond] = y /\ w[Both] = z
      BY <1>4 DEF Table
    <3>2. CASE s = None
      BY <3>1, <3>2
    <3>3. CASE s = OnlyFirst
      BY <1>1, <1>3, <3>1, <3>3 DEF PairParts
    <3>4. CASE s = OnlySecond
      BY <1>1, <1>3, <3>1, <3>4 DEF PairParts
    <3>5. CASE s = Both
      BY <1>1, <1>3, <3>1, <3>5 DEF PairParts
    <3> QED
      BY <1>1, <3>2, <3>3, <3>4, <3>5 DEF PairParts
  <2> QED
    BY <1>4, <1>5, <2>1 DEF Gathered, Table, None, Earlier, Latest, e
<1>8. PICK t : Gathered(t, g) /\ Of(g) = t[DOMAIN legs]
  <2>1. \E t : Gathered(t, g)
    BY <1>7
  <2> QED
    BY <2>1 DEF Of, FoldLeft, MapThenFoldSet, Gathered, Gather
<1>9. \A s \in SUBSET Both :
        t[s] = IF s = None THEN e ELSE Gather(t[Earlier(s)], legs[Latest(s)], g)
  BY <1>5, <1>8 DEF Gathered, None, Earlier, Latest, e
<1>10. t[None] = e
  BY <1>1, <1>9 DEF PairParts
<1>11. t[OnlyFirst] = x
  BY <1>1, <1>3, <1>9, <1>10 DEF PairParts
<1>12. t[Both] = z
  BY <1>1, <1>3, <1>9, <1>11 DEF PairParts
<1> QED
  BY <1>2, <1>5, <1>8, <1>12

\* _frechet_clamp adds the chances up in whatever order.
Chosen(s) == CHOOSE i \in s : TRUE

Summed(t, p) ==
  t = [s \in SUBSET DOMAIN p |-> IF s = {} THEN 0 ELSE p[Chosen(s)] + t[s \ {Chosen(s)}]]
Others(s) == s \ {Chosen(s)}

LEMMA ChosenFromPair ==
  /\ Chosen(OnlyFirst) = 1 /\ Others(OnlyFirst) = None
  /\ Chosen(OnlySecond) = 2 /\ Others(OnlySecond) = None
  /\ \/ Chosen(Both) = 1 /\ Others(Both) = OnlySecond
     \/ Chosen(Both) = 2 /\ Others(Both) = OnlyFirst
<1>1. Chosen({1}) = 1 /\ Chosen({2}) = 2
  BY DEF Chosen
<1>2. Chosen({1, 2}) \in {1, 2}
  <2>1. \E i \in {1, 2} : TRUE
    OBVIOUS
  <2> QED
    BY <2>1 DEF Chosen
<1>3. 1 .. 2 = {1, 2} /\ {1, 2} \ {1} = {2} /\ {1, 2} \ {2} = {1} /\ {1} \ {1} = {} /\ {2} \ {2} = {}
  OBVIOUS
<1> QED
  BY <1>1, <1>2, <1>3 DEF Others, Both, OnlyFirst, OnlySecond, None

LEMMA SumOfTwo ==
  ASSUME NEW p, DOMAIN p = 1 .. 2, p[1] \in Int, p[2] \in Int
  PROVE  SumOver(p) = p[1] + p[2]
<1> DEFINE x == p[1]
           y == p[2]
           z == x + y
<1>1. PairParts
  BY PairPartsHold
<1>2. z = p[1] + p[2] /\ z = p[2] + p[1] /\ p[1] + 0 = p[1] /\ p[2] + 0 = p[2]
  OBVIOUS
<1>3. x = p[1] /\ y = p[2]
  OBVIOUS
<1> HIDE DEF x, y, z
<1>4. PICK w : Table(w, 0, x, y, z)
  BY SomeTable
<1>5. DOMAIN p = Both
  BY DEF Both
<1>6. Summed(w, p)
  <2>1. ASSUME NEW s \in SUBSET Both
        PROVE  w[s] = IF s = None THEN 0 ELSE p[Chosen(s)] + w[Others(s)]
    <3>1. w[None] = 0 /\ w[OnlyFirst] = p[1] /\ w[OnlySecond] = p[2] /\ w[Both] = z
      BY <1>3, <1>4 DEF Table
    <3>2. CASE s = None
      BY <3>1, <3>2
    <3>3. CASE s = OnlyFirst
      BY <1>1, <1>2, <3>1, <3>3, ChosenFromPair DEF PairParts
    <3>4. CASE s = OnlySecond
      BY <1>1, <1>2, <3>1, <3>4, ChosenFromPair DEF PairParts
    <3>5. CASE s = Both
      <4>1. p[Chosen(Both)] + w[Others(Both)] = z
        BY <1>2, <3>1, ChosenFromPair
      <4> QED
        BY <1>1, <3>1, <3>5, <4>1 DEF PairParts
    <3> QED
      BY <1>1, <3>2, <3>3, <3>4, <3>5 DEF PairParts
  <2> QED
    BY <1>4, <1>5, <2>1 DEF Summed, Table, None, Others
<1>7. PICK t : Summed(t, p) /\ SumOver(p) = t[DOMAIN p]
  <2>1. \E t : Summed(t, p)
    BY <1>6
  <2> QED
    BY <2>1 DEF SumOver, MapThenSumSet, MapThenFoldSet, Summed, Chosen
<1>8. \A s \in SUBSET Both : t[s] = IF s = None THEN 0 ELSE p[Chosen(s)] + t[Others(s)]
  BY <1>5, <1>7 DEF Summed, None, Others
<1>9. t[None] = 0
  BY <1>1, <1>8 DEF PairParts
<1>10. t[OnlyFirst] = p[1] /\ t[OnlySecond] = p[2]
  BY <1>1, <1>2, <1>8, <1>9, ChosenFromPair DEF PairParts
<1>11. t[Both] = z
  BY <1>1, <1>2, <1>8, <1>10, ChosenFromPair DEF PairParts
<1> QED
  BY <1>2, <1>5, <1>7, <1>11

\* The part of one game in a choice f of one end for each game.
GameShare(g, byPrior, f) == GroupJoint(Of(g), ChancesOf(Of(g)), byPrior /\ g \in SameGame)[f[g]]

JointOf(byPrior, f) ==
  FoldSet(LAMBDA g, v : (v * GameShare(g, byPrior, f)) \div 100, 100, Games)

Shared(t, byPrior, f) ==
  t = [s \in SUBSET Games |-> IF s = {} THEN 100
         ELSE Share(t[s \ {Chosen(s)}], GameShare(Chosen(s), byPrior, f))]

LEMMA JointOfOne ==
  ASSUME NEW b, NEW f, NEW g, Games = {g}
  PROVE  JointOf(b, f) = Share(100, GameShare(g, b, f))
<1> DEFINE h == GameShare(g, b, f)
           w == [s \in SUBSET {g} |-> IF s = {} THEN 100 ELSE Share(100, h)]
<1>1. {} \in SUBSET {g} /\ {g} \in SUBSET {g} /\ {g} # {} /\ \A s \in SUBSET {g} : s = {} \/ s = {g}
  OBVIOUS
<1>2. Chosen({g}) = g /\ {g} \ {Chosen({g})} = {}
  BY DEF Chosen
<1>3. Shared(w, b, f)
  <2>1. w[{}] = 100 /\ w[{g}] = Share(100, h)
    BY <1>1
  <2>2. w = [s \in SUBSET {g} |-> w[s]]
    OBVIOUS
  <2> HIDE DEF w
  <2>3. w[{g}] = Share(w[{g} \ {Chosen({g})}], GameShare(Chosen({g}), b, f))
    BY <1>2, <2>1
  <2>4. \A s \in SUBSET {g} :
          w[s] = IF s = {} THEN 100
                 ELSE Share(w[s \ {Chosen(s)}], GameShare(Chosen(s), b, f))
    BY <1>1, <2>1, <2>3
  <2> QED
    BY <2>2, <2>4 DEF Shared
<1> HIDE DEF w, h
<1>4. PICK t : Shared(t, b, f) /\ JointOf(b, f) = t[Games]
  <2>1. \E t : Shared(t, b, f)
    BY <1>3
  <2> QED
    BY <2>1 DEF JointOf, FoldSet, MapThenFoldSet, Shared, Share, Chosen
<1>5. \A s \in SUBSET {g} :
        t[s] = IF s = {} THEN 100 ELSE Share(t[s \ {Chosen(s)}], GameShare(Chosen(s), b, f))
  BY <1>4 DEF Shared
<1>6. t[{}] = 100
  BY <1>1, <1>5
<1>7. t[{g}] = Share(t[{g} \ {Chosen({g})}], GameShare(Chosen({g}), b, f))
  BY <1>1, <1>5
<1> QED
  BY <1>2, <1>4, <1>6, <1>7 DEF h

-----------------------------------------------------------------------------
(***************************************************************************)
(* What opposed legs are worth together.                                   *)
(***************************************************************************)

LEMMA ShareOfAll ==
  ASSUME NEW x \in 0 .. 100
  PROVE  Share(100, x) = x
BY DEF Share

LEMMA ShareBounds ==
  ASSUME NEW x \in 1 .. 99, NEW y \in 1 .. 99
  PROVE  Share(x, y) \in 0 .. 100 /\ x + y - 100 <= Share(x, y)
<1> DEFINE m == x * y
           a == 100 - x
           b == 100 - y
           k == m \div 100
<1>1. a * b >= 0 /\ m >= 0 /\ m \in Int
  OBVIOUS
<1>2. a * b = m - 100 * x - 100 * y + 10000
  OBVIOUS
<1>3. m <= 99 * 99
  <2>1. x * y <= 99 * y
    OBVIOUS
  <2> QED
    BY <2>1
<1> HIDE DEF m, a, b
<1>4. k \in Int /\ 100 * k <= m /\ m < 100 * k + 100
  BY <1>1
<1> HIDE DEF k
<1>5. 100 * (x + y - 100) <= m
  BY <1>1, <1>2
<1>6. k >= 0 /\ x + y - 100 <= k /\ k <= 100
  BY <1>1, <1>3, <1>4, <1>5
<1> QED
  BY <1>4, <1>6 DEF k, m, Share

LEMMA LowOfTwo ==
  ASSUME NEW p, DOMAIN p = 1 .. 2, Len(p) = 2, NEW x \in 1 .. 99, NEW y \in 1 .. 99,
         p[1] = x, p[2] = y
  PROVE  FrechetLow(p) \in 0 .. Share(x, y)
<1> DEFINE m == x + y - 100
<1>1. SumOver(p) = x + y
  BY SumOfTwo
<1>2. SumOver(p) - 100 * (Len(p) - 1) = m
  BY <1>1
<1>3. m \in Int /\ m <= Share(x, y) /\ Share(x, y) \in Nat
  <2>1. Share(x, y) \in 0 .. 100 /\ x + y - 100 <= Share(x, y)
    BY ShareBounds
  <2> QED
    BY <2>1
<1>4. FrechetLow(p) = Max({0, m})
  BY <1>2 DEF FrechetLow
<1> HIDE DEF m
<1>5. Max({0, m}) \in {0, m} /\ Max({0, m}) >= 0
  <2>1. \E a \in {0, m} : \A b \in {0, m} : a >= b
    BY <1>3
  <2> QED
    BY <2>1 DEF Max
<1> QED
  BY <1>3, <1>4, <1>5

LEMMA ProductOfChances ==
  ASSUME NEW p, DOMAIN p = 1 .. 2, NEW x \in 1 .. 99, NEW y, p[1] = x, p[2] = y
  PROVE  Product(p) = Share(x, y)
<1>1. Share(100, x) = x
  BY ShareOfAll
<1>2. Product(p) = Share(Share(100, x), y)
  BY ProductOfTwo
<1> QED
  BY <1>1, <1>2

\* A pair of legs that point apart is never worth more than its product.
LEMMA GroupOfTwo ==
  ASSUME NEW q, IsSeq(q), Len(q) = 2, q[1].p \in 1 .. 99, q[2].p \in 1 .. 99,
         Prior(q[1], q[2]) <= 0, NEW c \in 1 .. 2
  PROVE  /\ GroupJoint(q, ChancesOf(q), TRUE)[c] \in 0 .. 100
         /\ GroupJoint(q, ChancesOf(q), TRUE)[c] <= Product(ChancesOf(q))
<1> DEFINE p == ChancesOf(q)
           S == {s \in (DOMAIN q) \X (DOMAIN q) : s[1] < s[2]}
           rhos == {Prior(q[s[1]], q[s[2]]) : s \in S}
           low == IF \A r \in rhos : r >= 0 THEN Product(p) ELSE FrechetLow(p)
           high == IF \A r \in rhos : r <= 0 THEN Product(p) ELSE FrechetHigh(p)
           x == q[1].p
           y == q[2].p
<1>1. DOMAIN q = 1 .. 2
  BY SeqFacts
<1>2. \A r \in rhos : r <= 0
  <2> SUFFICES ASSUME NEW s \in S PROVE Prior(q[s[1]], q[s[2]]) <= 0
    OBVIOUS
  <2>1. s[1] = 1 /\ s[2] = 2
    BY <1>1
  <2> QED
    BY <2>1
<1>3. GroupJoint(q, p, TRUE) = <<low, high>>
  BY DEF GroupJoint
<1>4. p = [i \in 1 .. 2 |-> q[i].p]
  BY <1>1 DEF ChancesOf
<1>5. DOMAIN p = 1 .. 2 /\ p[1] = x /\ p[2] = y /\ Len(p) = 2
  BY <1>4
<1>6. x \in 1 .. 99 /\ y \in 1 .. 99
  OBVIOUS
<1> HIDE DEF p, S, rhos, x, y
<1>7. Product(p) = Share(x, y)
  BY <1>5, <1>6, ProductOfChances
<1>8. FrechetLow(p) \in 0 .. Share(x, y)
  BY <1>5, <1>6, LowOfTwo
<1>9. Share(x, y) \in 0 .. 100
  BY <1>6, ShareBounds
<1>10. high = Product(p) /\ low \in {Product(p), FrechetLow(p)}
  BY <1>2
<1> HIDE DEF low, high
<1>11. low \in 0 .. 100 /\ low <= Product(p) /\ high \in 0 .. 100 /\ high <= Product(p)
  BY <1>7, <1>8, <1>9, <1>10
<1>12. <<low, high>>[c] \in {low, high}
  OBVIOUS
<1> QED
  BY <1>3, <1>11, <1>12 DEF p

LEMMA PayoutGrows ==
  ASSUME NEW p \in Int, NEW r \in Int, p <= r, NEW t \in Nat
  PROVE  Payout(p, t) \in Int /\ Payout(r, t) \in Int /\ Payout(p, t) <= Payout(r, t)
<1> DEFINE m == p * t
           n == r * t
           a == m \div 10
           b == n \div 10
<1>1. m \in Int /\ n \in Int /\ m <= n
  <2>1. (r - p) * t >= 0 /\ (r - p) * t = r * t - p * t
    OBVIOUS
  <2> QED
    BY <2>1
<1> HIDE DEF m, n
<1>2. a \in Int /\ 10 * a <= m /\ m < 10 * a + 10
  BY <1>1
<1>3. b \in Int /\ 10 * b <= n /\ n < 10 * b + 10
  BY <1>1
<1> HIDE DEF a, b
<1>4. a <= b
  BY <1>1, <1>2, <1>3
<1> QED
  BY <1>2, <1>3, <1>4 DEF Payout, a, b, m, n

\* At the same odds, the likelier parlay is worth at least as much.
LEMMA EvGrows ==
  ASSUME NEW q, DOMAIN q = 1 .. 2, q[1] \in Nat, q[2] \in Nat,
         NEW p \in Int, NEW r \in Int, p <= r
  PROVE  ParlayEv(p, q) \in Int /\ ParlayEv(r, q) \in Int /\ ParlayEv(p, q) <= ParlayEv(r, q)
<1>1. /\ ParlayEv(p, q) = Payout(Payout(p, q[1]), q[2]) - 100
      /\ ParlayEv(r, q) = Payout(Payout(r, q[1]), q[2]) - 100
  BY EvOfTwo
<1> DEFINE a == Payout(p, q[1])
           b == Payout(r, q[1])
<1>2. a \in Int /\ b \in Int /\ a <= b
  BY PayoutGrows
<1> HIDE DEF a, b
<1>3. Payout(a, q[2]) \in Int /\ Payout(b, q[2]) \in Int /\ Payout(a, q[2]) <= Payout(b, q[2])
  BY <1>2, PayoutGrows
<1> QED
  BY <1>1, <1>3 DEF a, b

\* What opposed legs look like once validated and resolved.
Proper(l) ==
  /\ l.market \in Allowed /\ l.side \in Sides[l.market]
  /\ l.market # PlayerProp => l.team = ""

OpposedPair(q) ==
  Len(q) = 2 /\ q[1].game = q[2].game /\ (Opposed(q[1], q[2]) \/ Opposed(q[2], q[1]))

\* The sign of the prior: legs that point apart are never correlated positively.
LEMMA OpposedPrior ==
  ASSUME NEW a, NEW b, Proper(a), Proper(b), a.game = b.game, Opposed(a, b)
  PROVE  Prior(a, b) \in Int /\ Prior(a, b) <= 0
<1> DEFINE m == Magnitude(a, b)
<1>1. m \in Nat /\ Direction(a) \in {-1, 1} /\ Direction(b) \in {-1, 1}
  BY PriorParts
<1>2. a.market \in {"MONEYLINE", "SPREAD"} /\ a.side \in {"HOME", "AWAY", "DRAW"}
  <2>1. a.market \in {"MONEYLINE", "SPREAD"}
    BY DEF Opposed, TeamMarkets
  <2>2. Sides["MONEYLINE"] = {"HOME", "AWAY", "DRAW"} /\ Sides["SPREAD"] = {"HOME", "AWAY"}
    BY DEF Sides
  <2>3. a.side \in Sides[a.market]
    BY DEF Proper
  <2> QED
    BY <2>1, <2>2, <2>3
<1>3. Direction(a) = 1
  BY <1>2 DEF Direction, PlayerProp
<1> HIDE DEF m
<1>4. CASE /\ a.side # "DRAW" /\ b.market = PlayerProp /\ b.team \in {"HOME", "AWAY"}
           /\ (a.side = b.team) <=> (b.side \in {"UNDER", "NO"})
  <2>1. ~({a.market, b.market} \subseteq TeamMarkets) /\ a.market \in TeamMarkets
    BY <1>2, <1>4 DEF TeamMarkets, PlayerProp
  <2>2. Prior(a, b) = m * Direction(a) * Direction(b) * Agreement(a, b)
    BY <2>1 DEF Prior, m
  <2>3. CASE a.side = b.team
    <3>1. Direction(b) = -1
      BY <1>4, <2>3 DEF Direction
    <3>2. Agreement(a, b) = 1
      BY <1>2, <1>4, <2>3 DEF Agreement
    <3> QED
      BY <1>1, <1>3, <2>2, <3>1, <3>2
  <2>4. CASE a.side # b.team
    <3>1. Direction(b) = 1
      BY <1>4, <2>4 DEF Direction
    <3>2. Agreement(a, b) = -1
      BY <1>2, <1>4, <2>4 DEF Agreement
    <3> QED
      BY <1>1, <1>3, <2>2, <3>1, <3>2
  <2> QED
    BY <2>3, <2>4
<1>5. CASE b.market = "TOTAL" /\ b.side = "UNDER" /\ a.side # "DRAW"
  <2>1. ~({a.market, b.market} \subseteq TeamMarkets) /\ a.market \in TeamMarkets
    BY <1>2, <1>5 DEF TeamMarkets
  <2>2. Prior(a, b) = m * Direction(a) * Direction(b) * Agreement(a, b)
    BY <2>1 DEF Prior, m
  <2>3. Direction(b) = -1
    BY <1>5 DEF Direction
  <2>4. b.team = ""
    BY <1>5 DEF Proper, PlayerProp
  <2>5. Agreement(a, b) = 1
    BY <1>5, <2>4 DEF Agreement
  <2> QED
    BY <1>1, <1>3, <2>2, <2>3, <2>5
<1>6. CASE a.market \in TeamMarkets /\ b.market \in TeamMarkets /\ a.side # b.side
  <2>1. {a.market, b.market} \subseteq TeamMarkets
    BY <1>6
  <2>2. Prior(a, b) = -m
    BY <1>6, <2>1 DEF Prior, m
  <2> QED
    BY <1>1, <2>2
<1> QED
  BY <1>4, <1>5, <1>6 DEF Opposed

Priced(l) == l.p \in 1 .. 99 /\ l.odds \in Nat

PricedLegs(q) == \A i \in 1 .. Len(q) : Priced(q[i])

\* What a parlay stored without simulation data must be worth to be actionable.
RowGains(r) ==
  r.byPrior /\ r.meets /\ OpposedPair(r.legs) =>
    ParlayEv(Product(ChancesOf(r.legs)), Tenths(r.legs)) >= MinEv

\* The joint probability of an opposed pair is at most its product.
JointIsFair ==
  pc = "decide" /\ joint.byPrior /\ OpposedPair(legs) =>
    /\ joint.p \in Int /\ Product(ChancesOf(legs)) \in Int
    /\ joint.p <= Product(ChancesOf(legs))

GainInv ==
  /\ PricedLegs(legs)
  /\ JointIsFair
  /\ \A i \in 1 .. Len(rows) : RowGains(rows[i])

LEMMA OpposedGroup ==
  ASSUME NEW q, IsSeq(q), PricedLegs(q), OpposedPair(q), Proper(q[1]), Proper(q[2]),
         NEW c \in 1 .. 2
  PROVE  /\ GroupJoint(q, ChancesOf(q), TRUE)[c] \in 0 .. 100
         /\ Product(ChancesOf(q)) \in Int
         /\ GroupJoint(q, ChancesOf(q), TRUE)[c] <= Product(ChancesOf(q))
<1>1. Len(q) = 2 /\ q[1].game = q[2].game /\ q[1].p \in 1 .. 99 /\ q[2].p \in 1 .. 99
  BY DEF OpposedPair, PricedLegs, Priced
<1>2. Prior(q[1], q[2]) <= 0
  <2>1. CASE Opposed(q[1], q[2])
    BY <1>1, <2>1, OpposedPrior
  <2>2. CASE Opposed(q[2], q[1])
    BY <1>1, <2>2, OpposedPrior, PriorIsSymmetric
  <2> QED
    BY <2>1, <2>2 DEF OpposedPair
<1>3. Product(ChancesOf(q)) \in Int
  <2> DEFINE p == ChancesOf(q)
  <2>1. p = [i \in 1 .. 2 |-> q[i].p]
    BY <1>1, SeqFacts DEF ChancesOf
  <2>2. DOMAIN p = 1 .. 2 /\ p[1] = q[1].p /\ p[2] = q[2].p
    BY <2>1
  <2> HIDE DEF p
  <2>3. Product(p) = Share(q[1].p, q[2].p)
    BY <1>1, <2>2, ProductOfChances
  <2>4. Share(q[1].p, q[2].p) \in 0 .. 100
    BY <1>1, ShareBounds
  <2> QED
    BY <2>3, <2>4 DEF p
<1> QED
  BY <1>1, <1>2, <1>3, GroupOfTwo

\* The legs of the pair are all there is of their one game.
LEMMA PairIsItsGame ==
  ASSUME ScanInv, pc = "price", Len(legs) = Len(Specs), OpposedPair(legs)
  PROVE  /\ Games = {legs[1].game} /\ Of(legs[1].game) = legs
         /\ legs[1].game \in SameGame /\ Proper(legs[1]) /\ Proper(legs[2])
<1> DEFINE g == legs[1].game
<1>1. IsSeq(legs) /\ Len(legs) = 2 /\ legs[2].game = g
  BY DEF ScanInv, ShapedLegs, OpposedPair
<1>2. ValidLegs(Specs) /\ Len(Specs) = 2 /\ SameRole(legs[1], Specs[1]) /\ SameRole(legs[2], Specs[2])
  BY <1>1 DEF ScanInv, Working
<1>3. Of(g) = legs
  BY <1>1, GameOfTwo
<1>4. \A i \in DOMAIN Specs : Specs[i].game = g
  BY <1>1, <1>2 DEF SameRole
<1>5. Games = {g}
  BY <1>2, <1>4 DEF Games
<1>6. g \in SameGame
  BY <1>1, <1>3, <1>5 DEF SameGame
<1>7. Proper(legs[1]) /\ Proper(legs[2])
  <2>1. ValidLeg(Specs[1]) /\ ValidLeg(Specs[2])
    BY <1>2 DEF ValidLegs
  <2>2. Shaped(legs[1]) /\ Shaped(legs[2])
    BY <1>1 DEF ScanInv, ShapedLegs
  <2>3. ASSUME NEW l, NEW s, ValidLeg(s), Shaped(l), SameRole(l, s) PROVE Proper(l)
    <3>1. l.market \in Allowed /\ l.side \in Sides[l.market]
      BY <2>3 DEF ValidLeg, SameRole
    <3>2. l.team = TeamOf(l.market, l.who)
      BY <2>3 DEF Shaped
    <3> QED
      BY <3>1, <3>2 DEF Proper, TeamOf
  <2> QED
    BY <1>2, <2>1, <2>2, <2>3
<1> QED
  BY <1>3, <1>5, <1>6, <1>7

LEMMA JointGains ==
  ASSUME ScanInv, GainInv, JointProbability
  PROVE  GainInv'
<1>1. ~PriorRaises
  BY PriorDoesNotRaise DEF JointProbability
<1>2. pc = "price" /\ Len(legs) = Len(Specs) /\ UNCHANGED <<legs, rows>>
  BY <1>1 DEF JointProbability, storeVars
<1>6. PICK b \in BOOLEAN : \E v \in JointProbabilities(b) : joint' = [p |-> v, byPrior |-> b]
  BY <1>1 DEF JointProbability
<1>3. PICK p \in JointProbabilities(b) : joint' = [p |-> p, byPrior |-> b]
  BY <1>6
<1>4. ASSUME b, OpposedPair(legs)
      PROVE  /\ p \in Int /\ Product(ChancesOf(legs)) \in Int
             /\ p <= Product(ChancesOf(legs))
  <2> DEFINE g == legs[1].game
             joints == GroupJoint(legs, ChancesOf(legs), TRUE)
  <2>1. /\ Games = {g} /\ Of(g) = legs /\ g \in SameGame
        /\ Proper(legs[1]) /\ Proper(legs[2])
    BY <1>2, <1>4, PairIsItsGame
  <2>2. PICK f \in [Games -> 1 .. 2] : p = JointOf(b, f)
    BY <1>3 DEF JointProbabilities, JointOf, GameShare
  <2>3. p = Share(100, GameShare(g, b, f))
    BY <2>1, <2>2, JointOfOne
  <2>4. f[g] \in 1 .. 2
    BY <2>1, <2>2
  <2>5. GameShare(g, b, f) = joints[f[g]]
    BY <1>4, <2>1 DEF GameShare
  <2>6. /\ joints[f[g]] \in 0 .. 100 /\ Product(ChancesOf(legs)) \in Int
        /\ joints[f[g]] <= Product(ChancesOf(legs))
    <3>1. IsSeq(legs) /\ PricedLegs(legs)
      BY DEF ScanInv, ShapedLegs, GainInv
    <3> QED
      BY <1>4, <2>1, <2>4, <3>1, OpposedGroup
  <2> HIDE DEF joints
  <2>7. p = joints[f[g]]
    BY <2>3, <2>5, <2>6, ShareOfAll
  <2> QED
    BY <2>6, <2>7
<1>5. JointIsFair'
  BY <1>2, <1>3, <1>4 DEF JointIsFair, OpposedPair, ChancesOf
<1> QED
  BY <1>2, <1>5 DEF GainInv, PricedLegs

\* Steps that leave the table alone, and compute nothing.
LEMMA OtherGains ==
  ASSUME GainInv, rows' = rows, legs' \in {legs, <<>>}, pc' # "decide"
  PROVE  GainInv'
<1>1. PricedLegs(legs)'
  <2>1. Len(<<>>) = 0
    OBVIOUS
  <2>2. PricedLegs(<<>>)
    BY <2>1 DEF PricedLegs
  <2> QED
    BY <2>2 DEF GainInv, PricedLegs
<1>2. JointIsFair'
  BY DEF JointIsFair
<1> QED
  BY <1>1, <1>2 DEF GainInv

LEMMA PriceLegGains ==
  ASSUME ScanInv, GainInv, PriceLeg
  PROVE  GainInv'
<1> DEFINE s == Specs[Len(legs) + 1]
<1>1. PICK board \in Boards, p \in Chances(s) : \E o \in Best(Matching(s, board)) :
        p \in 1 .. 99 /\ HasLegKey(o) /\ legs' = Append(legs, Resolved(s, o, p))
  BY DEF PriceLeg
<1>2. PICK o \in Best(Matching(s, board)) :
        p \in 1 .. 99 /\ legs' = Append(legs, Resolved(s, o, p))
  BY <1>1
<1>3. o \in board
  BY DEF Best, Matching
<1>4. o.odds \in Nat
  BY <1>3, OddsAssumption
<1> DEFINE l == Resolved(s, o, p)
<1>5. Priced(l)
  BY <1>2, <1>4 DEF Resolved, Priced
<1> HIDE DEF s, l
<1>6. IsSeq(legs) /\ Len(legs) \in Nat
  BY SeqFacts DEF ScanInv, ShapedLegs
<1>7. /\ Len(legs') = Len(legs) + 1 /\ legs'[Len(legs) + 1] = l
      /\ \A i \in 1 .. Len(legs) : legs'[i] = legs[i]
  BY <1>2, <1>6, AppendFacts DEF l
<1>8. PricedLegs(legs)'
  BY <1>5, <1>6, <1>7 DEF GainInv, PricedLegs
<1>9. pc' = "price" /\ rows' = rows
  BY DEF PriceLeg, storeVars
<1>10. JointIsFair'
  BY <1>9 DEF JointIsFair
<1> QED
  BY <1>8, <1>9, <1>10 DEF GainInv

LEMMA PersistGains ==
  ASSUME ScanInv, GainInv, Persist
  PROVE  GainInv'
<1> DEFINE r == [legs |-> legs, byPrior |-> joint.byPrior, meets |-> MeetsThreshold,
                 bet |-> NoBet]
<1>1. pc = "decide" /\ pc' = "bet" /\ rows' = Append(rows, r) /\ legs' = legs
  BY DEF Persist, workVars
<1>2. /\ r.legs = legs /\ r.byPrior = joint.byPrior /\ r.meets = MeetsThreshold
  OBVIOUS
<1> HIDE DEF r
<1>3. RowGains(r)
  <2> DEFINE q == Tenths(legs)
             product == Product(ChancesOf(legs))
  <2> SUFFICES ASSUME joint.byPrior, MeetsThreshold, OpposedPair(legs)
               PROVE  ParlayEv(product, q) >= MinEv
    BY <1>2 DEF RowGains
  <2>1. joint.p \in Int /\ product \in Int /\ joint.p <= product
    BY <1>1 DEF GainInv, JointIsFair
  <2>2. IsSeq(legs) /\ Len(legs) = 2
    BY DEF ScanInv, ShapedLegs, OpposedPair
  <2>3. q = [i \in 1 .. 2 |-> legs[i].odds]
    BY <2>2, SeqFacts DEF Tenths
  <2>4. DOMAIN q = 1 .. 2 /\ q[1] \in Nat /\ q[2] \in Nat
    BY <2>2, <2>3 DEF GainInv, PricedLegs, Priced
  <2>5. ParlayEv(joint.p, q) >= MinEv
    BY DEF MeetsThreshold
  <2> HIDE DEF q, product
  <2>6. /\ ParlayEv(joint.p, q) \in Int /\ ParlayEv(product, q) \in Int
        /\ ParlayEv(joint.p, q) <= ParlayEv(product, q)
    BY <2>1, <2>4, EvGrows
  <2> QED
    BY <2>5, <2>6, ThresholdAssumption
<1>4. IsSeq(rows) /\ Len(rows) \in Nat
  BY SeqFacts DEF ScanInv, RowsOK
<1>5. /\ Len(rows') = Len(rows) + 1 /\ rows'[Len(rows) + 1] = r
      /\ \A i \in 1 .. Len(rows) : rows'[i] = rows[i]
  BY <1>1, <1>4, AppendFacts
<1>6. \A i \in 1 .. Len(rows') : RowGains(rows'[i])
  BY <1>3, <1>4, <1>5 DEF GainInv
<1>7. JointIsFair' /\ PricedLegs(legs)'
  BY <1>1 DEF JointIsFair, GainInv, PricedLegs
<1> QED
  BY <1>6, <1>7 DEF GainInv, RowGains

LEMMA LinkGains ==
  ASSUME ScanInv, GainInv, Link
  PROVE  GainInv'
<1> DEFINE n == Len(rows)
<1>1. /\ pc' \in {"next", "idle"} /\ legs' = <<>>
      /\ rows' = [rows EXCEPT ![n].bet = BetKey(legs)]
  BY DEF Link, Return, Take
<1>2. IsSeq(rows) /\ n \in Nat /\ DOMAIN rows = 1 .. n
  BY SeqFacts DEF ScanInv, RowsOK
<1>3. ASSUME NEW i \in 1 .. n
      PROVE  /\ rows'[i].legs = rows[i].legs /\ rows'[i].byPrior = rows[i].byPrior
             /\ rows'[i].meets = rows[i].meets
  <2> DEFINE r == rows[i]
  <2>1. r = [legs |-> r.legs, byPrior |-> r.byPrior, meets |-> r.meets, bet |-> r.bet]
    BY DEF ScanInv, RowsOK, ShapedRow
  <2>2. rows'[i] \in {r, [r EXCEPT !.bet = BetKey(legs)]}
    BY <1>1, <1>2
  <2> HIDE DEF r
  <2>3. /\ [r EXCEPT !.bet = BetKey(legs)].legs = r.legs
        /\ [r EXCEPT !.bet = BetKey(legs)].byPrior = r.byPrior
        /\ [r EXCEPT !.bet = BetKey(legs)].meets = r.meets
    BY <2>1
  <2> QED
    BY <2>2, <2>3 DEF r
<1>4. ScanInv'
  BY LinkInv
<1>5. Len(rows') = n
  <2>1. DOMAIN rows' = 1 .. n
    BY <1>1, <1>2
  <2>2. DOMAIN rows' = 1 .. Len(rows') /\ Len(rows') \in Nat
    BY <1>4, SeqFacts DEF ScanInv, RowsOK
  <2> QED
    BY <1>2, <2>1, <2>2
<1>6. \A i \in 1 .. Len(rows') : RowGains(rows'[i])
  BY <1>3, <1>5 DEF GainInv, RowGains
<1>7. PricedLegs(legs)' /\ JointIsFair'
  <2>1. Len(<<>>) = 0
    OBVIOUS
  <2>2. PricedLegs(<<>>)
    BY <2>1 DEF PricedLegs
  <2> QED
    BY <1>1, <2>2 DEF PricedLegs, JointIsFair
<1> QED
  BY <1>6, <1>7 DEF GainInv, RowGains

\* Opposed legs are never combined for the correlation alone, in any scan or
\* request, whichever leg comes first: where the simulation has no
\* correlations, what is actionable is so by the legs' independent product.
THEOREM OpposedLegs == Spec => []OpposedLegsGainNothing
<1>1. Init => ScanInv /\ GainInv
  <2>1. Init => GainInv
    <3> SUFFICES ASSUME Init PROVE GainInv
      OBVIOUS
    <3>1. Len(<<>>) = 0
      OBVIOUS
    <3> QED
      BY <3>1 DEF Init, GainInv, PricedLegs, JointIsFair
  <2> QED
    BY <2>1, InitInv
<1>2. ScanInv /\ GainInv /\ [Next]_vars => ScanInv' /\ GainInv'
  <2> SUFFICES ASSUME ScanInv, GainInv, [Next]_vars PROVE ScanInv' /\ GainInv'
    OBVIOUS
  <2>1. ScanInv'
    BY RestingSteps, IdleSteps, PriceLegInv, JointInv, DiscardInv, PersistInv,
       PlaceParlayInv, PlaceFailsInv, LinkInv, StutterInv DEF Next
  <2>2. CASE EdgesChange \/ StartScan \/ NextCombo \/ ScanEnds \/ Request \/ Resolve
    <3>1. rows' = rows /\ legs' \in {legs, <<>>} /\ pc' # "decide"
      BY <2>2 DEF EdgesChange, StartScan, NextCombo, ScanEnds, Request, Resolve, Take,
                  workVars, storeVars
    <3> QED
      BY <2>1, <3>1, OtherGains
  <2>3. CASE EvaluationFails \/ Discard \/ PersistFails \/ NoBetting \/ Crash
    <3>1. rows' = rows /\ legs' \in {legs, <<>>} /\ pc' # "decide"
      BY <2>3 DEF EvaluationFails, Discard, PersistFails, NoBetting, Crash, Return, Take,
                  workVars, storeVars
    <3> QED
      BY <2>1, <3>1, OtherGains
  <2>4. CASE PlaceParlay \/ PlaceFails
    <3>1. rows' = rows /\ legs' \in {legs, <<>>} /\ pc' # "decide"
      BY <2>4 DEF PlaceParlay, PlaceFails, Betting, Return, Take
    <3> QED
      BY <2>1, <3>1, OtherGains
  <2>5. CASE UNCHANGED vars
    <3>1. GainInv'
      BY <2>5 DEF vars, workVars, storeVars, GainInv, PricedLegs, JointIsFair
    <3> QED
      BY <2>1, <3>1
  <2>6. GainInv'
    BY <2>2, <2>3, <2>4, <2>5, PriceLegGains, JointGains, PersistGains, LinkGains DEF Next
  <2> QED
    BY <2>1, <2>6
<1>3. ScanInv /\ GainInv => OpposedLegsGainNothing
  <2> SUFFICES ASSUME ScanInv, GainInv, NEW i \in DOMAIN rows
               PROVE  LET ls == rows[i].legs
                      IN  rows[i].byPrior /\ rows[i].meets /\ OpposedPair(ls)
                            => ParlayEv(Product(ChancesOf(ls)), Tenths(ls)) >= MinEv
    BY DEF OpposedLegsGainNothing, OpposedPair
  <2>1. RowGains(rows[i])
    BY SeqFacts DEF ScanInv, RowsOK, GainInv
  <2> QED
    BY <2>1 DEF RowGains
<1> QED
  BY <1>1, <1>2, <1>3, PTL DEF Spec

-----------------------------------------------------------------------------
(***************************************************************************)
(* The combinations of a game's candidates.                                *)
(***************************************************************************)

\* Two positions, or three, in increasing order.
Pair(t, n) ==
  t \in [1 .. 2 -> 1 .. n] /\ t[1] < t[2] /\ Len(t) = 2
Triple(t, n) ==
  t \in [1 .. 3 -> 1 .. n] /\ t[1] < t[2] /\ t[2] < t[3] /\ Len(t) = 3

LEMMA PickIs ==
  ASSUME NEW c, NEW n \in Nat, DOMAIN c = 1 .. n, NEW t
  PROVE  t \in Picks(c) <=> Pair(t, n) \/ Triple(t, n)
<1>1. t \in [1 .. 2 -> 1 .. n] => DOMAIN t = 1 .. 2 /\ Len(t) = 2
  OBVIOUS
<1>2. t \in [1 .. 3 -> 1 .. n] => DOMAIN t = 1 .. 3 /\ Len(t) = 3
  OBVIOUS
<1>3. ASSUME t \in Picks(c) PROVE Pair(t, n) \/ Triple(t, n)
  <2>1. t \in [1 .. 2 -> 1 .. n] \/ t \in [1 .. 3 -> 1 .. n]
    BY <1>3 DEF Picks
  <2>2. \A d, e \in DOMAIN t : d < e => t[d] < t[e]
    BY <1>3 DEF Picks
  <2>3. CASE t \in [1 .. 2 -> 1 .. n]
    BY <1>1, <2>2, <2>3 DEF Pair
  <2>4. CASE t \in [1 .. 3 -> 1 .. n]
    <3>1. t[1] < t[2] /\ t[2] < t[3]
      BY <1>2, <2>2, <2>4
    <3> QED
      BY <1>2, <2>4, <3>1 DEF Triple
  <2> QED
    BY <2>1, <2>3, <2>4
<1>4. ASSUME Pair(t, n) PROVE t \in Picks(c)
  <2>1. t \in [1 .. 2 -> 1 .. n] /\ t[1] < t[2]
    BY <1>4 DEF Pair
  <2>2. \A d, e \in DOMAIN t : d < e => t[d] < t[e]
    BY <1>1, <2>1
  <2> QED
    BY <2>1, <2>2 DEF Picks
<1>5. ASSUME Triple(t, n) PROVE t \in Picks(c)
  <2>1. t \in [1 .. 3 -> 1 .. n] /\ t[1] < t[2] /\ t[2] < t[3]
    BY <1>5 DEF Triple
  <2>2. t[1] \in Int /\ t[2] \in Int /\ t[3] \in Int
    BY <2>1
  <2>3. \A d, e \in DOMAIN t : d < e => t[d] < t[e]
    BY <1>2, <2>1, <2>2
  <2> QED
    BY <2>1, <2>3 DEF Picks
<1> QED
  BY <1>3, <1>4, <1>5

\* The order of the combinations, position by position.
LEMMA SmallerIs ==
  ASSUME NEW n \in Nat, NEW t, NEW u
  PROVE  /\ Pair(t, n) /\ Pair(u, n) =>
              (Smaller(t, u) <=> t[1] < u[1] \/ (t[1] = u[1] /\ t[2] < u[2]))
         /\ Triple(t, n) /\ Triple(u, n) =>
              (Smaller(t, u) <=> \/ t[1] < u[1] \/ (t[1] = u[1] /\ t[2] < u[2])
                                 \/ (t[1] = u[1] /\ t[2] = u[2] /\ t[3] < u[3]))
         /\ Pair(t, n) /\ Triple(u, n) => Smaller(t, u) /\ ~Smaller(u, t)
<1>1. ASSUME Pair(t, n), Pair(u, n)
      PROVE  Smaller(t, u) <=> t[1] < u[1] \/ (t[1] = u[1] /\ t[2] < u[2])
  <2>1. DOMAIN t = 1 .. 2 /\ Len(t) = 2 /\ Len(u) = 2
    BY <1>1 DEF Pair
  <2>2. t[1] \in Int /\ t[2] \in Int /\ u[1] \in Int /\ u[2] \in Int
    BY <1>1 DEF Pair
  <2>3. Smaller(t, u) <=> Sooner(t, u)
    BY <2>1 DEF Smaller
  <2> QED
    BY <2>1, <2>2, <2>3 DEF Sooner
<1>2. ASSUME Triple(t, n), Triple(u, n)
      PROVE  Smaller(t, u) <=> \/ t[1] < u[1] \/ (t[1] = u[1] /\ t[2] < u[2])
                               \/ (t[1] = u[1] /\ t[2] = u[2] /\ t[3] < u[3])
  <2>1. DOMAIN t = 1 .. 3 /\ Len(t) = 3 /\ Len(u) = 3
    BY <1>2 DEF Triple
  <2>2. /\ t[1] \in Int /\ t[2] \in Int /\ t[3] \in Int
        /\ u[1] \in Int /\ u[2] \in Int /\ u[3] \in Int
    BY <1>2 DEF Triple
  <2>3. Smaller(t, u) <=> Sooner(t, u)
    BY <2>1 DEF Smaller
  <2> QED
    BY <2>1, <2>2, <2>3 DEF Sooner
<1>3. ASSUME Pair(t, n), Triple(u, n) PROVE Smaller(t, u) /\ ~Smaller(u, t)
  BY <1>3 DEF Pair, Triple, Smaller
<1> QED
  BY <1>1, <1>2, <1>3

LEMMA SamePositions ==
  ASSUME NEW n \in Nat, NEW t, NEW u
  PROVE  /\ Pair(t, n) /\ Pair(u, n) /\ t[1] = u[1] /\ t[2] = u[2] => t = u
         /\ Triple(t, n) /\ Triple(u, n) /\ t[1] = u[1] /\ t[2] = u[2] /\ t[3] = u[3] => t = u
BY DEF Pair, Triple

\* It is a strict order of all of them.
LEMMA SmallerOrder ==
  ASSUME NEW c, NEW n \in Nat, DOMAIN c = 1 .. n,
         NEW t \in Picks(c), NEW u \in Picks(c), NEW v \in Picks(c)
  PROVE  /\ ~Smaller(t, t)
         /\ Smaller(t, u) /\ Smaller(u, v) => Smaller(t, v)
         /\ t # u => Smaller(t, u) \/ Smaller(u, t)
<1> DEFINE P(x) == Pair(x, n)
           T(x) == Triple(x, n)
<1>1. (P(t) \/ T(t)) /\ (P(u) \/ T(u)) /\ (P(v) \/ T(v))
  BY PickIs
<1>2. \A x \in {t, u, v} : /\ P(x) \/ T(x) => x[1] \in Int /\ x[2] \in Int
                           /\ T(x) => x[3] \in Int
  BY DEF Pair, Triple
<1> DEFINE before2(x, y) == x[1] < y[1] \/ (x[1] = y[1] /\ x[2] < y[2])
           before3(x, y) == before2(x, y) \/ (x[1] = y[1] /\ x[2] = y[2] /\ x[3] < y[3])
<1>3. \A x, y \in {t, u, v} : P(x) /\ P(y) => (Smaller(x, y) <=> before2(x, y))
  BY SmallerIs
<1>4. \A x, y \in {t, u, v} : T(x) /\ T(y) => (Smaller(x, y) <=> before3(x, y))
  BY SmallerIs
<1>5. \A x, y \in {t, u, v} : P(x) /\ T(y) => Smaller(x, y) /\ ~Smaller(y, x)
  BY SmallerIs
<1>6. /\ P(t) /\ P(u) /\ t[1] = u[1] /\ t[2] = u[2] => t = u
      /\ T(t) /\ T(u) /\ t[1] = u[1] /\ t[2] = u[2] /\ t[3] = u[3] => t = u
  BY SamePositions
<1> HIDE DEF P, T
<1>7. ~Smaller(t, t)
  BY <1>1, <1>2, <1>3, <1>4
<1>8. Smaller(t, u) /\ Smaller(u, v) => Smaller(t, v)
  BY <1>1, <1>2, <1>3, <1>4, <1>5
<1>9. t # u => Smaller(t, u) \/ Smaller(u, t)
  BY <1>1, <1>2, <1>3, <1>4, <1>5, <1>6
<1> QED
  BY <1>7, <1>8, <1>9

Valid(c) == {t \in Picks(c) : Combinable(Combo(c, t))}
Before(c, t) == {u \in Valid(c) : Smaller(u, t)}

LEMMA CountTo ==
  ASSUME NEW n \in Nat
  PROVE  IsFiniteSet(1 .. n) /\ Cardinality(1 .. n) = n
BY FS_Interval

\* They are finitely many.
LEMMA FiniteValid ==
  ASSUME NEW c, NEW n \in Nat, DOMAIN c = 1 .. n
  PROVE  IsFiniteSet(Valid(c))
<1> DEFINE two == (1 .. n) \X (1 .. n)
           three == (1 .. n) \X two
           pairs == {t \in Valid(c) : Pair(t, n)}
           triples == {t \in Valid(c) : Triple(t, n)}
           f == [t \in pairs |-> <<t[1], t[2]>>]
           g == [t \in triples |-> <<t[1], <<t[2], t[3]>>>>]
<1>1. IsFiniteSet(1 .. n)
  BY FS_Interval
<1>2. IsFiniteSet(two)
  BY <1>1, FS_Product
<1>3. IsFiniteSet(three)
  BY <1>1, <1>2, FS_Product
<1>4. f \in Injection(pairs, two)
  <2>1. f \in [pairs -> two]
    BY DEF Pair
  <2>2. \A t, u \in pairs : f[t] = f[u] => t = u
    BY SamePositions
  <2> QED
    BY <2>1, <2>2 DEF Injection, IsInjective
<1>5. g \in Injection(triples, three)
  <2>1. g \in [triples -> three]
    BY DEF Triple
  <2>2. \A t, u \in triples : g[t] = g[u] => t = u
    BY SamePositions
  <2> QED
    BY <2>1, <2>2 DEF Injection, IsInjective
<1> HIDE DEF f, g, two, three
<1>6. IsFiniteSet(pairs)
  BY <1>2, <1>4, FS_Injection
<1>7. IsFiniteSet(triples)
  BY <1>3, <1>5, FS_Injection
<1>8. Valid(c) = pairs \union triples
  BY PickIs DEF Valid
<1> QED
  BY <1>6, <1>7, <1>8, FS_Union

\* At most fifteen of six candidates' combinations come before a pair.
LEMMA BeforePair ==
  ASSUME NEW c, NEW n \in 0 .. 6, DOMAIN c = 1 .. n, NEW t, Pair(t, n)
  PROVE  Cardinality(Before(c, t)) \in 0 .. 15
<1> DEFINE place(u) == u[1] + (IF u[2] = 2 THEN 0 ELSE IF u[2] = 3 THEN 1
                               ELSE IF u[2] = 4 THEN 3 ELSE IF u[2] = 5 THEN 6 ELSE 10)
           f == [u \in Before(c, t) |-> place(u)]
<1>1. n \in Nat
  OBVIOUS
<1>2. \A u \in Before(c, t) : Pair(u, n)
  <2> SUFFICES ASSUME NEW u \in Before(c, t) PROVE Pair(u, n)
    OBVIOUS
  <2>1. u \in Picks(c) /\ Smaller(u, t)
    BY DEF Before, Valid
  <2>2. Pair(u, n) \/ Triple(u, n)
    BY <1>1, <2>1, PickIs
  <2> QED
    BY <1>1, <2>1, <2>2, SmallerIs
<1>3. \A u \in Before(c, t) : u[1] \in 1 .. 6 /\ u[2] \in 1 .. 6 /\ u[1] < u[2]
  BY <1>2 DEF Pair
<1>4. f \in [Before(c, t) -> 1 .. 15]
  BY <1>3
<1>5. ASSUME NEW u \in Before(c, t), NEW v \in Before(c, t), f[u] = f[v] PROVE u = v
  <2>1. place(u) = place(v)
    BY <1>5
  <2>2. u[1] = v[1] /\ u[2] = v[2]
    BY <1>3, <2>1
  <2> QED
    BY <1>1, <1>2, <2>2, SamePositions
<1>6. f \in Injection(Before(c, t), 1 .. 15)
  BY <1>4, <1>5 DEF Injection, IsInjective
<1> HIDE DEF f
<1>7. IsFiniteSet(1 .. 15) /\ Cardinality(1 .. 15) = 15
  BY CountTo
<1>8. IsFiniteSet(Before(c, t)) /\ Cardinality(Before(c, t)) <= 15
  BY <1>6, <1>7, FS_Injection
<1> QED
  BY <1>8, FS_CardinalityType

\* The number of those before it tells a combination.
LEMMA RankTells ==
  ASSUME NEW c, NEW n \in Nat, DOMAIN c = 1 .. n, NEW t \in Valid(c)
  PROVE  /\ Cardinality(Before(c, t)) \in Nat /\ Cardinality(Valid(c)) \in Nat
         /\ Cardinality(Before(c, t)) < Cardinality(Valid(c))
         /\ \A u \in Valid(c) : Cardinality(Before(c, u)) = Cardinality(Before(c, t)) => u = t
<1>1. IsFiniteSet(Valid(c))
  BY FiniteValid
<1>2. \A u \in Valid(c) : u \in Picks(c) /\ Before(c, u) \subseteq Valid(c) /\ ~Smaller(u, u)
  BY SmallerOrder DEF Valid, Before
<1>3. \A u \in Valid(c) : IsFiniteSet(Before(c, u)) /\ Cardinality(Before(c, u)) \in Nat
  BY <1>1, <1>2, FS_Subset, FS_CardinalityType
<1>4. Cardinality(Valid(c)) \in Nat
  BY <1>1, FS_CardinalityType
<1>5. Cardinality(Before(c, t)) < Cardinality(Valid(c))
  <2>1. t \notin Before(c, t)
    BY <1>2 DEF Before
  <2>2. Cardinality(Before(c, t)) <= Cardinality(Valid(c))
        /\ (Cardinality(Valid(c)) = Cardinality(Before(c, t)) => Valid(c) = Before(c, t))
    BY <1>1, <1>2, FS_Subset
  <2> QED
    BY <1>3, <1>4, <2>1, <2>2
<1>6. ASSUME NEW u \in Valid(c), NEW v \in Valid(c), Smaller(u, v)
      PROVE  Cardinality(Before(c, u)) < Cardinality(Before(c, v))
  <2>1. Before(c, u) \subseteq Before(c, v)
    BY <1>2, <1>6, SmallerOrder DEF Before
  <2>2. u \in Before(c, v) /\ u \notin Before(c, u)
    BY <1>2, <1>6 DEF Before
  <2>3. Cardinality(Before(c, u)) <= Cardinality(Before(c, v))
        /\ (Cardinality(Before(c, v)) = Cardinality(Before(c, u)) => Before(c, v) = Before(c, u))
    BY <1>3, <2>1, FS_Subset
  <2> QED
    BY <1>3, <2>2, <2>3
<1>7. ASSUME NEW u \in Valid(c), Cardinality(Before(c, u)) = Cardinality(Before(c, t)) PROVE u = t
  <2> SUFFICES ASSUME u # t PROVE FALSE
    OBVIOUS
  <2>1. Smaller(u, t) \/ Smaller(t, u)
    BY <1>2, SmallerOrder
  <2> QED
    BY <1>3, <1>6, <1>7, <2>1
<1> QED
  BY <1>3, <1>4, <1>5, <1>7

\* There is room for it among the first twenty.
LEMMA FitsIn ==
  ASSUME NEW before \in 0 .. 15, NEW all \in Nat, before < all
  PROVE  before + 1 \in 1 .. Min({20, all})
<1>1. \E m \in {20, all} : \A z \in {20, all} : m <= z
  BY 20 <= all \/ all <= 20
<1>2. Min({20, all}) \in {20, all}
  BY <1>1 DEF Min
<1>3. before + 1 \in 1 .. 20 /\ before + 1 \in 1 .. all
  OBVIOUS
<1> QED
  BY <1>2, <1>3

\* No pair that may be combined is cut off.
LEMMA PairIsCombined ==
  ASSUME NEW c, NEW n \in 0 .. 6, DOMAIN c = 1 .. n,
         NEW i \in 1 .. n, NEW j \in 1 .. n, i < j, ComboKey(c[i]) # ComboKey(c[j])
  PROVE  <<c[i], c[j]>> \in ToSet(Combinations(c))
<1> DEFINE t == <<i, j>>
           k == Cardinality(Before(c, t)) + 1
           found(m) == CHOOSE u \in Valid(c) : Cardinality(Before(c, u)) = m - 1
<1>1. n \in Nat
  OBVIOUS
<1>2. Pair(t, n)
  BY DEF Pair
<1>3. t \in Picks(c)
  BY <1>1, <1>2, PickIs
<1>4. Combo(c, t) = <<c[i], c[j]>>
  BY DEF Combo
<1>5. Combinable(<<c[i], c[j]>>)
  <2> DEFINE d == <<c[i], c[j]>>
             props == {e \in DOMAIN d : d[e].market = PlayerProp}
  <2>1. \A e, f \in DOMAIN d : e # f => ComboKey(d[e]) # ComboKey(d[f])
    OBVIOUS
  <2>2. props \subseteq 1 .. 2
    OBVIOUS
  <2>3. IsFiniteSet(1 .. 2) /\ Cardinality(1 .. 2) = 2
    BY CountTo
  <2> HIDE DEF props
  <2>4. Cardinality(props) <= Cardinality(1 .. 2)
    BY <2>2, <2>3, FS_Subset, Zenon
  <2>5. Cardinality(props) <= 2
    BY <2>3, <2>4
  <2> QED
    BY <2>1, <2>5 DEF Combinable, props
<1>6. t \in Valid(c)
  BY <1>3, <1>4, <1>5 DEF Valid
<1> HIDE DEF t
<1>7. Cardinality(Before(c, t)) \in 0 .. 15
  BY <1>2, BeforePair
<1>8. /\ Cardinality(Valid(c)) \in Nat
      /\ Cardinality(Before(c, t)) < Cardinality(Valid(c))
      /\ \A u \in Valid(c) : Cardinality(Before(c, u)) = Cardinality(Before(c, t)) => u = t
  BY <1>1, <1>6, RankTells
<1>9. k \in 1 .. Min({20, Cardinality(Valid(c))})
  BY <1>7, <1>8, FitsIn
<1>10. found(k) = t
  <2>1. \E u \in Valid(c) : Cardinality(Before(c, u)) = k - 1
    BY <1>6, <1>7
  <2>2. found(k) \in Valid(c) /\ Cardinality(Before(c, found(k))) = k - 1
    BY <2>1
  <2> QED
    BY <1>7, <1>8, <2>2
<1> HIDE DEF k
<1>11. Combinations(c) = [m \in 1 .. Min({20, Cardinality(Valid(c))}) |-> Combo(c, found(m))]
  BY DEF Combinations, Valid, Before
<1> HIDE DEF found
<1>12. k \in DOMAIN Combinations(c) /\ Combinations(c)[k] = Combo(c, t)
  BY <1>9, <1>10, <1>11
<1> QED
  BY <1>4, <1>12 DEF ToSet, t

\* There are at most six candidates.
LEMMA SixOf ==
  ASSUME NEW all \in Nat
  PROVE  Min({6, all}) \in 0 .. 6
<1>1. \E m \in {6, all} : \A z \in {6, all} : m <= z
  BY 6 <= all \/ all <= 6
<1>2. Min({6, all}) \in {6, all} /\ \A z \in {6, all} : Min({6, all}) <= z
  BY <1>1 DEF Min
<1> QED
  BY <1>2

LEMMA CandidatesAreSix ==
  ASSUME NEW edges, NEW n \in Nat, DOMAIN edges = 1 .. n, NEW minEv, NEW includeProps
  PROVE  \E k \in 0 .. 6 : DOMAIN SelectCandidates(edges, minEv, includeProps) = 1 .. k
<1> DEFINE near == {i \in DOMAIN edges :
                      LET e == edges[i]
                      IN  /\ e.market \in Allowed /\ e.ev >= minEv
                          /\ e.market = PlayerProp => includeProps /\ e.who[1] # "" /\ e.who[2] # ""}
           sameLeg(i) == {j \in near : LegKey(edges[j]) = LegKey(edges[i])}
           more(i, j) == edges[i].ev > edges[j].ev
           best == {i \in near : \A j \in sameLeg(i) : ~more(j, i) /\ (more(i, j) \/ i <= j)}
           ahead(i, j) == more(i, j) \/ (~more(j, i) /\ Min(sameLeg(i)) < Min(sameLeg(j)))
           at(k) == edges[CHOOSE i \in best : Cardinality({j \in best : ahead(j, i)}) = k - 1]
<1>1. SelectCandidates(edges, minEv, includeProps)
        = [k \in 1 .. Min({6, Cardinality(best)}) |-> at(k)]
  BY DEF SelectCandidates
<1>2. best \subseteq 1 .. n
  OBVIOUS
<1> HIDE DEF best, at
<1>3. Cardinality(best) \in Nat
  BY <1>2, CountTo, FS_Subset, FS_CardinalityType
<1>4. DOMAIN SelectCandidates(edges, minEv, includeProps) = 1 .. Min({6, Cardinality(best)})
  BY <1>1
<1> QED
  BY <1>3, <1>4, SixOf

LEMMA EveryScanTriesPairs ==
  ASSUME active \in Pools, todo = <<>>, todo' # <<>>, [Next]_vars,
         NEW i \in DOMAIN CandidatesOf[active], NEW j \in DOMAIN CandidatesOf[active], i < j,
         ComboKey(CandidatesOf[active][i]) # ComboKey(CandidatesOf[active][j])
  PROVE  <<CandidatesOf[active][i], CandidatesOf[active][j]>> \in ToSet(todo')
<1> DEFINE c == SelectCandidates(active, MinEdgeEv, IncludeProps)
<1>1. CandidatesOf[active] = c
  BY DEF CandidatesOf
<1>2. StartScan
  BY DEF Next, vars, workVars, storeVars, EdgesChange, NextCombo, ScanEnds, Request, Take, Return,
         Resolve, PriceLeg, EvaluationFails, JointProbability, Discard, Persist, PersistFails,
         NoBetting, PlaceParlay, PlaceFails, Link, Crash
<1>3. todo' = Combinations(c)
  BY <1>1, <1>2 DEF StartScan, CombinationsOf
<1>4. active \in Seq(ToSet(active))
  BY PoolAssumption
<1>5. DOMAIN active = 1 .. Len(active) /\ Len(active) \in Nat
  BY <1>4
<1> HIDE DEF c
<1>6. PICK n \in 0 .. 6 : DOMAIN c = 1 .. n
  BY <1>5, CandidatesAreSix DEF c
<1> QED
  BY <1>1, <1>3, <1>6, PairIsCombined

PoolInv == active \in Pools

LEMMA PoolKept == Spec => []PoolInv
<1>1. Init => PoolInv
  BY DEF Init, PoolInv
<1>2. PoolInv /\ [Next]_vars => PoolInv'
  BY DEF PoolInv, Next, vars, EdgesChange, StartScan, NextCombo, ScanEnds, Request, Return,
         Resolve, PriceLeg, EvaluationFails, JointProbability, Discard, Persist, PersistFails,
         NoBetting, PlaceParlay, PlaceFails, Link, Crash
<1> QED
  BY <1>1, <1>2, PTL DEF Spec

\* Whatever the cap on combinations cuts off, it is no pair: six candidates
\* make fifteen pairs, which come before any three and within the first twenty
\* (enumerate_combinations).
THEOREM PairsTried == Spec => EveryPairIsTried
<1>1. PoolInv /\ [Next]_vars
        => [todo = <<>> /\ todo' # <<>> =>
              LET cands == CandidatesOf[active]
              IN  \A i, j \in DOMAIN cands :
                    i < j /\ ComboKey(cands[i]) # ComboKey(cands[j])
                      => <<cands[i], cands[j]>> \in ToSet(todo')]_vars
  BY EveryScanTriesPairs DEF PoolInv
<1> QED
  BY <1>1, PoolKept, PTL DEF Spec, EveryPairIsTried
=============================================================================
