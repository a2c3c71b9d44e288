------------------------------ MODULE AutoBettor ------------------------------
(***************************************************************************)
(* Sizing and placing of bets: AutoBettor.fetch_bankroll, plan and         *)
(* place_bet, scale_simultaneous_bets, and the bookie-emulator they talk   *)
(* to.  One process per league stands for the runs of that league, which   *)
(* follow each other (module PipelineRuns); runs of two leagues overlap.   *)
(*                                                                         *)
(* Money is in cents, Kelly fractions and the exposure cap in percent of   *)
(* the bankroll.  A bet is known to the emulator by its idempotency key:   *)
(* game, market, selection, book, line and odds.  A moved price makes a    *)
(* new key.  Settlement is left out: a placed bet stays open.              *)
(***************************************************************************)
EXTENDS Integers, FiniteSetsExt

CONSTANTS
  League,         \* the leagues whose runs bet
  Key,            \* the idempotency keys
  KeyLeague,      \* the league of each key
  Kelly,          \* the Kelly fractions a candidate may have, in percent
  Cap,            \* max_total_exposure, in percent
  Bankroll,       \* the emulator's bankroll, in cents
  Fallback,       \* FALLBACK_BANKROLL_UNITS, in cents
  ParlayStakes,   \* stakes of parlays the scan may place; {} unless PARLAY_AUTO_BET
  Faults          \* the faults the emulator may cause

FaultKind == {"bet_error", "bankroll_error"}

ASSUME FiniteAssumption == IsFiniteSet(League) /\ IsFiniteSet(Key)
ASSUME MoneyAssumption ==
  Cap \in 0 .. 100 /\ Bankroll \in Nat /\ Fallback \in Nat /\ ParlayStakes \subseteq Nat
ASSUME KellyAssumption == Kelly \subseteq 1 .. 100
ASSUME KeyAssumption == KeyLeague \in [Key -> League]
ASSUME FaultsAssumption == Faults \subseteq FaultKind

-----------------------------------------------------------------------------
(***************************************************************************)
(* plan, as a function of the bettable candidates' Kelly fractions.        *)
(***************************************************************************)

Total(f) == MapThenSumSet(LAMBDA k : f[k], DOMAIN f)

\* round(n / d) to a whole cent, halves to even.
RoundDiv(n, d) ==
  LET q == n \div d
      twice == 2 * (n % d)
  IN  IF twice > d \/ (twice = d /\ q % 2 = 1) THEN q + 1 ELSE q

\* Mutant of Available: what is open already does not count.
AvailableIgnoringOpen(bankroll, open) == Cap * bankroll

\* max(cap - open / bankroll, 0) of the bankroll, in cents * 100.
Available(bankroll, open) ==
  LET room == Cap * bankroll - 100 * open IN IF room > 0 THEN room ELSE 0

\* The stake of each candidate: its Kelly stake when all of them fit into the
\* available exposure, its proportional part of the available one otherwise.
Stakes(kelly, bankroll, open) ==
  LET total == Total(kelly)
      room  == Available(bankroll, open)
  IN  [k \in DOMAIN kelly |->
         IF total * bankroll <= room THEN RoundDiv(kelly[k] * bankroll, 100)
         ELSE RoundDiv(kelly[k] * room, total * 100)]

-----------------------------------------------------------------------------
VARIABLES
  pc,       \* where the run of each league is
  stakes,   \* the run's bets still to place: key -> stake, 0 for none
  bets,     \* the emulator's bets: key -> stake, 0 for none
  parlays,  \* the exposure of the parlays placed
  blind     \* history: the exposure has grown in a way a plan did not see

vars == <<pc, stakes, bets, parlays, blind>>

NoStakes == [k \in Key |-> 0]

KeysOf(l) == {k \in Key : KeyLeague[k] = l}

\* What the emulator reports as open_bets_exposure_units.
OpenExposure == Total(bets) + parlays

Init ==
  /\ pc = [l \in League |-> "pricing"]
  /\ stakes = [l \in League |-> NoStakes]
  /\ bets = NoStakes
  /\ parlays = 0
  /\ blind = FALSE

\* Another league's run has bets it has planned and not yet placed.
OthersPending(l) == \E m \in League \ {l} : stakes[m] # NoStakes

\* The run sizes what it wants to bet on; a zero stake is not a bet.
SizeFor(l, bankroll, open) ==
  /\ pc[l] = "pricing"
  /\ pc' = [pc EXCEPT ![l] = "betting"]
  /\ \E bettable \in SUBSET KeysOf(l) : \E kelly \in [bettable -> Kelly] :
       LET sized == Stakes(kelly, bankroll, open) IN
       stakes' = [stakes EXCEPT ![l] =
                    [k \in Key |-> IF k \in bettable THEN sized[k] ELSE 0]]
  /\ UNCHANGED <<bets, parlays>>

\* fetch_bankroll and plan: no await between the answer and the plan.
FetchAndPlan(l) ==
  /\ SizeFor(l, Bankroll, OpenExposure)
  /\ blind' = (blind \/ OthersPending(l))

\* The bankroll cannot be fetched: the fallback, with nothing open.
FetchFailsAndPlan(l) ==
  /\ "bankroll_error" \in Faults
  /\ SizeFor(l, Fallback, 0)
  /\ blind' = TRUE

\* The parlay scan places a parlay, sized by its own Kelly fraction alone.
PlaceParlay(l) ==
  /\ pc[l] = "betting"
  /\ parlays = 0
  /\ parlays' \in ParlayStakes
  /\ blind' = TRUE
  /\ UNCHANGED <<pc, stakes, bets>>

\* The emulator places the bet unless it knows the key; it answers with the
\* bet it holds under that key.
Place(l, k) ==
  /\ bets' = IF bets[k] = 0 THEN [bets EXCEPT ![k] = stakes[l][k]] ELSE bets
  /\ stakes' = [stakes EXCEPT ![l][k] = 0]
  /\ UNCHANGED <<pc, parlays, blind>>

PlaceBet(l, k) ==
  /\ pc[l] = "betting"
  /\ stakes[l][k] > 0
  /\ Place(l, k)

\* An ApiError: the run goes on to the next bet; the emulator may or may not
\* have placed this one (PlaceBet covers the case that it has).
PlaceBetFails(l, k) ==
  /\ "bet_error" \in Faults
  /\ pc[l] = "betting"
  /\ stakes[l][k] > 0
  /\ stakes' = [stakes EXCEPT ![l][k] = 0]
  /\ UNCHANGED <<pc, bets, parlays, blind>>

\* Every bet has been attempted; the next run of the league may begin.
EndRun(l) ==
  /\ pc[l] = "betting"
  /\ stakes[l] = NoStakes
  /\ pc' = [pc EXCEPT ![l] = "pricing"]
  /\ UNCHANGED <<stakes, bets, parlays, blind>>

Next ==
  \E l \in League :
    \/ FetchAndPlan(l) \/ FetchFailsAndPlan(l) \/ PlaceParlay(l) \/ EndRun(l)
    \/ \E k \in Key : PlaceBet(l, k) \/ PlaceBetFails(l, k)

Spec == Init /\ [][Next]_vars

-----------------------------------------------------------------------------
TypeOK ==
  /\ pc \in [League -> {"pricing", "betting"}]
  /\ stakes \in [League -> [Key -> Nat]]
  /\ \A l \in League, k \in Key : stakes[l][k] > 0 => KeyLeague[k] = l
  /\ bets \in [Key -> Nat]
  /\ parlays \in ParlayStakes \union {0}

\* The cap on the open exposure, with half a cent for the rounding of each bet.
WithinCap(exposure, keys) ==
  100 * exposure <= Cap * Bankroll + 50 * Cardinality(keys)

OpenKeys == {k \in Key : bets[k] > 0}

\* The cap is only ever exceeded through what no plan looks at: the bets that
\* an overlapping run has planned and not placed, parlays, and the bets that
\* are open while the bankroll is unknown.  Runs that follow each other keep
\* it, whichever of their bets fail or are found placed already, and the bets
\* a run still has to place fit too (bettor.py:156-162).
CapExceededOnlyBlindly ==
  ~blind =>
    LET pending == [k \in Key |-> Total([l \in League |-> stakes[l][k]])]
    IN  WithinCap(OpenExposure + Total(pending),
                  OpenKeys \union {k \in Key : pending[k] > 0})
=============================================================================
