-------------------------- MODULE PipelineExecution --------------------------
(***************************************************************************)
(* One pipeline run from the inside: PipelineRunner._execute,              *)
(* _execute_inner and _process_game.                                       *)
(*                                                                         *)
(* Every game of the run is a coroutine behind a semaphore; the run's own  *)
(* coroutine gathers them, plans the bets over all candidates, inserts the *)
(* edges, dispatches alerts and places the bets one after the other.       *)
(*                                                                         *)
(* What a client call may do is the constant Faults: "api" is an ApiError  *)
(* (status, timeout, malformed envelope), "parse" any other exception a    *)
(* client raises (a body that is not JSON or fails validation), "db" an    *)
(* exception of a repository, "cancel" the cancellation of the run's task. *)
(***************************************************************************)
EXTENDS Naturals, FiniteSets

CONSTANTS
  Game,           \* the games of the run
  Candidate,      \* the edge candidates the detector may find
  CandidateGame,  \* the game of each candidate
  NoCandidate,    \* no bet is being linked
  Concurrency,    \* PIPELINE_CONCURRENCY, the semaphore's initial value
  Faults          \* the faults the environment may cause

FaultKind == {"api", "parse", "db", "cancel"}

ASSUME ConcurrencyAssumption == Concurrency \in Nat \ {0}
ASSUME GameAssumption == IsFiniteSet(Game)
ASSUME CandidateAssumption ==
  /\ IsFiniteSet(Candidate) /\ NoCandidate \notin Candidate
  /\ CandidateGame \in [Candidate -> Game]
ASSUME FaultsAssumption == Faults \subseteq FaultKind

VARIABLES
  at,          \* where each game's coroutine is
  err,         \* _GameOutcome.errors: the step that failed, if any
  mapped,      \* the games whose lines-service id was found
  cand,        \* the candidates found
  actionable,  \* the candidates that meet the threshold
  main,        \* where _execute is
  toBet,       \* BetPlan.to_bet
  edges,       \* the edge rows inserted by this run
  alerted,     \* the edges handed to dispatch_all
  attempted,   \* the bets the loop over to_bet has come to
  placed,      \* the bets the emulator holds
  linking,     \* the bet the emulator answered and that is not linked yet
  linked,      \* the edges that carry their paper bet id
  betErr,      \* the keys of bet_errors: games
  row          \* the pipeline_runs row of this run

gameVars == <<at, err, mapped, cand, actionable>>
edgeVars == <<edges, alerted>>
betVars == <<toBet, attempted, placed, linking, linked, betErr>>
vars == <<gameVars, main, edgeVars, betVars, row>>

\* The stages of _process_game that call a service, and the step an ApiError
\* there is recorded under.
StepOf == [simulating |-> "simulation", predicting |-> "prediction", pricing |-> "edge_detection"]
Calling == DOMAIN StepOf
InProgress == Calling \union {"resolving"}
GamePlace == InProgress \union {"queued", "done", "raised", "killed"}
Errors == {StepOf[s] : s \in Calling}

MainPlace == {"gather", "plan", "insert", "bet", "publish", "finish",
              "committed", "failing", "closed"}

\* Mutant of Holders: a game that fails keeps its slot.
HoldersAndFailed == {g \in Game : at[g] \in InProgress \/ err[g] # "none"}

Holders == {g \in Game : at[g] \in InProgress}
Failed == {g \in Game : err[g] # "none"}

Init ==
  /\ at = [g \in Game |-> "queued"]
  /\ err = [g \in Game |-> "none"]
  /\ mapped = {} /\ cand = {} /\ actionable = {}
  /\ main = "gather"
  /\ edges = {} /\ alerted = {}
  /\ toBet = {} /\ attempted = {} /\ placed = {} /\ linking = NoCandidate /\ linked = {} /\ betErr = {}
  /\ row = [status |-> "RUNNING", processed |-> 0, edges |-> 0, bets |-> 0,
            gameErrors |-> {}, betErrors |-> {}]

-----------------------------------------------------------------------------
(***************************************************************************)
(* _process_game.                                                          *)
(***************************************************************************)

CandidatesOf(g) == {c \in Candidate : CandidateGame[c] = g}

MoveGame(g, place) == at' = [at EXCEPT ![g] = place]

\* The coroutine acquires the semaphore.
Acquire(g) ==
  /\ at[g] = "queued"
  /\ Cardinality(Holders) < Concurrency
  /\ MoveGame(g, "resolving")
  /\ UNCHANGED <<err, mapped, cand, actionable, main, edgeVars, betVars, row>>

\* The reconciler finds the lines-service game, or not; it never raises.
Resolve(g) ==
  /\ at[g] = "resolving"
  /\ MoveGame(g, "simulating")
  /\ mapped' \in {mapped, mapped \union {g}}
  /\ UNCHANGED <<err, cand, actionable, main, edgeVars, betVars, row>>

\* The latest simulation, or a new one when there is none or on force_refresh.
Simulate(g) ==
  /\ at[g] = "simulating"
  /\ MoveGame(g, "predicting")
  /\ UNCHANGED <<err, mapped, cand, actionable, main, edgeVars, betVars, row>>

\* The predictions arrive; a game without lines-service id ends here.
Predict(g) ==
  /\ at[g] = "predicting"
  /\ IF g \in mapped
       THEN MoveGame(g, "pricing") /\ UNCHANGED err
       ELSE MoveGame(g, "done") /\ err' = [err EXCEPT ![g] = "edge_detection"]
  /\ UNCHANGED <<mapped, cand, actionable, main, edgeVars, betVars, row>>

\* The lines arrive and the detector finds its candidates.  (The player prop
\* step between the two swallows every exception.)
Detect(g) ==
  /\ at[g] = "pricing"
  /\ MoveGame(g, "done")
  /\ \E found \in SUBSET CandidatesOf(g) :
       /\ cand' = cand \union found
       /\ \E strong \in SUBSET found : actionable' = actionable \union strong
  /\ UNCHANGED <<err, mapped, main, edgeVars, betVars, row>>

\* A service call of the game raises an ApiError: recorded, the game ends.
GameFails(g) ==
  /\ "api" \in Faults
  /\ at[g] \in Calling
  /\ err' = [err EXCEPT ![g] = StepOf[at[g]]]
  /\ MoveGame(g, "done")
  /\ UNCHANGED <<mapped, cand, actionable, main, edgeVars, betVars, row>>

\* Any other exception leaves the coroutine; gather() hands the first one to
\* the run at once and leaves the other coroutines running.
GameRaises(g) ==
  /\ "parse" \in Faults
  /\ at[g] \in Calling
  /\ MoveGame(g, "raised")
  /\ main' = IF main = "gather" THEN "failing" ELSE main
  /\ UNCHANGED <<err, mapped, cand, actionable, edgeVars, betVars, row>>

-----------------------------------------------------------------------------
(***************************************************************************)
(* _execute_inner.                                                         *)
(***************************************************************************)

\* Mutant of Collect: the run goes on with the first game that has ended.
CollectFirst ==
  /\ main = "gather"
  /\ \E g \in Game : at[g] = "done"
  /\ row' = [row EXCEPT !.processed = Cardinality(Game \ Failed), !.gameErrors = Failed]
  /\ main' = "plan"
  /\ UNCHANGED <<gameVars, edgeVars, betVars>>

\* Every coroutine has ended: the outcome of the games is written.
Collect ==
  /\ main = "gather"
  /\ \A g \in Game : at[g] = "done"
  /\ row' = [row EXCEPT !.processed = Cardinality(Game \ Failed), !.gameErrors = Failed]
  /\ main' = "plan"
  /\ UNCHANGED <<gameVars, edgeVars, betVars>>

\* The bankroll is fetched, or its fallback used, and the bets are chosen
\* among the actionable candidates (none unless auto_bet).
Plan ==
  /\ main = "plan"
  /\ toBet' \in SUBSET actionable
  /\ main' = "insert"
  /\ UNCHANGED <<gameVars, edgeVars, attempted, placed, linking, linked, betErr, row>>

InsertEdge(c) ==
  /\ main = "insert"
  /\ c \in cand \ edges
  /\ edges' = edges \union {c}
  /\ UNCHANGED <<gameVars, main, alerted, betVars, row>>

\* dispatch_all and _scan_parlays: neither raises.
Dispatch ==
  /\ main = "insert"
  /\ edges = cand
  /\ alerted' = actionable
  /\ main' = "bet"
  /\ UNCHANGED <<gameVars, edges, betVars, row>>

Unattempted == toBet \ attempted

\* The emulator places the bet and its answer arrives.
PlaceBet(c) ==
  /\ main = "bet" /\ linking = NoCandidate
  /\ c \in Unattempted
  /\ attempted' = attempted \union {c}
  /\ placed' = placed \union {c}
  /\ linking' = c
  /\ UNCHANGED <<gameVars, main, edgeVars, toBet, linked, betErr, row>>

\* An ApiError: the emulator refused the bet, or placed it and the answer
\* did not arrive in time.
PlaceBetFails(c) ==
  /\ "api" \in Faults
  /\ main = "bet" /\ linking = NoCandidate
  /\ c \in Unattempted
  /\ attempted' = attempted \union {c}
  /\ placed' \in {placed, placed \union {c}}
  /\ betErr' = betErr \union {CandidateGame[c]}
  /\ UNCHANGED <<gameVars, main, edgeVars, toBet, linking, linked, row>>

\* set_paper_bet.
LinkBet ==
  /\ main = "bet" /\ linking # NoCandidate
  /\ linked' = linked \union {linking}
  /\ linking' = NoCandidate
  /\ UNCHANGED <<gameVars, main, edgeVars, toBet, attempted, placed, betErr, row>>

\* Mutants of WriteProgress: the bet errors are not written; the final status
\* is written with the progress.
WriteProgressOnly ==
  /\ main = "bet" /\ linking = NoCandidate
  /\ Unattempted = {}
  /\ row' = [row EXCEPT !.edges = Cardinality(edges), !.bets = Cardinality(linked)]
  /\ main' = "publish"
  /\ UNCHANGED <<gameVars, edgeVars, betVars>>

WriteProgressAndStatus ==
  /\ main = "bet" /\ linking = NoCandidate
  /\ Unattempted = {}
  /\ row' = [row EXCEPT !.edges = Cardinality(edges), !.bets = Cardinality(linked),
                        !.betErrors = betErr, !.status = "COMPLETED_WITH_ERRORS"]
  /\ main' = "publish"
  /\ UNCHANGED <<gameVars, edgeVars, betVars>>

WriteProgress ==
  /\ main = "bet" /\ linking = NoCandidate
  /\ Unattempted = {}
  /\ row' = [row EXCEPT !.edges = Cardinality(edges), !.bets = Cardinality(linked),
                        !.betErrors = betErr]
  /\ main' = "publish"
  /\ UNCHANGED <<gameVars, edgeVars, betVars>>

\* publish_prediction_completed: best effort.
Publish ==
  /\ main = "publish"
  /\ main' = "finish"
  /\ UNCHANGED <<gameVars, edgeVars, betVars, row>>

\* Mutants of FinalStatus: bet errors do not count; any error is a failure.
StatusOfGames ==
  CASE Failed = {}                -> "COMPLETED"
    [] Failed = Game /\ Game # {} -> "FAILED"
    [] OTHER                      -> "COMPLETED_WITH_ERRORS"

StatusAnyErrorFails ==
  IF Failed = {} /\ betErr = {} THEN "COMPLETED" ELSE "FAILED"

FinalStatus ==
  CASE Failed = {} /\ betErr = {} -> "COMPLETED"
    [] Failed = Game /\ Game # {} -> "FAILED"
    [] OTHER                      -> "COMPLETED_WITH_ERRORS"

Finish ==
  /\ main = "finish"
  /\ row' = [row EXCEPT !.status = FinalStatus]
  /\ main' = "committed"
  /\ UNCHANGED <<gameVars, edgeVars, betVars>>

Return ==
  /\ main = "committed"
  /\ main' = "closed"
  /\ UNCHANGED <<gameVars, edgeVars, betVars, row>>

\* A repository raises, or the emulator answers with what is not a bet (the
\* bet may be placed): the rest of the run is skipped.
Raise ==
  \/ /\ "db" \in Faults
     /\ \/ main = "gather" /\ \A g \in Game : at[g] = "done"
        \/ main = "insert" /\ edges # cand
        \/ main = "bet" /\ (linking # NoCandidate \/ Unattempted = {})
        \/ main \in {"finish", "committed"}
     /\ main' = "failing"
     /\ UNCHANGED <<gameVars, edgeVars, betVars, row>>
  \/ /\ "parse" \in Faults
     /\ main = "plan" \/ (main = "bet" /\ linking = NoCandidate /\ Unattempted # {})
     /\ main' = "failing"
     /\ IF main = "bet"
          THEN \E c \in Unattempted : placed' \in {placed, placed \union {c}}
          ELSE UNCHANGED placed
     /\ UNCHANGED <<gameVars, edgeVars, toBet, attempted, linking, linked, betErr, row>>

\* Cancelling the run while it gathers cancels the games' coroutines too.
Cancel ==
  /\ "cancel" \in Faults
  /\ main \notin {"failing", "closed"}
  /\ main' = "failing"
  /\ at' = [g \in Game |->
              IF main = "gather" /\ at[g] \in InProgress \union {"queued"}
                THEN "killed" ELSE at[g]]
  /\ UNCHANGED <<err, mapped, cand, actionable, edgeVars, betVars, row>>

\* Mutant of MarkFailed: the exception is logged and no more.
LogFailure ==
  /\ main = "failing"
  /\ main' = "closed"
  /\ UNCHANGED <<gameVars, edgeVars, betVars, row>>

\* The except clauses of _execute.  (Their own failure is in PipelineRuns.)
MarkFailed ==
  /\ main = "failing"
  /\ row' = [row EXCEPT !.status = "FAILED"]
  /\ main' = "closed"
  /\ UNCHANGED <<gameVars, edgeVars, betVars>>

-----------------------------------------------------------------------------
GameStep(g) ==
  \/ Acquire(g) \/ Resolve(g) \/ Simulate(g) \/ Predict(g) \/ Detect(g)
  \/ GameFails(g) \/ GameRaises(g)

MainStep ==
  \/ Collect \/ Plan \/ Dispatch \/ LinkBet \/ WriteProgress \/ Publish \/ Finish \/ Return
  \/ \E c \in Candidate : InsertEdge(c) \/ PlaceBet(c) \/ PlaceBetFails(c)
  \/ Raise \/ MarkFailed

Next ==
  \/ \E g \in Game : GameStep(g)
  \/ MainStep
  \/ Cancel

Spec == Init /\ [][Next]_vars

\* Every awaited call ends (each has a timeout) and the event loop resumes
\* its coroutine; the semaphore wakes its waiters in order.
Fairness == WF_vars(MainStep) /\ \A g \in Game : WF_vars(GameStep(g))

FairSpec == Spec /\ Fairness

-----------------------------------------------------------------------------
(***************************************************************************)
(* Properties.                                                             *)
(***************************************************************************)

UpTo(S) == 0 .. Cardinality(S)

RowType ==
  [status : {"RUNNING", "COMPLETED", "COMPLETED_WITH_ERRORS", "FAILED"},
   processed : UpTo(Game), edges : UpTo(Candidate), bets : UpTo(Candidate),
   gameErrors : SUBSET Game, betErrors : SUBSET Game]

TypeOK ==
  /\ at \in [Game -> GamePlace]
  /\ err \in [Game -> Errors \union {"none"}]
  /\ mapped \subseteq Game
  /\ actionable \subseteq cand /\ cand \subseteq Candidate
  /\ main \in MainPlace
  /\ edges \subseteq cand /\ alerted \subseteq edges
  /\ toBet \subseteq actionable /\ attempted \subseteq toBet /\ placed \subseteq toBet
  /\ linking \in attempted \union {NoCandidate}
  /\ linked \subseteq placed /\ betErr \subseteq Game
  /\ row \in RowType

\* COMPLETED is claimed only for a run in which every game was priced, every
\* edge inserted and every planned bet placed and linked, and then the row
\* counts them all (pipeline.py:243-250).
CompletedMeansComplete ==
  row.status = "COMPLETED" =>
    /\ Failed = {} /\ row.processed = Cardinality(Game)
    /\ edges = cand /\ row.edges = Cardinality(cand)
    /\ linked = toBet /\ row.bets = Cardinality(toBet)

\* A bet the emulator holds and no edge points to is never lost silently in a
\* run that reached its end: its game is among the row's bet errors (the
\* answer to place_bet was lost, pipeline.py:217).
UnlinkedBetIsReported ==
  row.status \in {"COMPLETED", "COMPLETED_WITH_ERRORS"}
    => {CandidateGame[c] : c \in placed \ linked} \subseteq row.betErrors

\* A run that itself concludes FAILED (no except clause involved) has placed
\* no bet and inserted no edge (pipeline.py:246: every game has failed).
FailedMeansNothingBet ==
  main = "committed" /\ row.status = "FAILED" => placed = {} /\ edges = {}

\* Bets are sized and placed only when the outcome of every game is known: a
\* game cannot still be priced while a bet sized without it goes out.
BetsWaitForEveryGame == placed # {} => \A g \in Game : at[g] = "done"

\* A run always comes to its end.
RunCloses == <>(main = "closed" /\ row.status # "RUNNING")

\* Every game gets its turn whatever happens to the other games: a failing
\* game gives its semaphore slot back.
EveryGameEnds == \A g \in Game : <>(at[g] \in {"done", "raised", "killed"})

-----------------------------------------------------------------------------
(***************************************************************************)
(* The run seen from module PipelineRuns: one run, already launched.       *)
(***************************************************************************)

ThisRun == "run"

TaskPlaceOf ==
  CASE main = "committed" -> "committed"
    [] main = "failing"   -> "failing"
    [] main = "closed"    -> "done"
    [] OTHER              -> "executing"

Runs == INSTANCE PipelineRuns WITH
          League <- {"league"}, All <- "ALL", Run <- {ThisRun}, NoRun <- "no run", Caller <- {},
          Faults <- {"cancel_task", "db"},
          status <- [r \in {ThisRun} |-> row.status],
          scope <- [r \in {ThisRun} |-> "league"],
          task <- [r \in {ThisRun} |-> TaskPlaceOf],
          pc <- <<>>, want <- <<>>, own <- <<>>, window <- <<>>

\* Every step of the run is one step of the task of module PipelineRuns, or
\* none: the final status is written once, before the task ends, and only an
\* except clause may write FAILED over it.
RefinesTask == [][Runs!TaskStep(ThisRun) \/ Runs!CancelTask(ThisRun)]_(Runs!vars)
=============================================================================
