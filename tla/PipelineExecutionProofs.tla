----------------------- MODULE PipelineExecutionProofs -----------------------
(***************************************************************************)
(* Proofs about PipelineExecution for any games, candidates, concurrency   *)
(* and faults.                                                             *)
(*                                                                         *)
(* What the row says at the end is a matter of everything that happened    *)
(* before: that COMPLETED tells the truth follows from what each stage of  *)
(* the run leaves behind (Stages), from the place every attempted bet is   *)
(* in (Booked), and from the row being written once, by the stage that     *)
(* knows (Written, Closing).  ExecutionInv puts them together.             *)
(***************************************************************************)
EXTENDS PipelineExecution, FiniteSetTheorems, TLAPS

-----------------------------------------------------------------------------
(***************************************************************************)
(* The inductive invariant.                                                *)
(***************************************************************************)

\* The stages before the first bet, after the gather, and after the last bet.
BeforeBets == {"gather", "plan", "insert"}
AfterGather == {"plan", "insert", "bet", "publish", "finish", "committed"}
AfterBets == {"publish", "finish", "committed"}

AllDone == \A g \in Game : at[g] = "done"

\* A candidate belongs to a game that ended without an error; a game that is
\* not through has no error yet.
Games ==
  /\ \A c \in cand : at[CandidateGame[c]] = "done" /\ err[CandidateGame[c]] = "none"
  /\ \A g \in Game : at[g] \in InProgress \union {"queued"} => err[g] = "none"

\* What the run has not touched before each stage, and what each leaves.
Stages ==
  /\ main \in AfterGather => AllDone
  /\ main \in BeforeBets =>
       /\ attempted = {} /\ placed = {} /\ linked = {} /\ betErr = {}
       /\ linking = NoCandidate
  /\ main = "gather" => edges = {}
  /\ main \in {"gather", "plan"} => toBet = {}
  /\ main \in {"bet"} \union AfterBets => edges = cand
  /\ main \in AfterBets => linking = NoCandidate /\ attempted = toBet

\* While the run bets, every attempted bet is linked, is being linked, or has
\* left an error under its game; the emulator holds no others.
Booked ==
  /\ linking = NoCandidate \/ linking \in placed
  /\ main \in {"bet"} \union AfterBets =>
       /\ placed \subseteq attempted
       /\ \A c \in attempted :
            c \in linked \/ c = linking \/ CandidateGame[c] \in betErr

\* What the row shows at each stage.
Written ==
  /\ main \in AfterGather => row.processed = Cardinality(Game \ Failed)
  /\ main \in AfterBets =>
       /\ row.edges = Cardinality(edges) /\ row.bets = Cardinality(linked)
       /\ row.betErrors = betErr

\* The final status is written by Finish, or by an except clause.
Closing ==
  /\ main \in (BeforeBets \union {"bet", "publish", "finish"}) => row.status = "RUNNING"
  /\ main = "committed" => row.status = FinalStatus
  /\ row.status \in {"COMPLETED", "COMPLETED_WITH_ERRORS"} => main \in {"committed", "failing", "closed"}
  /\ row.status # "RUNNING" /\ main # "closed" => AllDone
  /\ row.status \in {"COMPLETED", "COMPLETED_WITH_ERRORS"} => AllDone

ExecutionInv ==
  /\ TypeOK
  /\ Games
  /\ Stages
  /\ Booked
  /\ Written
  /\ Closing
  /\ CompletedMeansComplete
  /\ UnlinkedBetIsReported
  /\ BetsWaitForEveryGame

-----------------------------------------------------------------------------
LEMMA PartCardinality ==
  ASSUME NEW S, IsFiniteSet(S), NEW T \in SUBSET S
  PROVE  Cardinality(T) \in UpTo(S)
<1>1. IsFiniteSet(T) /\ Cardinality(T) <= Cardinality(S)
  BY FS_Subset
<1>2. Cardinality(T) \in Nat /\ Cardinality(S) \in Nat
  BY <1>1, FS_CardinalityType
<1> QED
  BY <1>1, <1>2 DEF UpTo

LEMMA ExecutionInit == Init => ExecutionInv
<1> SUFFICES ASSUME Init PROVE ExecutionInv
  OBVIOUS
<1> USE DEF Init
<1>1. TypeOK
  <2>1. 0 \in UpTo(Game) /\ 0 \in UpTo(Candidate)
    BY PartCardinality, GameAssumption, CandidateAssumption, FS_EmptySet
  <2> QED
    BY <2>1 DEF TypeOK, GamePlace, InProgress, MainPlace, RowType
<1>2. Games /\ Stages /\ Booked /\ Written /\ Closing
  BY DEF Games, Stages, Booked, Written, Closing, BeforeBets, AfterGather, AfterBets
<1>3. CompletedMeansComplete /\ UnlinkedBetIsReported /\ BetsWaitForEveryGame
  BY DEF CompletedMeansComplete, UnlinkedBetIsReported, BetsWaitForEveryGame
<1> QED
  BY <1>1, <1>2, <1>3 DEF ExecutionInv

-----------------------------------------------------------------------------
(***************************************************************************)
(* The steps of a game.                                                    *)
(***************************************************************************)

\* Whatever a game does, the run has not come past the gather, or has failed
\* there: nothing is bet on and no final status claims anything.
LEMMA GameLeavesRun ==
  ASSUME ExecutionInv, NEW g \in Game, at[g] # "done",
         main' = main \/ (main = "gather" /\ main' = "failing"),
         UNCHANGED <<edgeVars, betVars, row>>,
         TypeOK', Games'
  PROVE  ExecutionInv'
<1> USE DEF ExecutionInv, edgeVars, betVars
<1>1. main \notin AfterGather /\ placed = {}
  BY DEF Stages, AllDone, BetsWaitForEveryGame
<1>2. row.status \notin {"COMPLETED", "COMPLETED_WITH_ERRORS"}
  BY DEF Closing, AllDone
<1>3. main' \notin AfterGather
  BY <1>1 DEF AfterGather
<1>4. main' \in BeforeBets => main' = main
  BY DEF BeforeBets
<1>5. Stages'
  BY <1>3, <1>4 DEF Stages, BeforeBets, AfterGather, AfterBets
<1>6. Booked' /\ Written'
  BY <1>1, <1>3 DEF Booked, Written, AfterGather, AfterBets
<1>7. Closing'
  BY <1>1, <1>2, <1>3 DEF Closing, BeforeBets, AfterGather, AllDone
<1>8. CompletedMeansComplete' /\ UnlinkedBetIsReported' /\ BetsWaitForEveryGame'
  BY <1>1, <1>2 DEF CompletedMeansComplete, UnlinkedBetIsReported, BetsWaitForEveryGame
<1> QED
  BY <1>5, <1>6, <1>7, <1>8

\* A game that goes on, or leaves its coroutine, without an error of its own.
LEMMA GameGoesOn ==
  ASSUME ExecutionInv, NEW g \in Game, NEW place \in GamePlace \ {"queued", "done"},
         at[g] \in InProgress \union {"queued"}, MoveGame(g, place),
         mapped' \in SUBSET Game,
         main' = main \/ (main = "gather" /\ main' = "failing"),
         UNCHANGED <<err, cand, actionable, edgeVars, betVars, row>>
  PROVE  ExecutionInv'
<1> USE DEF ExecutionInv, edgeVars, betVars, MoveGame
<1>1. TypeOK'
  BY DEF TypeOK, MainPlace
<1>2. Games'
  BY CandidateAssumption DEF Games, TypeOK, InProgress, Calling, StepOf
<1>3. at[g] # "done"
  BY DEF InProgress, Calling, StepOf
<1> QED
  BY <1>1, <1>2, <1>3, GameLeavesRun

\* A game that ends with an error.
LEMMA GameEndsBadly ==
  ASSUME ExecutionInv, NEW g \in Game, NEW step \in Errors,
         at[g] \in InProgress, MoveGame(g, "done"), err' = [err EXCEPT ![g] = step],
         UNCHANGED <<mapped, cand, actionable, main, edgeVars, betVars, row>>
  PROVE  ExecutionInv'
<1> USE DEF ExecutionInv, edgeVars, betVars, MoveGame
<1>1. TypeOK'
  BY DEF TypeOK, GamePlace
<1>2. at[g] # "done"
  BY DEF InProgress, Calling, StepOf
<1>3. Games'
  BY <1>2, CandidateAssumption DEF Games, TypeOK, InProgress, Calling, StepOf
<1> QED
  BY <1>1, <1>2, <1>3, GameLeavesRun

LEMMA DetectInv ==
  ASSUME ExecutionInv, NEW g \in Game, Detect(g)
  PROVE  ExecutionInv'
<1> USE DEF ExecutionInv, edgeVars, betVars, MoveGame, Detect
<1>1. PICK found \in SUBSET CandidatesOf(g) :
        cand' = cand \union found
        /\ \E strong \in SUBSET found : actionable' = actionable \union strong
  OBVIOUS
<1>2. TypeOK'
  BY <1>1 DEF TypeOK, GamePlace, CandidatesOf
<1>3. err[g] = "none"
  BY DEF Games, InProgress, Calling, StepOf
<1>4. Games'
  BY <1>1, <1>3, CandidateAssumption DEF Games, TypeOK, CandidatesOf, InProgress, Calling, StepOf
<1> QED
  BY <1>2, <1>4, GameLeavesRun

LEMMA GameStepInv ==
  ASSUME ExecutionInv, NEW g \in Game, GameStep(g)
  PROVE  ExecutionInv'
<1> USE DEF InProgress, Calling, StepOf, GamePlace, Errors
<1>0. mapped \in SUBSET Game
  BY DEF ExecutionInv, TypeOK
<1>1. CASE Acquire(g)
  BY <1>0, <1>1, GameGoesOn DEF Acquire
<1>2. CASE Resolve(g)
  BY <1>0, <1>2, GameGoesOn DEF Resolve
<1>3. CASE Simulate(g)
  BY <1>0, <1>3, GameGoesOn DEF Simulate
<1>4. CASE Predict(g) /\ g \in mapped
  BY <1>0, <1>4, GameGoesOn DEF Predict
<1>5. CASE Predict(g) /\ g \notin mapped
  BY <1>5, GameEndsBadly DEF Predict
<1>6. CASE Detect(g)
  BY <1>6, DetectInv
<1>7. CASE GameFails(g)
  BY <1>7, GameEndsBadly DEF GameFails
<1>8. CASE GameRaises(g)
  BY <1>0, <1>8, GameGoesOn DEF GameRaises
<1> QED
  BY <1>1, <1>2, <1>3, <1>4, <1>5, <1>6, <1>7, <1>8 DEF GameStep

-----------------------------------------------------------------------------
(***************************************************************************)
(* The steps of the run.                                                   *)
(***************************************************************************)

LEMMA CollectInv == ASSUME ExecutionInv, Collect PROVE ExecutionInv'
<1> USE DEF ExecutionInv, Collect, gameVars, edgeVars, betVars
<1>1. Cardinality(Game \ Failed) \in UpTo(Game) /\ Failed \in SUBSET Game
  BY PartCardinality, GameAssumption DEF Failed
<1>2. /\ row'.status = row.status /\ row'.processed = Cardinality(Game \ Failed)
      /\ row' \in RowType
  BY <1>1 DEF TypeOK, RowType
<1>3. TypeOK' /\ Games'
  BY <1>2 DEF TypeOK, Games, MainPlace
<1>4. Stages' /\ Booked'
  BY DEF Stages, Booked, BeforeBets, AfterGather, AfterBets, AllDone
<1>5. Written'
  BY <1>2 DEF Written, AfterBets, Failed
<1>6. row.status = "RUNNING"
  BY DEF Closing, BeforeBets
<1>7. Closing'
  BY <1>2, <1>6 DEF Closing
<1>8. CompletedMeansComplete' /\ UnlinkedBetIsReported' /\ BetsWaitForEveryGame'
  BY <1>2, <1>6 DEF CompletedMeansComplete, UnlinkedBetIsReported, BetsWaitForEveryGame
<1> QED
  BY <1>3, <1>4, <1>5, <1>7, <1>8

\* The steps of the run before its final status that do not write the row.
LEMMA RunGoesOn ==
  ASSUME ExecutionInv, main \in AfterGather \ {"committed"}, main' \in AfterGather \ {"committed"},
         main' \in AfterBets => main \in AfterBets /\ UNCHANGED <<edgeVars, betVars>>,
         UNCHANGED <<gameVars, row>>, TypeOK', Stages', Booked'
  PROVE  ExecutionInv'
<1> USE DEF ExecutionInv, gameVars, edgeVars, betVars
<1>1. AllDone
  BY DEF Stages
<1>2. row.status = "RUNNING"
  BY DEF Closing, BeforeBets, AfterGather
<1>3. Games' /\ Written'
  BY DEF Games, Written, Failed
<1>4. Closing'
  BY <1>2 DEF Closing, AfterGather
<1>5. CompletedMeansComplete' /\ UnlinkedBetIsReported' /\ BetsWaitForEveryGame'
  BY <1>1, <1>2 DEF CompletedMeansComplete, UnlinkedBetIsReported, BetsWaitForEveryGame, AllDone
<1> QED
  BY <1>3, <1>4, <1>5

LEMMA PlanInv == ASSUME ExecutionInv, Plan PROVE ExecutionInv'
<1> USE DEF ExecutionInv, Plan, gameVars, edgeVars, AfterGather, AfterBets, BeforeBets
<1>1. TypeOK'
  BY DEF TypeOK, MainPlace, Stages
<1>2. Stages' /\ Booked'
  BY DEF Stages, Booked, AllDone
<1> QED
  BY <1>1, <1>2, RunGoesOn

LEMMA InsertEdgeInv ==
  ASSUME ExecutionInv, NEW c \in Candidate, InsertEdge(c)
  PROVE  ExecutionInv'
<1> USE DEF ExecutionInv, InsertEdge, gameVars, betVars, AfterGather, AfterBets, BeforeBets
<1>1. TypeOK'
  BY DEF TypeOK, MainPlace
<1>2. Stages' /\ Booked'
  BY DEF Stages, Booked, AllDone
<1> QED
  BY <1>1, <1>2, RunGoesOn

LEMMA DispatchInv == ASSUME ExecutionInv, Dispatch PROVE ExecutionInv'
<1> USE DEF ExecutionInv, Dispatch, gameVars, betVars, AfterGather, AfterBets, BeforeBets
<1>1. TypeOK'
  BY DEF TypeOK, MainPlace
<1>2. Stages' /\ Booked'
  BY DEF Stages, Booked, AllDone
<1> QED
  BY <1>1, <1>2, RunGoesOn

LEMMA PlaceBetInv ==
  ASSUME ExecutionInv, NEW c \in Candidate, PlaceBet(c) \/ PlaceBetFails(c)
  PROVE  ExecutionInv'
<1> USE DEF ExecutionInv, PlaceBet, PlaceBetFails, Unattempted, gameVars, edgeVars,
            AfterGather, AfterBets, BeforeBets
<1>1. TypeOK'
  BY CandidateAssumption DEF TypeOK, MainPlace
<1>2. Stages'
  BY DEF Stages, AllDone
<1>3. Booked'
  BY CandidateAssumption DEF Booked, TypeOK
<1> QED
  BY <1>1, <1>2, <1>3, RunGoesOn

LEMMA LinkBetInv == ASSUME ExecutionInv, LinkBet PROVE ExecutionInv'
<1> USE DEF ExecutionInv, LinkBet, gameVars, edgeVars, AfterGather, AfterBets, BeforeBets
<1>1. TypeOK'
  BY DEF TypeOK, MainPlace, Booked
<1>2. Stages' /\ Booked'
  BY DEF Stages, Booked, AllDone
<1> QED
  BY <1>1, <1>2, RunGoesOn

LEMMA WriteProgressInv == ASSUME ExecutionInv, WriteProgress PROVE ExecutionInv'
<1> USE DEF ExecutionInv, WriteProgress, Unattempted, gameVars, edgeVars, betVars,
            AfterGather, AfterBets, BeforeBets
<1>1. edges \in SUBSET Candidate /\ linked \in SUBSET Candidate
  BY DEF TypeOK
<1>2. Cardinality(edges) \in UpTo(Candidate) /\ Cardinality(linked) \in UpTo(Candidate)
  BY <1>1, PartCardinality, CandidateAssumption
<1>3. /\ row' \in RowType
      /\ row'.status = row.status /\ row'.processed = row.processed
      /\ row'.edges = Cardinality(edges) /\ row'.bets = Cardinality(linked)
      /\ row'.betErrors = betErr
  BY <1>2 DEF TypeOK, RowType
<1>4. TypeOK' /\ Games'
  BY <1>3 DEF TypeOK, Games, MainPlace
<1>5. Stages' /\ Booked'
  BY DEF Stages, Booked, AllDone, TypeOK
<1>6. Written'
  BY <1>3 DEF Written, Failed
<1>7. row.status = "RUNNING"
  BY DEF Closing
<1>8. Closing'
  BY <1>3, <1>7 DEF Closing
<1>9. CompletedMeansComplete' /\ UnlinkedBetIsReported' /\ BetsWaitForEveryGame'
  BY <1>3, <1>7 DEF CompletedMeansComplete, UnlinkedBetIsReported, BetsWaitForEveryGame
<1> QED
  BY <1>4, <1>5, <1>6, <1>8, <1>9

LEMMA PublishInv == ASSUME ExecutionInv, Publish PROVE ExecutionInv'
<1> USE DEF ExecutionInv, Publish, gameVars, edgeVars, betVars, AfterGather, AfterBets, BeforeBets
<1>1. TypeOK'
  BY DEF TypeOK, MainPlace
<1>2. Stages' /\ Booked'
  BY DEF Stages, Booked, AllDone
<1> QED
  BY <1>1, <1>2, RunGoesOn

\* The final status is the truth about the games, the edges and the bets.
LEMMA FinishInv == ASSUME ExecutionInv, Finish PROVE ExecutionInv'
<1> USE DEF ExecutionInv, Finish, gameVars, edgeVars, betVars, AfterGather, AfterBets, BeforeBets
<1>1. FinalStatus \in {"COMPLETED", "COMPLETED_WITH_ERRORS", "FAILED"}
  BY DEF FinalStatus
<1>2. /\ row' \in RowType /\ row'.status = FinalStatus
      /\ row'.processed = row.processed /\ row'.edges = row.edges /\ row'.bets = row.bets
      /\ row'.betErrors = row.betErrors
  BY <1>1 DEF TypeOK, RowType
<1>3. TypeOK' /\ Games'
  BY <1>2 DEF TypeOK, Games, MainPlace
<1>4. AllDone /\ edges = cand /\ linking = NoCandidate /\ attempted = toBet
  BY DEF Stages
<1>5. Stages' /\ Booked'
  BY DEF Stages, Booked, AllDone
<1>6. Written'
  BY <1>2 DEF Written, Failed
<1>7. Closing'
  BY <1>1, <1>2, <1>4 DEF Closing, FinalStatus, Failed, AllDone
<1>8. \A c \in toBet : c \in linked \/ CandidateGame[c] \in betErr
  BY <1>4, CandidateAssumption DEF Booked, TypeOK
<1>9. CompletedMeansComplete'
  <2> SUFFICES ASSUME FinalStatus = "COMPLETED"
               PROVE  /\ Failed = {} /\ row.processed = Cardinality(Game)
                      /\ edges = cand /\ row.edges = Cardinality(cand)
                      /\ linked = toBet /\ row.bets = Cardinality(toBet)
    BY <1>2 DEF CompletedMeansComplete, Failed
  <2>1. Failed = {} /\ betErr = {}
    BY DEF FinalStatus
  <2>2. linked = toBet
    BY <1>8, <2>1 DEF TypeOK
  <2>3. Game \ Failed = Game
    BY <2>1
  <2> QED
    BY <1>4, <2>1, <2>2, <2>3 DEF Written
<1>10. UnlinkedBetIsReported'
  BY <1>2, <1>8 DEF UnlinkedBetIsReported, TypeOK, Written
<1>11. BetsWaitForEveryGame'
  BY <1>4 DEF BetsWaitForEveryGame, AllDone
<1> QED
  BY <1>3, <1>5, <1>6, <1>7, <1>9, <1>10, <1>11

\* The run ends, or leaves its path: what the row claims stays as it is.
LEMMA LeaveInv ==
  ASSUME ExecutionInv, main \notin {"failing", "closed"},
         main' = "failing" \/ (main = "committed" /\ main' = "closed"),
         UNCHANGED <<err, mapped, cand, actionable, edgeVars, toBet, attempted, linking, linked,
                     betErr, row>>,
         \A g \in Game : at'[g] # at[g] => main = "gather" /\ at'[g] = "killed" /\ at[g] # "done",
         TypeOK',
         placed' = placed \/ (main = "bet" /\ placed \subseteq placed')
  PROVE  ExecutionInv'
<1> USE DEF ExecutionInv, edgeVars, AfterGather, AfterBets, BeforeBets
<1>1. main = "gather" \/ AllDone
  BY DEF Stages, TypeOK, MainPlace
<1>2. AllDone => AllDone'
  BY DEF AllDone
<1>3. main # "committed" => row.status = "RUNNING"
  BY DEF Closing, TypeOK, MainPlace
<1>4. Games'
  BY CandidateAssumption DEF Games, TypeOK, InProgress, Calling, StepOf
<1>5. Stages' /\ Booked' /\ Written'
  BY DEF Stages, Booked, Written
<1>6. Closing'
  BY <1>1, <1>2, <1>3 DEF Closing
<1>7. CompletedMeansComplete' /\ UnlinkedBetIsReported'
  BY <1>3 DEF CompletedMeansComplete, UnlinkedBetIsReported, Failed
<1>8. BetsWaitForEveryGame'
  BY <1>1, <1>2 DEF BetsWaitForEveryGame, AllDone, Stages
<1> QED
  BY <1>4, <1>5, <1>6, <1>7, <1>8

LEMMA ReturnInv == ASSUME ExecutionInv, Return PROVE ExecutionInv'
<1> USE DEF Return, gameVars, edgeVars, betVars
<1>1. TypeOK'
  BY DEF ExecutionInv, TypeOK, MainPlace
<1> QED
  BY <1>1, LeaveInv

LEMMA RaiseInv == ASSUME ExecutionInv, Raise PROVE ExecutionInv'
<1> USE DEF Raise, Unattempted, gameVars, edgeVars, betVars
<1>1. TypeOK'
  BY DEF ExecutionInv, TypeOK, MainPlace
<1>2. placed' = placed \/ (main = "bet" /\ placed \subseteq placed')
  OBVIOUS
<1> QED
  BY <1>1, <1>2, LeaveInv

LEMMA CancelInv == ASSUME ExecutionInv, Cancel PROVE ExecutionInv'
<1> USE DEF Cancel, edgeVars, betVars
<1>1. \A g \in Game :
        at'[g] # at[g] => main = "gather" /\ at'[g] = "killed" /\ at[g] # "done"
  BY DEF InProgress, Calling, StepOf
<1>2. TypeOK'
  BY DEF ExecutionInv, TypeOK, MainPlace, GamePlace
<1> QED
  BY <1>1, <1>2, LeaveInv

LEMMA MarkFailedInv == ASSUME ExecutionInv, MarkFailed PROVE ExecutionInv'
<1> USE DEF ExecutionInv, MarkFailed, gameVars, edgeVars, betVars, AfterGather, AfterBets, BeforeBets
<1>1. row' \in RowType /\ row'.status = "FAILED"
  BY DEF TypeOK, RowType
<1>2. TypeOK' /\ Games'
  BY <1>1 DEF TypeOK, Games, MainPlace
<1>3. Stages' /\ Booked' /\ Written' /\ Closing'
  BY <1>1 DEF Stages, Booked, Written, Closing
<1>4. CompletedMeansComplete' /\ UnlinkedBetIsReported' /\ BetsWaitForEveryGame'
  BY <1>1 DEF CompletedMeansComplete, UnlinkedBetIsReported, BetsWaitForEveryGame
<1> QED
  BY <1>2, <1>3, <1>4

LEMMA ExecutionNext == ASSUME ExecutionInv, [Next]_vars PROVE ExecutionInv'
<1>1. CASE \E g \in Game : GameStep(g)
  BY <1>1, GameStepInv
<1>2. CASE MainStep
  BY <1>2, CollectInv, PlanInv, DispatchInv, LinkBetInv, WriteProgressInv, PublishInv,
     FinishInv, ReturnInv, InsertEdgeInv, PlaceBetInv, RaiseInv, MarkFailedInv DEF MainStep
<1>3. CASE Cancel
  BY <1>3, CancelInv
<1>4. CASE UNCHANGED vars
  BY <1>4 DEF vars, gameVars, edgeVars, betVars, ExecutionInv, TypeOK, Games, Stages, Booked,
     Written, Closing, CompletedMeansComplete, UnlinkedBetIsReported, BetsWaitForEveryGame,
     AllDone, Failed, FinalStatus
<1> QED
  BY <1>1, <1>2, <1>3, <1>4 DEF Next

-----------------------------------------------------------------------------
(***************************************************************************)
(* The theorems.                                                           *)
(***************************************************************************)

\* Type correctness, and what each stage of a run leaves behind, for any
\* games, candidates, semaphore and faults.
THEOREM ExecutionInvariant == Spec => []ExecutionInv
<1> QED
  BY ExecutionInit, ExecutionNext, PTL DEF Spec

\* COMPLETED tells the truth: no game failed, every edge is inserted, every
\* planned bet is placed and linked, and the row counts them.
THEOREM CompletedIsComplete == Spec => []CompletedMeansComplete
<1>1. ExecutionInv => CompletedMeansComplete
  BY DEF ExecutionInv
<1> QED
  BY <1>1, ExecutionInvariant, PTL

\* In a run that reached its end, a bet without an edge is among its errors.
THEOREM UnlinkedIsReported == Spec => []UnlinkedBetIsReported
<1>1. ExecutionInv => UnlinkedBetIsReported
  BY DEF ExecutionInv
<1> QED
  BY <1>1, ExecutionInvariant, PTL

\* No bet goes out while a game is still being priced.
THEOREM BetsWait == Spec => []BetsWaitForEveryGame
<1>1. ExecutionInv => BetsWaitForEveryGame
  BY DEF ExecutionInv
<1> QED
  BY <1>1, ExecutionInvariant, PTL

\* Only a run without a single candidate concludes FAILED by itself: every game
\* has failed, and a failed game contributes nothing.
THEOREM FailedBetNothing == Spec => []FailedMeansNothingBet
<1>1. ASSUME ExecutionInv, main = "committed", row.status = "FAILED"
      PROVE  placed = {} /\ edges = {}
  <2> USE <1>1 DEF ExecutionInv
  <2>1. Failed = Game
    BY DEF Closing, FinalStatus
  <2>2. cand = {}
    BY <2>1, CandidateAssumption DEF Games, Failed, TypeOK
  <2> QED
    BY <2>2 DEF TypeOK
<1>2. ExecutionInv => FailedMeansNothingBet
  BY <1>1 DEF FailedMeansNothingBet
<1> QED
  BY <1>2, ExecutionInvariant, PTL

-----------------------------------------------------------------------------
(***************************************************************************)
(* The run is one task of module PipelineRuns.                             *)
(***************************************************************************)

\* A step that neither moves the run across a boundary of the task nor writes
\* the final status is none of the task's.
LEMMA InsideTask ==
  ASSUME TaskPlaceOf' = TaskPlaceOf, row'.status = row.status
  PROVE  UNCHANGED Runs!vars
BY DEF Runs!vars

LEMMA WritesNoStatus ==
  ASSUME ExecutionInv, Collect \/ WriteProgress
  PROVE  row'.status = row.status
BY DEF ExecutionInv, TypeOK, RowType, Collect, WriteProgress

\* The run raises, or is cancelled, before the end of its task.
LEMMA RaisesInTask ==
  ASSUME TypeOK, main \notin {"failing", "closed"}, main' = "failing",
         main # "committed" \/ "db" \in Faults, UNCHANGED row
  PROVE  Runs!TaskStep(ThisRun)
<1>1. TaskPlaceOf \in {"executing", "committed"} /\ TaskPlaceOf' = "failing"
  BY DEF TaskPlaceOf
<1>2. CASE TaskPlaceOf = "executing"
  BY <1>1, <1>2 DEF Runs!TaskStep, Runs!Raise, Runs!MoveTask, Runs!rowVars, Runs!callVars
<1>3. CASE TaskPlaceOf = "committed"
  BY <1>1, <1>3 DEF Runs!TaskStep, Runs!FinishRaises, Runs!MoveTask, Runs!rowVars, Runs!callVars
<1> QED
  BY <1>1, <1>2, <1>3

LEMMA RefinementStep ==
  ASSUME ExecutionInv, [Next]_vars
  PROVE  Runs!TaskStep(ThisRun) \/ Runs!CancelTask(ThisRun) \/ UNCHANGED Runs!vars
<1> USE DEF TaskPlaceOf
<1>1. CASE \E g \in Game : GameStep(g) /\ ~GameRaises(g)
  <2>1. main' = main /\ row' = row
    BY <1>1 DEF GameStep, Acquire, Resolve, Simulate, Predict, Detect, GameFails
  <2> QED
    BY <2>1, InsideTask
<1>2. CASE \E g \in Game : GameRaises(g)
  <2>1. row' = row /\ (main' = main \/ (main = "gather" /\ main' = "failing"))
    BY <1>2 DEF GameRaises
  <2> QED
    BY <2>1, InsideTask, RaisesInTask DEF ExecutionInv
<1>3. CASE Collect \/ WriteProgress
  BY <1>3, WritesNoStatus, InsideTask DEF Collect, WriteProgress
<1>4. CASE Plan \/ Dispatch \/ LinkBet \/ Publish
           \/ \E c \in Candidate : InsertEdge(c) \/ PlaceBet(c) \/ PlaceBetFails(c)
  BY <1>4, InsideTask
     DEF Plan, Dispatch, LinkBet, Publish, InsertEdge, PlaceBet, PlaceBetFails
<1>5. CASE Finish
  <2>1. row'.status = FinalStatus
    BY <1>5 DEF Finish, ExecutionInv, TypeOK, RowType
  <2>2. FinalStatus \in Runs!Terminal
    BY DEF FinalStatus, Runs!Terminal
  <2>3. Runs!Complete(ThisRun, FinalStatus)
    BY <1>5, <2>1 DEF Finish, Runs!Complete, Runs!Finish, Runs!callVars
  <2> QED
    BY <2>2, <2>3 DEF Runs!TaskStep
<1>6. CASE Return
  BY <1>6 DEF Return, Runs!TaskStep, Runs!Return, Runs!MoveTask, Runs!rowVars, Runs!callVars
<1>7. CASE Raise
  <2>1. /\ main \notin {"failing", "closed"} /\ main' = "failing" /\ row' = row
        /\ main # "committed" \/ "db" \in Faults
    BY <1>7 DEF Raise
  <2> QED
    BY <2>1, RaisesInTask DEF ExecutionInv
<1>8. CASE MarkFailed
  <2>1. row'.status = "FAILED"
    BY <1>8 DEF MarkFailed, ExecutionInv, TypeOK, RowType
  <2> QED
    BY <1>8, <2>1 DEF MarkFailed, Runs!TaskStep, Runs!MarkFailed, Runs!Finish, Runs!callVars
<1>9. CASE Cancel
  <2>1. main \notin {"failing", "closed"} /\ main' = "failing" /\ row' = row
    BY <1>9 DEF Cancel
  <2> QED
    BY <2>1 DEF Runs!CancelTask, Runs!MoveTask, Runs!rowVars, Runs!callVars
<1>10. CASE UNCHANGED vars
  BY <1>10, InsideTask DEF vars
<1> QED
  BY <1>1, <1>2, <1>3, <1>4, <1>5, <1>6, <1>7, <1>8, <1>9, <1>10 DEF Next, MainStep

\* Every step of the run is one step of the task of module PipelineRuns, or
\* none: the run commits one final status before its task ends.
THEOREM RunIsATask == Spec => RefinesTask
<1> QED
  BY ExecutionInvariant, RefinementStep, PTL DEF Spec, RefinesTask
=============================================================================
