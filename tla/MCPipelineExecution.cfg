SPECIFICATION FairSpec
CONSTANTS
  g1 = g1
  g2 = g2
  g3 = g3
  e1 = e1
  e2 = e2
  e3 = e3
  NoCandidate = NoCandidate
  Game <- Games
  Candidate <- Candidates
  CandidateGame <- GameOf
  Concurrency = 2
  Faults <- AllFaults
INVARIANTS
  CompletedMeansComplete
  UnlinkedBetIsReported
  FailedMeansNothingBet
  BetsWaitForEveryGame
PROPERTIES
  RefinesTask
  RunCloses
  EveryGameEnds
\* A run ends.
CHECK_DEADLOCK FALSE
