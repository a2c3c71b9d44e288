SPECIFICATION FairSpec
CONSTANTS
  nba = nba
  nfl = nfl
  r1 = r1
  r2 = r2
  c1 = c1
  c2 = c2
  All = All
  NoRun = NoRun
  League <- Leagues
  Run <- Runs
  Caller <- Callers
  Faults <- AllFaults
INVARIANTS
  OneTaskPerLeague
  ConflictOnlyFromWindow
  WorkingRunHoldsRow
PROPERTIES
  ClosedOnlyTurnsFailed
  RunsCloseUnlessAbandoned
  RefinesLock
