SPECIFICATION FairSpec
CONSTANTS
  nba = nba
  nfl = nfl
  Never = Never
  Schedule <- Leagues
  Period <- Periods
  SummaryPeriod = 3
  Grace = 0
  MaxSleep = 3
  MaxTime = 3
  MaxEdits = 1
  MaxFaults = 1
INVARIANTS
  OccurrenceFiresOnce
  SleepsNoFurther
PROPERTIES
  DueIsHandled
