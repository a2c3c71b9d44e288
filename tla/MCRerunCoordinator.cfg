SPECIFICATION FairCoordinatorSpec
CONSTANTS
  nba = nba
  nfl = nfl
  EventLeague <- Leagues
  MaxRequests = 3
INVARIANTS
  SurvivorsAreLate
PROPERTIES
  CooldownSpacing
  EventIsAnswered
