SPECIFICATION SubscriberSpec
CONSTANTS
  nba = nba
  g1 = g1
  g2 = g2
  League <- Leagues
  Game <- Games
  LeagueOf <- SameLeague
  NoLeague = NoLeague
  None = None
  MaxMessages = 2
INVARIANTS
  FallbackFindsLeague
