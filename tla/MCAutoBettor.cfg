SPECIFICATION Spec
CONSTANTS
  nba = nba
  nfl = nfl
  k1 = k1
  k2 = k2
  k3 = k3
  League <- Leagues
  Key <- Keys
  KeyLeague <- LeagueOf
  Kelly <- KellyValues
  Cap = 10
  Bankroll = 997
  Fallback = 1500
  ParlayStakes <- OneParlay
  Faults <- AllFaults
INVARIANTS
  CapExceededOnlyBlindly
