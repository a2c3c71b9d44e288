SPECIFICATION Spec
CONSTANTS
  Quotes <- AllQuotes
  MaxQuotes = 4
  TeamRows <- AllTeamRows
  Roster <- AllPlayers
  PropChance <- Chances
  Haircut = 6
  MinEv = 3
INVARIANTS
  ProbabilityIsItsOwn
  OppositeEdgesAreArbitrage
  BestOfferIsKept
CHECK_DEADLOCK FALSE
