SPECIFICATION Spec
CONSTANTS
  Pools <- AllPools
  Requests <- AllRequests
  Boards <- AllBoards
  Rows <- AllRows
  PropChance <- OnDemand
  Team <- Teams
  League <- Leagues
  MinEv = 4
  MinEdgeEv = 2
  IncludeProps = TRUE
  MaxParlays = 2
INVARIANTS
  LinkedBetIsItsOwn
  BetsAreOnRecord
  NeverRaises
  OpposedLegsGainNothing
PROPERTIES
  EveryPairIsTried
