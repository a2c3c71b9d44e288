SPECIFICATION FairSpec
CONSTANTS
  g1 = g1
  g2 = g2
  Game <- Games
  MaxLine = 3
INVARIANTS
  OneEvaluationPerGame
  NoFrameForgotten
PROPERTIES
  ShownNeverRegresses
  EveryFrameIsEvaluated
  ImplementsCoalescing
\* A stopped debouncer does nothing, and frames are bounded.
CHECK_DEADLOCK FALSE
