SPECIFICATION Spec
CONSTANTS
    r1 = r1
    r2 = r2
    r3 = r3
    Requests <- MCRequests
    Asks <- MCAsks
    EdgeGame <- MCEdgeGame
    MaxDeltas = 2
SYMMETRY MCSymmetry
INVARIANTS
    ReplayAnswersTheAsk
    StreamedIsStored
\* A request ends.
CHECK_DEADLOCK FALSE
