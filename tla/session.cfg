SPECIFICATION MCSpec
CONSTANTS
    g1 = g1
    g2 = g2
    Graphs <- MCGraphs
    First <- Stored2
    None = None
    MayAct = {}
    MaxEdit = 2
    MaxRev = 3
    MaxDie = 1
INVARIANTS CleanIsSaved NoEditLost
PROPERTIES  KnowsWhatItReplaces
SYMMETRY EitherGraph
CHECK_DEADLOCK FALSE
