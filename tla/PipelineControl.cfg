CONSTANTS
    AutoPass = AutoPass
    None = None
    Starts  = {j1, j2}
    Stops   = {k1}
    Setters = {z1}
SPECIFICATION HalfSpec
INVARIANT OneRun
INVARIANT RecordedWhenStopped
INVARIANT HistoryTruthful
PROPERTY StopWins
PROPERTY StopTakesEffect
CHECK_DEADLOCK FALSE
