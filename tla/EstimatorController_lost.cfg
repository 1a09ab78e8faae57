SPECIFICATION Spec
CONSTANTS
    Estimators = {e1}
    SpecFields = {mode}
    FieldValues = {v1, v2}
    Zero = Zero
    Channels = {c1, c2}
    Goroutines = {g1, g2, g3}
    None = None
    Empty = Empty
    ChanCap = 2
    MaxEdits = 3
    MaxForecasts = 2
    MaxFailures = 0
    MaxCrashes = 0
SYMMETRY Symmetry
CHECK_DEADLOCK FALSE
INVARIANT ForecastDelivered
