SPECIFICATION Spec
CONSTANTS
    Estimators = {e1, e2}
    SpecFields = {mode}
    FieldValues = {v1}
    Zero = Zero
    Channels = {c1, c2}
    Goroutines = {g1, g2, g3}
    None = None
    Empty = Empty
    ChanCap = 2
    MaxEdits = 3
    MaxForecasts = 2
    MaxFailures = 0
    MaxCrashes = 0
SYMMETRY Symmetry
CHECK_DEADLOCK FALSE
INVARIANTS
    TypeOK
    LastPushedIsCurrent
    OneSender
    TargetsAreLive
    MapsAgree
    DataIsolation
PROPERTIES
    ForecastsInOrder
