SPECIFICATION FairSpec
CONSTANTS
    Estimators = {e1}
    SpecFields = {mode}
    FieldValues = {v1}
    Zero = Zero
    Channels = {c1}
    Goroutines = {g1, g2}
    None = None
    Empty = Empty
    ChanCap = 1
    MaxEdits = 3
    MaxForecasts = 1
    MaxFailures = 1
    MaxCrashes = 1
CHECK_DEADLOCK FALSE
INVARIANT QuiescentConverged
PROPERTIES
    ImplementsService
    ReconcileReturns
    StoppedGoroutineEnds
    EventuallyAtRest
