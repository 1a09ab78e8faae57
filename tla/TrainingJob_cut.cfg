SPECIFICATION Spec
CONSTANTS
    MinutesPerHour = 2
    HoursPerDay = 1
    Detections <- MCDetections
    Specs <- MCSpecs
    MaxMishaps = 1
    None = None
    RowsPerDay = 3
    BackoffLimit = 1
    Rows <- MCLongRows
CHECK_DEADLOCK FALSE
INVARIANT ChangesAreCut
