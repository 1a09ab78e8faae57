SPECIFICATION FairSpec
CONSTANTS
    MinutesPerHour = 2
    HoursPerDay = 1
    Detections <- MCDetections
    Specs <- MCSpecs
    MaxMishaps = 1
    None = None
    RowsPerDay = 3
    BackoffLimit = 1
    Rows <- MCRows
CHECK_DEADLOCK FALSE
INVARIANTS
    TypeOK
    RestComplete
    ConfigNotOlder
    SlicesInRange
PROPERTIES
    OverwritesOnlyWhatItRead
    KeepsStarting
    ForecastsFollow
