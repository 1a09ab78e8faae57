SPECIFICATION FairSpec
CONSTANTS
    IHPAs = {i1, i2}
    Metrics = {m1}
    Targets = {t1}
    None = None
    Lagging = FALSE
    MaxEdits = 3
    MaxIncarnations = 2
    MaxFailures = 0
    MaxCrashes = 1
CHECK_DEADLOCK FALSE
INVARIANTS
    RestComplete
    NoStrays
PROPERTIES
    Heals
