SPECIFICATION Spec
CONSTANTS
    IHPAs = {i1}
    Metrics = {m1, m2}
    Targets = {t1, t2}
    None = None
    Lagging = TRUE
    MaxEdits = 3
    MaxIncarnations = 1
    MaxFailures = 1
    MaxCrashes = 0
SYMMETRY Symmetry
CHECK_DEADLOCK FALSE
INVARIANTS
    TypeOK
    RestComplete
    NoStrays
PROPERTIES
    ForgetsOnlyTheDeleted
