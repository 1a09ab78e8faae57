SPECIFICATION Spec
CONSTANTS
    IHPAs = {i1}
    Metrics = {m1, m2}
    Targets = {t1}
    None = None
    Lagging = FALSE
    MaxEdits = 2
    MaxIncarnations = 1
    MaxFailures = 0
    MaxCrashes = 0
CHECK_DEADLOCK FALSE
INVARIANT NoOrphans
