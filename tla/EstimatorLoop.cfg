SPECIFICATION FairSpec
CONSTANTS
    Gap = 1
    Times <- MCShort
    IdleWait = 1
    ChanCap = 1
    Adjust = TRUE
    MaxNow = 4
    MaxReads = 3
    MaxSpare = 1
    None = None
    Garbage = Garbage
CHECK_DEADLOCK FALSE
INVARIANTS
    TypeOK
    NeverEarly
PROPERTIES
    PrevIsLatest
    ImplementsSchedule
    PlanIsCarriedOut
