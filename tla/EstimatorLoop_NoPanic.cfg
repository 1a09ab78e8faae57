SPECIFICATION Spec
CONSTANTS
    Gap = 1
    Times <- MCShort
    IdleWait = 1
    ChanCap = 2
    Adjust = TRUE
    MaxNow = 5
    MaxReads = 2
    MaxSpare = 2
    None = None
    Garbage = Garbage
CHECK_DEADLOCK FALSE
INVARIANT NoPanic
