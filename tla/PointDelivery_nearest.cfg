SPECIFICATION Spec
CONSTANTS
    Places = 3
    Timestamps <- MCTimestamps
    Answers <- MCAnswers
    None = None
    Series = {raw, upper}
    Units <- MCUnits
    NoUnit = NoUnit
    u1 = u1
    Bands <- MCBands
    MaxUnitEdits = 1
CHECK_DEADLOCK FALSE
INVARIANT FoundIsNearest
