CONSTANTS
    Times <- SevenTicks
    Deltas <- OneByteOrNone
    HourTicks = 2
    RawKeep = 2
    RollupKeep = 4
    Window = 2
    Limits <- UpToThreePoints
SPECIFICATION Spec
INVARIANTS
    RetentionInv
    KeptOnce
    WindowComplete
    SeriesComplete
    RetentionIdempotent
    ChartComplete
CONSTRAINT
    FewRows
