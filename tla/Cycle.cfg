\* Cycles that may take a whole interval, and a clock that is set to and fro.
CONSTANTS
    Interval = 1
    ProbeEvery = 2
    MinFresh = 4
    MaxFresh = 20
    PruneEvery = 2
    RawKeep = 4
    StaleAfter = 2
    Skew = 1
    MaxCycle = 1
    Offsets <- ToAndFro
    Spread = 1
    Cap = 6
    NoRow = NoRow
SPECIFICATION Spec
INVARIANTS
    CycleInv
    ReportsTruth
    DeadPathNotHealthy
PROPERTIES
    Recovers
