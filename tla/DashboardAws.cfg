\* Two months, and a clock that is set back once.
CONSTANTS
    Interval = 1
    AwsEvery = 2
    MinFresh = 1
    MaxFresh = 1
    RawKeep = 1
    Skew = 1
    MaxCycle = 0
    MonthLength = 3
    Jumps <- SetBack
    MaxOffset = 1
    MaxTime = 5
    Outcomes <- Partly
    Operators = {FALSE, TRUE}
    NoRow = NoRow
SPECIFICATION Spec
INVARIANTS
    PageInv
    OnePoll
    FreshFigures
VIEW WithoutCalm
