\* Figures that are read or not, and a clock that is set back and forth.
CONSTANTS
    Interval = 1
    AwsEvery = 2
    MinFresh = 4
    MaxFresh = 20
    RawKeep = 4
    Skew = 1
    MaxCycle = 1
    MonthLength = 6
    Jumps <- BackAndForth
    MaxOffset = 1
    MaxTime = 11
    Outcomes <- AllOrNothing
    Operators = {FALSE}
    NoRow = NoRow
SPECIFICATION AwsSpec
INVARIANTS
    AwsInv
    FiguresFollowApi
