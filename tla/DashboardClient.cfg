CONSTANTS
    Ranges <- DayAndWeek
    Timeout = 1
    Refresh = 2
    Parallel = 2
    None = None
SPECIFICATION Spec
INVARIANTS
    ClientInv
    ChartOfSelection
    ShowsTruth
PROPERTIES
    Settles
