\* Xray alone: two starts of the container, three bytes, two instants.
CONSTANTS
    Sources <- OnlyXray
    Times <- TwoInstants
    MaxCarried = 3
    MaxIdentity = 2
    MaxInitial = 1
    NoCursor = NoCursor
    NoReading = NoReading
SPECIFICATION Spec
INVARIANTS
    LedgerInv
PROPERTIES
    DeltaWithinInterval
    ExactWithinRun
    UndercountFlagged
    AccountSpec
