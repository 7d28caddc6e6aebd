\* The host and Xray in one transaction, statement by statement; interfaces
\* are re-created within a boot.
CONSTANTS
    Sources <- HostAndXray
    Times <- TwoInstants
    MaxCarried = 2
    MaxIdentity = 2
    MaxInitial = 0
    NoCursor = NoCursor
    NoReading = NoReading
SPECIFICATION TransactionSpec
INVARIANTS
    NeverOvercounts
PROPERTIES
    AtomicBatches
CONSTRAINT
    Modest
