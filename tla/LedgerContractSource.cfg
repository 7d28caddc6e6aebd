\* A sentence of docs/metric-contract.md that the code does not keep.
CONSTANTS
    Sources <- OnlyXray
    Times <- TwoInstants
    MaxCarried = 3
    MaxIdentity = 2
    MaxInitial = 0
    NoCursor = NoCursor
    NoReading = NoReading
SPECIFICATION Spec
PROPERTIES
    UnchangedSourceExact
