CONSTANTS
    a = a
    b = b
    Revisions <- TwoReleases
SPECIFICATION Spec
SYMMETRY Symmetry
INVARIANTS
    DeployInv
    OnlyVerified
    NothingRunsMeanwhile
    FailedFirstStaysOff
PROPERTIES
    DoneMeansDone
    RestoredMeansRestored
