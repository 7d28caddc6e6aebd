\* deploy/README.md on a failed first installation.
CONSTANTS
    a = a
    b = b
    Revisions <- TwoReleases
SPECIFICATION Spec
INVARIANTS
    ResumableRetry
