\* Requests about the current version, any of which may fail; a deploy overlaps no
\* deploy, and a save no reconciliation.
CONSTANTS
    Requests = {r1, r2, r3, r4, r5}
    a = a  b = b  c = c
    Columns = {a, b}
    Captured <- MCCaptured
    Payloads <- MCPayloads
    Production = FALSE
    NamesVersions = FALSE
    Apart <- MCApart
    Failures = TRUE
    Interference = FALSE
    MaxVersion = 3
    None = None
SYMMETRY RequestSymmetry
SPECIFICATION Spec
CHECK_DEADLOCK FALSE
INVARIANTS
    ReconciledVersionIsLive
    OnlyUnloggedDeploysMislead
    RetiredColumnsAgree
