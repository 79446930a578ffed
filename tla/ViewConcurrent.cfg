CONSTANTS
    Requests = {r1, r2, r3}
    a = a  b = b  c = c
    Columns = {a, b, c}
    Captured <- MCCaptured
    Payloads <- MCPayloads
    Production = TRUE
    NamesVersions = TRUE
    Apart <- MCNeverApart
    Failures = TRUE
    Interference = TRUE
    MaxVersion = 2
    None = None
SYMMETRY RequestSymmetry
SPECIFICATION Spec
CHECK_DEADLOCK FALSE
INVARIANTS
    LiveIsAuthorised
PROPERTIES
    ResultsFollowDeploys
