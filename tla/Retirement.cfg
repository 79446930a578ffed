\* Two runs over three rows: a and its copy a2 share an identity, and b has a
\* reason without a translation.  The target reads in each of the three ways.
SPECIFICATION Spec
CONSTANTS
    a = a
    a2 = a2
    b = b
    id1 = id1
    id2 = id2
    Runs = {r1, r2}
    Rows = {a, a2, b}
    Translatable = {a, a2}
    Identity <- MCIdentity
INVARIANTS
    NoDuplicateAfterCommit
    LogCountsRecords
    RetiredOrRolledBack
    NobodyWaitsInVain
PROPERTIES
    RunsEnd
CHECK_DEADLOCK FALSE
