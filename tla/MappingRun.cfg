\* A keyed production target; versions are saved and tables altered while runs
\* are on.
SPECIFICATION Spec
CONSTANTS
    x = x
    y = y
    name = name
    status = status
    name2 = name2
    status2 = status2
    None = None
    Runs = {r1, r2}
    Rows = {x, y}
    SourceCols = {name, status}
    TargetCols = {name2, status2}
    Value <- MCValue
    Entries <- MCEntries
    Versions <- MCVersions
    Production = TRUE
    KeyedTarget = TRUE
    Alterable = {status, status2}
    MaxVersion = 2
INVARIANTS
    DryRunPredicts
    AllOrNothing
    DriftStopsWrites
    LogMatchesTarget
SYMMETRY RunSymmetry
CHECK_DEADLOCK FALSE
