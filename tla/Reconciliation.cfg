\* Every old table of up to two rows and every view of up to three, over two
\* identities; two columns that hold a value or NULL, any of them retired, and a
\* detail list cut off after three entries.
SPECIFICATION Spec
CONSTANTS
    c1 = c1
    c2 = c2
    Ids = {i1, i2}
    Compared <- MCCompared
    Values = {v}
    None = None
    MaxOld = 2
    MaxView = 3
    Cap = 3
INVARIANTS
    ReportIsExact
    DetailExplainsCounts
SYMMETRY IdSymmetry
CHECK_DEADLOCK FALSE
