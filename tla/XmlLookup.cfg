\* Two pages on one mapping of two columns, saving up to version 3, while the
\* document is stored, changed and deleted.
SPECIFICATION Spec
CONSTANTS
    Pages = {p1, p2}
    Columns = {a, b}
    Paths = {x, y}
    Values = {v}
    NoValue = NoValue
    NoDocument = NoDocument
    MaxVersions = 3
    MaxInitial = 1
    MaxChanges = 1
SYMMETRY XmlSymmetry
INVARIANTS
    SavedPathIsUsed
    OnlyStaleCopiesLosePaths
PROPERTIES
    AnswersAreTrue
CHECK_DEADLOCK FALSE
