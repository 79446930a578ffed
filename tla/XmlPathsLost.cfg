\* One page: no other operator is needed to lose a path.
SPECIFICATION Spec
CONSTANTS
    Pages = {p1}
    Columns = {a, b}
    Paths = {x}
    Values = {v}
    NoValue = NoValue
    NoDocument = NoDocument
    MaxVersions = 3
    MaxInitial = 0
    MaxChanges = 0
INVARIANTS
    AddedPathsSurvive
CHECK_DEADLOCK FALSE
