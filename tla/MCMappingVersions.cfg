\* Two saves at a time on one definition, up to the fourth version: one save can
\* load the definition before and number itself after two saves of the other.
SPECIFICATION Spec
CONSTANTS
    Handlers = {h1, h2}
    Links = {l1, bad}
    ValidLinks = {l1}
    Configs = {c1, c2, malformed}
    WellFormed = {c1, c2}
    NoConfig = NoConfig
    MaxVersion = 3
INVARIANTS
    TypeOK
    HistoryIsGapless
    RetirementVersionsConfigured
PROPERTIES
    AppendOnlyHistory
    SavesAreAnswered
CHECK_DEADLOCK FALSE
