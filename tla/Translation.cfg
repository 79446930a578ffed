\* Two versions of at most two entries, a view that may map its column twice,
\* a mapping of two links.
SPECIFICATION Spec
CONSTANTS
    one = one
    bit = bit
    lower = lower
    upper = upper
    t1 = t1
    tTrue = tTrue
    tLower = tLower
    tUpper = tUpper
    A = A
    B = B
    cutA = cutA
    error = error
    Edges = {c, d}
    Captured = {c}
    Codes = {t1, tTrue, tLower, tUpper}
    Translations = {A, B}
    SourceValues = {one, bit, lower, upper}
    Null = Null
    Text <- MCText
    Cast <- MCCast
    AsLegacy <- MCAsLegacy
    Fold <- MCFold
    MaxVersions = 2
    EntryLists <- MCEntryLists
    MaxMappings = 2
INVARIANTS
    RunAndViewAgree
    NoCodeIsGuessed
    RulesForgiveNulls
PROPERTIES
    TranslationsNeverDrift
    OnlyRedrawingUnpins
    
CHECK_DEADLOCK FALSE
