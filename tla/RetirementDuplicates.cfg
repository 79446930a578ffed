\* Two runs retire the same identity.
SPECIFICATION Spec
CONSTANTS
    a = a
    a2 = a2
    b = b
    id1 = id1
    id2 = id2
    Runs = {r1, r2}
    Rows = {a, b}
    Translatable = {a, b}
    Identity <- MCIdentity
INVARIANT OneRecordPerIdentity
CHECK_DEADLOCK FALSE
