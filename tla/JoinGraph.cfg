\* Every join graph of up to three edges over three tables: trees, cycles,
\* parallel edges (composite keys), self joins, isolated and retired tables.
SPECIFICATION Spec
CONSTANTS
    Tables = {t1, t2, t3}
    MaxEdges = 3
INVARIANTS
    ValidationIsExact
    BackstopNeverFires
    EveryJoinIsScoped
    TreesKeepEveryEdge
PROPERTIES
    EveryStepAdvances
    SaveIsAnswered
CHECK_DEADLOCK FALSE
