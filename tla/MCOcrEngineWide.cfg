SPECIFICATION Spec
CONSTANTS
    c1 = c1
    Callers = {c1}
    NoCaller = NoCaller
    MaxItems = 4
    RecBatchSize = 2
    ClsBatchSize = 3
    RecConcurrency = 3
    EnableCls = TRUE
    ShortOutput = TRUE
INVARIANTS
    ResultFaithful
