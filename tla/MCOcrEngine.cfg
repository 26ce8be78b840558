SPECIFICATION FairSpec
CONSTANTS
    c1 = c1
    c2 = c2
    Callers = {c1, c2}
    NoCaller = NoCaller
    MaxItems = 2
    RecBatchSize = 1
    ClsBatchSize = 1
    RecConcurrency = 2
    EnableCls = FALSE
    ShortOutput = FALSE
INVARIANTS
    TypeOK
    NetExclusive
    WritesDisjoint
    TasksInsideFrame
    ResultFaithful
    ErrorHasNoResult
PROPERTIES
    FailureSurfaces
    WaitersServed
    ImplementsService
