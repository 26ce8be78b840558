SPECIFICATION Spec
CONSTANTS
    t1 = t1
    e1 = e1
    lib = lib
    Threads = {t1}
    Engines = {e1}
    Libraries = {lib}
    None = None
    MaxRefs = 1
    MaxResults = 1
    AllocFails = TRUE
INVARIANT NoExceptionCrosses
