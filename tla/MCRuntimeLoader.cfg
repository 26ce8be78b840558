SPECIFICATION Spec
CONSTANTS
    t1 = t1
    t2 = t2
    e1 = e1
    e2 = e2
    lib = lib
    Threads = {t1, t2}
    Engines = {e1, e2}
    Libraries = {lib}
    None = None
    MaxRefs = 3
    MaxResults = 1
    AllocFails = TRUE
SYMMETRY Symmetry
INVARIANTS
    MappedWhileUsed
    ReferencesBalanced
    ErrorTextOfThisCall
