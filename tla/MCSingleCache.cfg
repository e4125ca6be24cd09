CONSTANTS
    Size = 32
    Assoc = 2
    LineSize = 8
    WordSize = 2
    MaxBins = 16
    Locs = {l1}
    NoLoc = NoLoc
    CountEvicts = TRUE
    Accesses <- MCAccesses
    MaxRefs = 5
    MaxFinish = 1

SPECIFICATION Spec

INVARIANT TypeOK
INVARIANT BitvectorIsTouchedWords
INVARIANT EvictionAccountingConserved
PROPERTY LRURefinement

\* The run ends with cachesim_finish: no reference follows it.
CHECK_DEADLOCK FALSE
