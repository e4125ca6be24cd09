CONSTANTS
    Size = 16
    Assoc = 2
    LineSize = 8
    WordSize = 4
    MaxBins = 2
    Locs = {l1, l2}
    NoLoc = NoLoc
    Vars <- MCVars
    Accesses <- MCAccesses
    MaxRefs = 5

SPECIFICATION Spec

INVARIANT PairMissesClassified


\* The trace is finite: after MaxRefs references no step is left.
CHECK_DEADLOCK FALSE
