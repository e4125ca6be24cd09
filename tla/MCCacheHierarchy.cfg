CONSTANTS
    I1Size = 16
    I1Assoc = 1
    D1Size = 16
    D1Assoc = 1
    LLSize = 32
    LLAssoc = 2
    LineSize = 8
    WordSize = 4
    MaxBins = 16
    Locs = {l1}
    NoLoc = NoLoc
    InstrAccesses <- MCInstr
    DataAccesses <- MCData
    MaxRefs = 5
    MaxFinish = 1

SPECIFICATION Spec

PROPERTY D1MissCauseMatchesReuseDistance

\* The run ends with cachesim_finish: no reference follows it.
CHECK_DEADLOCK FALSE
