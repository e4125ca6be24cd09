CONSTANTS
    Variant = "pad"
    MI = 4
    MJ = 3
    MK = 5
    T = 3
    NN = 2

SPECIFICATION FairSpec

INVARIANT TypeOK
INVARIANT NoDataRace
INVARIANT GosaIsLastSweepResidual
PROPERTY Terminates
