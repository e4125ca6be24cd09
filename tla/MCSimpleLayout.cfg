\* The three programs: conflict.c and matrix.c with arrays of one
\* (8 x int64_t) or four (8 x 8 int32_t) cache lines, so that each listed
\* end is the base of the line after its array; correlation.c with N = 4
\* observations of M = 3 variables (N # M, so a swapped index shows) and
\* arrays on 4096-byte boundaries.
CONSTANTS
    Programs = {"conflict", "matrix", "correlation"}
    Size = 8
    ClearN = 2
    LineSize = 64
    Gaps = {8, 72}
    CorrN = 4
    CorrM = 3
    PolyAlign = 4096

SPECIFICATION Spec

INVARIANT ListedRangesDisjoint
INVARIANT AccessAttributedToOwnArray
INVARIANT ReadsOnlyWritten

\* main returns after its last loop.
CHECK_DEADLOCK FALSE
