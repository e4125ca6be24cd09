\* Two calls of rmatmult3; malloc hands out chunks back to back from a
\* fresh heap.
CONSTANTS
    Inputs <- MCInputs
    NoIter = 2
    HeapStart = 16
    Gaps = {0}

SPECIFICATION FairSpec

INVARIANT TypeOK
INVARIANT AccessesWithinAllocation
INVARIANT AccessesWithinListing
PROPERTY Terminates

\* main returns after the print, or exits in readInput.
CHECK_DEADLOCK FALSE
