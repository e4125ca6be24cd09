\* Sizes 2, 3 and 4 with blocks 1, 2 and 4 (and 0, which main rejects):
\* size 3 with block 2 passes main's check and is the case where block
\* does not divide size.  IntBits 7 makes size 4 overflow as size 1024
\* does with 32 bits.
CONSTANTS
    Sizes = {2, 3, 4}
    Blocks = {0, 1, 2, 4}
    Junk = {0, 1}
    IntBits = 7

SPECIFICATION Spec

INVARIANT BlockedInBoundsIffDivides
INVARIANT VerifiedMeansProduct

\* main returns after verify_results (or exits on bad arguments).
CHECK_DEADLOCK FALSE
