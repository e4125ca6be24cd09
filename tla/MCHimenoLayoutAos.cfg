CONSTANTS
    Variant = "aos"
    MI = 5
    MJ = 3
    MK = 4
    Header = 16

SPECIFICATION Spec

INVARIANT AccessesWithinAllocation

\* main returns after the sweeps.
CHECK_DEADLOCK FALSE
