\* A listing that fits the stdio buffer, as every benchmark's does, so it
\* reaches the file whole at fclose, but is longer than one read (Himeno
\* pad lists fourteen matrices, over 256 bytes); one uninitialised byte of
\* buffer[], anywhere, may be '\n'.
CONSTANTS
    Listing <- MCListing
    Leftover <- MCNoLeftover
    NameChoices <- MCNames
    BufCap = 64
    ReadLen = 16
    PollEvery = 3
    StaleNewline = TRUE

SPECIFICATION Spec

INVARIANT
    PollToleratesFile

\* A poll that fails ends the tool: no step follows it.
CHECK_DEADLOCK FALSE
