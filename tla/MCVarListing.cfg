\* ReadLen 16 and BufCap 32 stand for read_len 256 and BUFSIZ 4096: the
\* listing (36 to 42 bytes) is longer than both, so a poll may see it cut
\* at a partial flush and reads it in chunks whose ends cut lines.  No
\* uninitialised byte of buffer[] is '\n' (MCVarListingStale.cfg lifts that).
CONSTANTS
    Listing <- MCListing
    Leftover <- MCNoLeftover
    NameChoices <- MCNames
    BufCap = 32
    ReadLen = 16
    PollEvery = 3
    StaleNewline = FALSE

SPECIFICATION Spec

INVARIANTS
    LoadedIsListingPrefix

PROPERTIES
    EventuallyLoaded
