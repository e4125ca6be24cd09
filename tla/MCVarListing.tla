---------------------------- MODULE MCVarListing ----------------------------
(***************************************************************************)
(* Three variables, as conflict.c lists its arrays, named "A" or "C_d", so *)
(* that a line is 12 or 14 bytes: read in chunks of 16 bytes, the chunk    *)
(* ends fall at every kind of place in the lines.                          *)
(***************************************************************************)
EXTENDS VarListing

MCListing ==
    << [begin |-> 16, end |-> 24], [begin |-> 40, end |-> 48], [begin |-> 64, end |-> 72] >>

\* No file left by an earlier run.
MCNoLeftover == << >>

\* "A" and "C_d".
MCNames == { << 65 >>, << 67, 95, 100 >> }
=============================================================================
