---------------------------- MODULE MCSingleCache ----------------------------
(***************************************************************************)
(* A 32-byte, 2-way cache of 8-byte lines (two sets) with 2-byte words,    *)
(* as the D1 cache (its evictions are counted).  The references touch      *)
(* blocks 1..6, three per set, so a set overflows and evicts; two of them  *)
(* straddle a line boundary.  Block 0 (addresses below 8) is never         *)
(* referenced: it is the null page of a real process.                      *)
(***************************************************************************)
EXTENDS SingleCache

MCAccesses ==
    { <<8, 2>>, <<14, 4>>, <<20, 1>>, <<24, 8>>, <<34, 2>>, <<44, 2>>, <<46, 4>> }

=============================================================================
