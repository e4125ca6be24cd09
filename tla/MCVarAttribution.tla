------------------------- MODULE MCVarAttribution -------------------------
(***************************************************************************)
(* One D1 set of two ways and 8-byte lines of two 4-byte words, so every   *)
(* block competes with every other.  Variable 0 covers blocks 1 and 2,     *)
(* variable 1 blocks 3 and 4; block 6 belongs to no variable.  One         *)
(* reference straddles blocks 2 and 3, the two variables.                  *)
(***************************************************************************)
EXTENDS VarAttribution

MCVars == [i \in 0 .. 1 |-> IF i = 0 THEN [begin |-> 8, end |-> 23]
                                      ELSE [begin |-> 24, end |-> 39]]

MCAccesses == { <<8, 4>>, <<20, 8>>, <<28, 4>>, <<36, 4>>, <<48, 4>> }
=============================================================================
