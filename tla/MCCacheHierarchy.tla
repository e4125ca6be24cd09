-------------------------- MODULE MCCacheHierarchy --------------------------
(***************************************************************************)
(* 8-byte lines of two 4-byte words.  I1: 16 bytes direct-mapped; D1: 16   *)
(* bytes direct-mapped (two sets, FA_D1 of 2 lines); LL: 32 bytes 2-way    *)
(* (two sets, FA_LL of 4 lines).  The data references touch blocks 1, 2,   *)
(* 3 and 5 (1, 3 and 5 share a D1 set and an LL set, so both conflict and  *)
(* capacity misses happen within four references) and one straddles blocks *)
(* 3 and 4.  One instruction fetch shares block 1 with the data.           *)
(***************************************************************************)
EXTENDS CacheHierarchy

MCData  == { <<8, 4>>, <<16, 4>>, <<24, 4>>, <<30, 4>>, <<40, 4>> }
MCInstr == { <<12, 4>>, <<64, 4>> }
=============================================================================
