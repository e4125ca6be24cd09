---------------------------- MODULE ShadowCaches ----------------------------
(***************************************************************************)
(* The two shadow caches the classification in cg_sim.c queries:           *)
(* cacheinfi_ref_is_miss on the infinite cache INFI, and                   *)
(* cachefa_ref_is_miss on the fully associative LRU caches FA_D1 and FA_LL *)
(* (cachefa_setup with capacity size / line_size lines).  Their code is    *)
(* not part of the repository; these operators follow the spec (4.3): the  *)
(* infinite cache never evicts, the fully associative one is an LRU list   *)
(* of at most Cap lines, and a reference probes its one or two blocks in   *)
(* order and misses when any of them misses.                               *)
(***************************************************************************)
EXTENDS Naturals, Sequences

LOCAL INSTANCE SequencesExt

\* The blocks of reference <<a, size>> for lines of LineSize bytes.
RefBlocks(a, size, LineSize) ==
    IF a \div LineSize = (a + size - 1) \div LineSize
    THEN << a \div LineSize >>
    ELSE << a \div LineSize, (a + size - 1) \div LineSize >>

\* cacheinfi_ref_is_miss: a miss exactly on some block's first touch.
InfiMiss(seen, B) == \E i \in DOMAIN B : B[i] \notin seen
InfiAfter(seen, B) == seen \cup {B[i] : i \in DOMAIN B}

\* One block through a fully associative LRU list of capacity Cap.
FATouch(q, b, Cap) ==
    IF Contains(q, b) THEN Cons(b, Remove(q, b))
    ELSE IF Len(q) < Cap THEN Cons(b, q) ELSE Cons(b, Front(q))

\* cachefa_ref_is_miss: the list after the reference, and whether it missed.
FARef(q, B, Cap) ==
    LET q1 == FATouch(q, B[1], Cap)
    IN  IF Len(B) = 1
        THEN [list |-> q1, miss |-> ~Contains(q, B[1])]
        ELSE [list |-> FATouch(q1, B[2], Cap),
              miss |-> ~Contains(q, B[1]) \/ ~Contains(q1, B[2])]
=============================================================================
