----------------------------- MODULE SingleCache -----------------------------
(***************************************************************************)
(* One cache of cg_sim.c driven by the references its callers may issue:   *)
(* cachesim_ref_is_miss for a reference (address, size, issuing source     *)
(* line or none), and cachesim_collect_undrained_lines when the run ends   *)
(* (cachesim_finish).  Two auxiliary variables record what the cache's     *)
(* state must agree with: the bytes of each block touched since the block  *)
(* was last installed, and how many lines each source line installed.     *)
(***************************************************************************)
EXTENDS Naturals, FiniteSets, Sequences

LOCAL INSTANCE Functions

CONSTANTS
    Size, Assoc, LineSize, WordSize, MaxBins, Locs, NoLoc, CountEvicts,
    Accesses,     \* the <<address, size>> references the trace may contain
    MaxRefs,      \* bound on the number of references
    MaxFinish     \* how many times the caller ends the run (1 in cg_main.c)

C == INSTANCE CacheSim

\* The host never issues a reference of more than two lines.
ASSUME \A r \in Accesses :
          /\ r[2] \in 1 .. 8
          /\ (r[1] + r[2] - 1) \div LineSize <= r[1] \div LineSize + 1

Blocks == {r[1] \div LineSize : r \in Accesses}
          \cup {(r[1] + r[2] - 1) \div LineSize : r \in Accesses}

VARIABLES
    cache,     \* the cache_t2
    miss,      \* result of the last reference
    nrefs,     \* references issued so far
    finishes,  \* times cachesim_finish has run
    touched,   \* auxiliary: byte offsets of each block touched since it was installed
    installs,  \* auxiliary: lines installed on behalf of each source line
    lastRef    \* auxiliary: the blocks the last reference probed, in order

vars == <<cache, miss, nrefs, finishes, touched, installs, lastRef>>

\* The byte offsets within block b that reference <<a, size>> touches.
BytesIn(a, size, b) ==
    {x % LineSize : x \in {y \in a .. a + size - 1 : y \div LineSize = b}}

Init ==
    /\ cache = C!InitCache
    /\ miss = FALSE
    /\ nrefs = 0
    /\ finishes = 0
    /\ touched = [b \in Blocks |-> {}]
    /\ installs = [l \in Locs |-> 0]
    /\ lastRef = << >>

\* cachesim_ref_is_miss(c, a, size, line_num, line, ...) for one reference.
\* The caller stops issuing references once the run is finished.
RefIssue(a, size, loc) ==
    LET r  == C!Ref(cache, a, size, loc)
        P  == C!Probes(a, size)
        Fills == Cardinality({i \in DOMAIN P : r.misses[i]})
    IN  /\ nrefs < MaxRefs
        /\ finishes = 0
        /\ cache' = r.cache
        /\ miss' = C!IsMiss(r)
        /\ nrefs' = nrefs + 1
        /\ touched' = [b \in Blocks |->
                         IF \E i \in DOMAIN P : P[i].tag = b
                         THEN LET i == CHOOSE j \in DOMAIN P : P[j].tag = b
                              IN  IF r.misses[i] THEN BytesIn(a, size, b)
                                  ELSE touched[b] \cup BytesIn(a, size, b)
                         ELSE touched[b]]
        /\ installs' = IF loc = NoLoc THEN installs
                       ELSE [installs EXCEPT ![loc] = @ + Fills]
        /\ lastRef' = [i \in DOMAIN P |-> P[i].tag]
        /\ UNCHANGED finishes

\* cachesim_finish, for this cache: the drain of the resident lines.
Finish ==
    /\ finishes < MaxFinish
    /\ cache' = C!CollectUndrained(cache)
    /\ finishes' = finishes + 1
    /\ UNCHANGED <<miss, nrefs, touched, installs, lastRef>>

Next ==
    \/ \E r \in Accesses, loc \in C!LocOpt : RefIssue(r[1], r[2], loc)
    \/ Finish

Spec == Init /\ [][Next]_vars

-----------------------------------------------------------------------------
(* Properties                                                              *)

\* The LRU list of every set is a permutation of the set's slots, and every
\* line and histogram has its type.
TypeOK ==
    /\ \A s \in C!SetIdx :
          /\ cache.lru[s] \in [1 .. Assoc -> C!Ways]
          /\ \A w \in C!Ways : \E p \in 1 .. Assoc : cache.lru[s][p] = w
          /\ \A w \in C!Ways : cache.lines[s][w] \in C!Line
    /\ cache.evicts \in [Locs -> [C!Bins -> Nat]]
    /\ miss \in BOOLEAN
    /\ installs \in [Locs -> Nat]

\* cachesim_setref_is_miss and the straddle split of cachesim_ref_is_miss:
\* the spatial-usage bitvector of every resident line holds exactly the
\* words that the references since its installation touched, and
\* bitop_count, which the eviction and the drain use, counts them.
BitvectorIsTouchedWords ==
    \A s \in C!SetIdx, w \in C!Ways :
        LET ln    == cache.lines[s][w]
            words == {o \div WordSize : o \in touched[ln.tag]}
        IN  ln.tag # 0 => C!BitsOf(ln.bv) = words /\ C!BitopCount(ln.bv) = Cardinality(words)

\* Eviction accounting (cachesim_setref_is_miss) and the drain
\* (cachesim_collect_undrained_lines): every line a source line installs is
\* entered in that source line's histogram exactly once, when it is evicted
\* or, for the lines still resident, when the run is finished.
Owned(l) == {<<s, w>> \in C!SetIdx \X C!Ways :
                cache.lines[s][w].tag # 0 /\ cache.lines[s][w].src = l}

EvictionAccountingConserved ==
    CountEvicts =>
      \A l \in Locs :
        SumFunction(cache.evicts[l]) + (IF finishes = 0 THEN Cardinality(Owned(l)) ELSE 0)
          = installs[l]

\* The cache behaves as the LRU cache of module LRUCache: the tags of each
\* set, read in LRU order and ignoring the zero tags of never-filled slots,
\* are the abstract set's blocks, and every reference hits or misses as
\* the abstract cache says.
Abs == INSTANCE LRUCache WITH
         Sets <- C!Sets, Assoc <- Assoc, Blocks <- Blocks,
         content <- [s \in C!SetIdx |->
                       SelectSeq([p \in 1 .. Assoc |-> cache.lines[s][cache.lru[s][p]].tag],
                                 LAMBDA t : t # 0)],
         miss <- miss,
         last <- lastRef

LRURefinement == Abs!Spec
=============================================================================
