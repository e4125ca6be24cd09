--------------------------- MODULE CacheHierarchy ---------------------------
(***************************************************************************)
(* The cache hierarchy of cg_sim.c: the I1, D1 and LL caches (each a       *)
(* CacheSim), the infinite cache INFI and the fully associative shadows    *)
(* FA_D1 and FA_LL, and the per-source-line counters (the CacheCC of a     *)
(* LineCC for instruction reads, data reads and data writes).              *)
(*                                                                         *)
(*   cachesim_I1_doref_{Gen,NoX}: I1, and LL with no owning line on a miss *)
(*   cachesim_D1_doref: the shadows, D1, and LL on a D1 miss, with the     *)
(*                      miss of each level classified compulsory, conflict *)
(*                      or capacity                                        *)
(*   cachesim_finish:   the drain of D1 and LL                             *)
(*                                                                         *)
(* The caller (cg_main.c, not in the repository) counts the access in the  *)
(* CacheCC of the issuing line before it calls the simulator.  The        *)
(* variable-listing poll on the D1 hit path and the variable attribution   *)
(* are left to module VarTable.  I1 and LL use the same line size, so the  *)
(* NoX and Gen instruction paths behave alike.                             *)
(***************************************************************************)
EXTENDS Naturals, FiniteSets, Sequences

LOCAL INSTANCE SequencesExt
LOCAL INSTANCE ShadowCaches

CONSTANTS
    I1Size, I1Assoc, D1Size, D1Assoc, LLSize, LLAssoc,
    LineSize, WordSize, MaxBins,
    Locs, NoLoc,
    InstrAccesses,  \* <<address, size>> instruction fetches
    DataAccesses,   \* <<address, size>> data references
    MaxRefs, MaxFinish

I1C == INSTANCE CacheSim WITH Size <- I1Size, Assoc <- I1Assoc, CountEvicts <- FALSE
D1C == INSTANCE CacheSim WITH Size <- D1Size, Assoc <- D1Assoc, CountEvicts <- TRUE
LLC == INSTANCE CacheSim WITH Size <- LLSize, Assoc <- LLAssoc, CountEvicts <- TRUE

\* cachefa_initcache: capacity in lines of the fully associative shadows.
FAD1Cap == D1Size \div LineSize
FALLCap == LLSize \div LineSize

DataKinds == {"Dr", "Dw"}
Kinds     == {"Ir"} \cup DataKinds
Fields    == {"a", "m1", "mL", "m1_comp", "m1_conf", "m1_cap", "mL_comp", "mL_conf", "mL_cap"}

VARIABLES
    i1, d1, ll,      \* the cache_t2 values I1, D1, LL
    infi,            \* INFI: every data block ever touched
    faD1, faLL,      \* FA_D1, FA_LL: fully associative LRU lists of blocks
    cc,              \* cc[l][k]: the CacheCC of kind k of source line l
    nrefs, finishes,
    hist             \* auxiliary: data blocks in the order they were probed

vars == <<i1, d1, ll, infi, faD1, faLL, cc, nrefs, finishes, hist>>

ZeroCC == [f \in Fields |-> 0]

Init ==
    /\ i1 = I1C!InitCache /\ d1 = D1C!InitCache /\ ll = LLC!InitCache
    /\ infi = {} /\ faD1 = << >> /\ faLL = << >>
    /\ cc = [l \in Locs |-> [k \in Kinds |-> ZeroCC]]
    /\ nrefs = 0 /\ finishes = 0
    /\ hist = << >>

\* Add one to each field of F in a CacheCC.
Bump(r, F) == [f \in DOMAIN r |-> IF f \in F THEN r[f] + 1 ELSE r[f]]

\* Plausible fault: the first-level conflict and capacity branches swapped.
D1ClassSwapped(missInfi, missFA) ==
    IF missInfi THEN "m1_comp" ELSE IF missFA THEN "m1_conf" ELSE "m1_cap"

\* cachesim_D1_doref, first level: compulsory when INFI missed, conflict
\* when FA_D1 hit, capacity otherwise.
D1Class(missInfi, missFA) ==
    IF missInfi THEN "m1_comp" ELSE IF ~missFA THEN "m1_conf" ELSE "m1_cap"

\* cachesim_D1_doref, last level: compulsory when INFI missed, then
\* "else if(miss_fa_LL) mL_conf++; else mL_cap++".
LLClass(missInfi, missFALL) ==
    IF missInfi THEN "mL_comp" ELSE IF missFALL THEN "mL_conf" ELSE "mL_cap"

\* cachesim_I1_doref_Gen / _NoX: LL is probed only on an I1 miss, with no
\* owning source line, so LL never counts these lines' evictions.
IrRef(a, size, loc) ==
    LET r1 == I1C!Ref(i1, a, size, NoLoc)
        rL == LLC!Ref(ll, a, size, NoLoc)
        m1 == I1C!IsMiss(r1)
        mL == m1 /\ LLC!IsMiss(rL)
    IN  /\ nrefs < MaxRefs /\ finishes = 0
        /\ i1' = r1.cache
        /\ ll' = IF m1 THEN rL.cache ELSE ll
        /\ cc' = [cc EXCEPT ![loc]["Ir"] =
                    Bump(@, {"a"} \cup (IF m1 THEN {"m1"} ELSE {})
                                  \cup (IF mL THEN {"mL"} ELSE {}))]
        /\ nrefs' = nrefs + 1
        /\ UNCHANGED <<d1, infi, faD1, faLL, finishes, hist>>

\* cachesim_D1_doref: the three shadows are queried on every data
\* reference, D1 always, LL only when D1 missed; a miss of each level is
\* counted with its cause.
DataRef(kind, a, size, loc) ==
    LET B      == RefBlocks(a, size, LineSize)
        missInfi == InfiMiss(infi, B)
        fa1    == FARef(faD1, B, FAD1Cap)
        faL    == FARef(faLL, B, FALLCap)
        rD     == D1C!Ref(d1, a, size, loc)
        rL     == LLC!Ref(ll, a, size, loc)
        m1     == D1C!IsMiss(rD)
        mL     == m1 /\ LLC!IsMiss(rL)
    IN  /\ nrefs < MaxRefs /\ finishes = 0
        /\ infi' = InfiAfter(infi, B)
        /\ faD1' = fa1.list
        /\ faLL' = faL.list
        /\ d1' = rD.cache
        /\ ll' = IF m1 THEN rL.cache ELSE ll
        /\ cc' = [cc EXCEPT ![loc][kind] =
                    Bump(@, {"a"}
                            \cup (IF m1 THEN {"m1", D1Class(missInfi, fa1.miss)} ELSE {})
                            \cup (IF mL THEN {"mL", LLClass(missInfi, faL.miss)} ELSE {}))]
        /\ nrefs' = nrefs + 1
        /\ hist' = hist \o B
        /\ UNCHANGED <<i1, finishes>>

\* cachesim_finish: the resident lines of D1 and then of LL are drained.
Finish ==
    /\ finishes < MaxFinish
    /\ d1' = D1C!CollectUndrained(d1)
    /\ ll' = LLC!CollectUndrained(ll)
    /\ finishes' = finishes + 1
    /\ UNCHANGED <<i1, infi, faD1, faLL, cc, nrefs, hist>>

Next ==
    \/ \E r \in InstrAccesses, l \in Locs : IrRef(r[1], r[2], l)
    \/ \E r \in DataAccesses, l \in Locs, k \in DataKinds : DataRef(k, r[1], r[2], l)
    \/ Finish

Spec == Init /\ [][Next]_vars

-----------------------------------------------------------------------------
(* Properties                                                              *)

(* The cause of a miss by its definition (spec 4.3 and glossary), from the *)
(* history of probed data blocks alone: compulsory on a block's first      *)
(* touch; capacity when some block of the reference had Cap or more other  *)
(* distinct blocks touched since its last touch, so that no fully          *)
(* associative LRU cache of Cap lines could still hold it; conflict when   *)
(* every block was touched recently enough to fit.                         *)
LastTouch(h, b) == Max({i \in DOMAIN h : h[i] = b})

ReuseDistance(h, b) == Cardinality({h[k] : k \in LastTouch(h, b) + 1 .. Len(h)})

FarReuse(h, B, Cap) ==
    \E i \in DOMAIN B :
        LET h2 == h \o SubSeq(B, 1, i - 1)
        IN  ~Contains(h2, B[i]) \/ ReuseDistance(h2, B[i]) >= Cap

ExpectedCause(h, B, Cap) ==
    IF \E i \in DOMAIN B : ~Contains(h, B[i]) THEN "comp"
    ELSE IF FarReuse(h, B, Cap) THEN "cap"
    ELSE "conf"

\* The data blocks the current step probed.
NewBlocks == SubSeq(hist', Len(hist) + 1, Len(hist'))

\* cachesim_D1_doref with the FA_D1 and INFI shadows: every D1 miss is
\* counted under the cause its reuse distance gives (capacity FA_D1).
D1MissCauseMatchesReuseDistance ==
    [][\A l \in Locs, k \in DataKinds :
         cc'[l][k].m1 # cc[l][k].m1 =>
           LET f == "m1_" \o ExpectedCause(hist, NewBlocks, FAD1Cap)
           IN  cc'[l][k][f] = cc[l][k][f] + 1]_vars

\* cachesim_D1_doref with the FA_LL and INFI shadows: every LL miss of a
\* data reference is counted under the cause its reuse distance gives
\* (capacity FA_LL), as spec 4.3 defines it for both levels.
LLMissCauseMatchesReuseDistance ==
    [][\A l \in Locs, k \in DataKinds :
         cc'[l][k].mL # cc[l][k].mL =>
           LET f == "mL_" \o ExpectedCause(hist, NewBlocks, FALLCap)
           IN  cc'[l][k][f] = cc[l][k][f] + 1]_vars
=============================================================================
