--------------------------- MODULE VarAttribution ---------------------------
(***************************************************************************)
(* Variable attribution on the D1 miss path of cg_sim.c, with the listing  *)
(* loaded (module VarListing):                                             *)
(*                                                                         *)
(*   cachesim_setref_is_miss, lines 455-511: on each probe that misses,    *)
(*     the evicted line's base address is resolved (comp_addr_var); if it  *)
(*     is a variable's, the usage record of that variable under the        *)
(*     current source line counts the eviction by words used and adds the  *)
(*     line's access count; if the installed line's base address is also a *)
(*     variable's, the pair record (in, out) is created and *cr_hook is    *)
(*     pointed at it.                                                      *)
(*   cachesim_D1_doref, lines 658-690: cr starts NULL; both probes of a    *)
(*     straddling reference share it; on a D1 miss the record it points at *)
(*     gets the miss's cause.                                              *)
(*                                                                         *)
(* The usage and pair tables are total functions whose untouched entries   *)
(* are zero: the code creates an entry on first use with zero counts.      *)
(***************************************************************************)
EXTENDS Integers, FiniteSets, Sequences

LOCAL INSTANCE ShadowCaches
LOCAL INSTANCE Functions

CONSTANTS
    Size, Assoc, LineSize, WordSize, MaxBins, Locs, NoLoc,
    Vars,       \* Vars[id]: the [begin, end] of variable id, both inclusive
    Accesses,   \* <<address, size>> data references
    MaxRefs

C == INSTANCE CacheSim WITH CountEvicts <- TRUE

ASSUME \A r \in Accesses :
          /\ r[2] \in 1 .. 8
          /\ (r[1] + r[2] - 1) \div LineSize <= r[1] \div LineSize + 1

FACap == Size \div LineSize

Blocks == {r[1] \div LineSize : r \in Accesses}
          \cup {(r[1] + r[2] - 1) \div LineSize : r \in Accesses}

NoVar  == -1
NoPair == -1

\* pair_id = (var_in->id << 10) + var_out->id
PairId(in, out) == in * 1024 + out

PairIds == {PairId(i, o) : i, o \in DOMAIN Vars}

Causes == {"comp", "conf", "cap"}

VARIABLES
    d1, infi, faD1,   \* D1 and the INFI / FA_D1 shadows
    cu,               \* cu[l][v]: cu_table_D1 of source line l, variable v
    cr,               \* cr[l][p]: cr_table_D1 of source line l, pair p
    nrefs,
    lastHook,   \* auxiliary: the record cr pointed at after the last reference
    hooks,      \* auxiliary: hooks[l][p], probe misses that pointed cr at p
    hitsOf,     \* auxiliary: hits on block b since it was installed
    wordsOf,    \* auxiliary: words of block b touched since it was installed
    evHits,     \* auxiliary: hits of variable v's lines, summed at eviction
    evWords     \* auxiliary: words used of variable v's lines, summed at eviction

vars == <<d1, infi, faD1, cu, cr, nrefs, lastHook, hooks, hitsOf, wordsOf, evHits, evWords>>

ZeroUsage == [evicts |-> [b \in C!Bins |-> 0], acc |-> 0]
ZeroRep   == [c \in Causes |-> 0]

\* comp_addr_var through OSetGen_LookupWithCmp: the variable whose range
\* holds address a.
Resolve(a) ==
    IF \E v \in DOMAIN Vars : Vars[v].begin <= a /\ a <= Vars[v].end
    THEN CHOOSE v \in DOMAIN Vars : Vars[v].begin <= a /\ a <= Vars[v].end
    ELSE NoVar

\* Plausible fault: the installed block's address is resolved as the victim.
EvictedBaseInstalled(old, pr) == pr.tag * LineSize

\* "Addr out = evict_line.tag << c->line_size_bits"
EvictedBase(old, pr) == old.tag * LineSize

\* The attribution of one probe pr of cache c for source line loc; st
\* threads the tables, the hook and the auxiliary records through the
\* probes of one reference.
AttrProbe(st, c, pr, loc) ==
    LET s    == pr.set
        old  == c.lines[s][c.lru[s][Assoc]]
        vOut == Resolve(EvictedBase(old, pr))
        vIn  == Resolve(pr.tag * LineSize)
        Wds  == pr.wb .. pr.we
    IN  IF ~C!ProbeMiss(c, pr)
        THEN [st EXCEPT !.hitsOf[pr.tag] = @ + 1, !.wordsOf[pr.tag] = @ \cup Wds]
        ELSE [st EXCEPT
                !.cu = IF vOut = NoVar THEN @
                       ELSE [@ EXCEPT ![loc][vOut].evicts[C!BitopCount(old.bv) - 1] = @ + 1,
                                      ![loc][vOut].acc = @ + old.acc],
                !.hook = IF vOut # NoVar /\ vIn # NoVar THEN PairId(vIn, vOut) ELSE @,
                !.hooks = IF vOut # NoVar /\ vIn # NoVar
                          THEN [@ EXCEPT ![loc][PairId(vIn, vOut)] = @ + 1] ELSE @,
                !.evHits = IF old.tag # 0 /\ Resolve(old.tag * LineSize) # NoVar
                           THEN [@ EXCEPT ![Resolve(old.tag * LineSize)] = @ + st.hitsOf[old.tag]]
                           ELSE @,
                !.evWords = IF old.tag # 0 /\ Resolve(old.tag * LineSize) # NoVar
                            THEN [@ EXCEPT ![Resolve(old.tag * LineSize)] =
                                              @ + Cardinality(st.wordsOf[old.tag])]
                            ELSE @,
                !.hitsOf[pr.tag] = 0,
                !.wordsOf[pr.tag] = Wds]

\* Plausible fault: cr kept from the previous reference (a static hook).
HookKept(prev) == prev

\* "cacheline_rep_t *cr = NULL;" at the start of cachesim_D1_doref.
HookInit(prev) == NoPair

\* The first-level cause, as cachesim_D1_doref counts it in cr.
PairCause(missInfi, missFA) ==
    IF missInfi THEN "comp" ELSE IF ~missFA THEN "conf" ELSE "cap"

Init ==
    /\ d1 = C!InitCache
    /\ infi = {} /\ faD1 = << >>
    /\ cu = [l \in Locs |-> [v \in DOMAIN Vars |-> ZeroUsage]]
    /\ cr = [l \in Locs |-> [p \in PairIds |-> ZeroRep]]
    /\ nrefs = 0
    /\ lastHook = NoPair
    /\ hooks = [l \in Locs |-> [p \in PairIds |-> 0]]
    /\ hitsOf = [b \in Blocks |-> 0]
    /\ wordsOf = [b \in Blocks |-> {}]
    /\ evHits = [v \in DOMAIN Vars |-> 0]
    /\ evWords = [v \in DOMAIN Vars |-> 0]

\* cachesim_D1_doref for one data reference of source line loc, up to the
\* LL probe (which attributes nothing).
DataRef(a, size, loc) ==
    LET B    == RefBlocks(a, size, LineSize)
        fa   == FARef(faD1, B, FACap)
        P    == C!Probes(a, size)
        c1   == C!ProbeRef(d1, P[1], loc)
        st0  == [cu |-> cu, hook |-> HookInit(lastHook), hooks |-> hooks,
                 hitsOf |-> hitsOf, wordsOf |-> wordsOf, evHits |-> evHits, evWords |-> evWords]
        st1  == AttrProbe(st0, d1, P[1], loc)
        st   == IF Len(P) = 1 THEN st1 ELSE AttrProbe(st1, c1, P[2], loc)
        r    == C!Ref(d1, a, size, loc)
    IN  /\ nrefs < MaxRefs
        /\ d1' = r.cache
        /\ infi' = InfiAfter(infi, B)
        /\ faD1' = fa.list
        /\ cu' = st.cu
        /\ cr' = IF C!IsMiss(r) /\ st.hook # NoPair
                 THEN [cr EXCEPT ![loc][st.hook][PairCause(InfiMiss(infi, B), fa.miss)] = @ + 1]
                 ELSE cr
        /\ nrefs' = nrefs + 1
        /\ lastHook' = st.hook
        /\ hooks' = st.hooks
        /\ hitsOf' = st.hitsOf /\ wordsOf' = st.wordsOf
        /\ evHits' = st.evHits /\ evWords' = st.evWords

Next == \E r \in Accesses, l \in Locs : DataRef(r[1], r[2], l)

Spec == Init /\ [][Next]_vars

-----------------------------------------------------------------------------
(* Properties                                                              *)

\* The usage records (cu_table_D1): summed over the source lines that
\* evicted them, the records of variable v hold exactly the hits and the
\* words used that v's lines received while they were cached.
UsedWords(u) == SumFunction([b \in C!Bins |-> u.evicts[b] * (b + 1)])

UsageMatchesEvictedLines ==
    \A v \in DOMAIN Vars :
        /\ SumFunction([l \in Locs |-> cu[l][v].acc]) = evHits[v]
        /\ SumFunction([l \in Locs |-> UsedWords(cu[l][v])]) = evWords[v]

\* The pair records (cr_table_D1): a record is classified only for a
\* reference whose probe missed and pointed cr at it in that reference.
PairClassifiedOnlyWhenHooked ==
    \A l \in Locs, p \in PairIds :
        SumFunction(cr[l][p]) <= hooks[l][p]

\* Spec 4.2: each pair record's update is later incremented with that
\* miss's classification, so every probe miss that created or updated a
\* pair record is classified in it.
PairMissesClassified ==
    \A l \in Locs, p \in PairIds :
        SumFunction(cr[l][p]) = hooks[l][p]
=============================================================================
